-------------------------- MODULE MCSessionStores ---------------------------
(* A small instance of SessionStores for TLC; turns and agents are interchangeable. *)
EXTENDS SessionStores, TLC

Symmetry == Permutations(Turns) \cup Permutations(Agents)
=============================================================================
