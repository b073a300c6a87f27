------------------------------ MODULE MCEngine ------------------------------
(* Small instances of Engine for TLC; the turns are interchangeable. *)
EXTENDS Engine, TLC

Symmetry == Permutations(Turns)
=============================================================================
