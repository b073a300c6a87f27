----------------------------- MODULE MCFactStore -----------------------------
(* Small instances of FactStore for TLC; calls and values are interchangeable. *)
EXTENDS FactStore, TLC

Symmetry == Permutations(Calls) \cup Permutations(Values)
=============================================================================
