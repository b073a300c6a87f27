---------------------------- MODULE MCTaskMemory ----------------------------
(* Small instances of TaskMemory for TLC; turns and tools are interchangeable. *)
EXTENDS TaskMemory, TLC

Symmetry == Permutations(Turns) \cup Permutations(Tools)
=============================================================================
