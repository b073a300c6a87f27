------------------------------ MODULE MCKBIndex ------------------------------
(* Small instances of KBIndex for TLC; documents, and requests, are alike. *)
EXTENDS KBIndex, TLC

Symmetry == Permutations(Docs) \cup Permutations(Requests)
=============================================================================
