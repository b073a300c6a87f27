----------------------------- MODULE MCIdleScan -----------------------------
(* Small instances of IdleScan for TLC. *)
EXTENDS IdleScan
=============================================================================
