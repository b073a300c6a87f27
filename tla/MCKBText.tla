------------------------------- MODULE MCKBText -------------------------------
(* Small instances of KBText for TLC. *)
EXTENDS KBText
=============================================================================
