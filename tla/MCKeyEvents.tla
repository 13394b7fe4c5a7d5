---------------------------- MODULE MCKeyEvents -----------------------------
(* Instances of KeyEvents for TLC. *)
EXTENDS KeyEvents
=============================================================================
