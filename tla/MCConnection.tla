---------------------------- MODULE MCConnection ----------------------------
(* Module Connection for TLC. *)
EXTENDS Connection
=============================================================================
