------------------------------- MODULE MCRoot -------------------------------
(* Module Root for TLC. *)
EXTENDS Root

CONSTANTS u1, u2, n1, v0, v1
=============================================================================
