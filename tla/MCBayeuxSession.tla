-------------------------- MODULE MCBayeuxSession --------------------------
(* Module BayeuxSession for TLC. *)
EXTENDS BayeuxSession

CONSTANTS n1, r1, r2
=============================================================================
