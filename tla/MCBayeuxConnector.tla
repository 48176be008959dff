------------------------- MODULE MCBayeuxConnector -------------------------
(* Module BayeuxConnector for TLC. *)
EXTENDS BayeuxConnector

CONSTANTS s1, s2, r1, r2
=============================================================================
