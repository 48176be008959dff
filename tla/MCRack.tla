------------------------------- MODULE MCRack -------------------------------
(* Module Rack for TLC. *)
EXTENDS Rack

CONSTANTS r1, r2, r3
=============================================================================
