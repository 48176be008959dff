---------------------------- MODULE MCPubsubHttp ----------------------------
(* Module PubsubHttp for TLC. *)
EXTENDS PubsubHttp

CONSTANTS n1, r1, r2

(* The properties that are about what a client has after its return are    *)
(* those of a patient one.                                                 *)
MCMaxReturns == [p \in BOOLEAN |-> IF p THEN 1 ELSE 0]
=============================================================================
