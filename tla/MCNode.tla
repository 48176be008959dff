------------------------------- MODULE MCNode -------------------------------
(* Module Node for TLC with real documents, the updates that json::delta() *)
(* finds between them, and the client that applies these.                  *)
EXTENDS Node

J == INSTANCE JsonDelta
C == INSTANCE ClientUpdate

Text == J!String(<<"a", "\"", "b", "e", "s", "t">>)

(* An object with the value v for each of the names. *)
Same(names, v) == J!Object([n \in { J!String(<<c>>)[2] : c \in names } |-> v])

(* Arrays that grow, shrink and change in the middle and in their members; *)
(* one is so small that no update is kept for it.  Objects: an update of   *)
(* the member that is an array is small, an update of the others is nearly *)
(* as long as the object, and is too large.  Between an array, an object   *)
(* and a string there is no update.                                        *)
MCFirst == J!Array(<<Text, J!Number(1), J!Number(22), J!Array(<<J!Null, Text>>), Same({"a", "b"}, Text)>>)

MCValues == { MCFirst, J!Array(<<>>) } \cup { J!Array(m) : m \in {
    <<Text, J!Number(22), J!Array(<<J!Null, Text>>), Same({"a", "b"}, Text)>>,
    <<Text, J!Number(-7), J!True, J!False, J!Array(<<Text>>), Same({"a", "b"}, Text)>>,
    <<J!Array(<<J!Null, Text>>), Same({"a", "b", "e"}, Text), J!Number(22), J!Number(22)>>,
    <<Text, J!Number(22), J!Number(22), J!Number(22), Same({"b", "e"}, Text)>> } }
    \cup { Text, Same({"a"}, MCFirst), Same({"a", "b"}, J!Array(<<Text>> \o MCFirst[2])), Same({"b", "e"}, Text) }

MCKind == [v \in MCValues |-> IF v[1] \in {"array", "object"} THEN v[1] ELSE "other"]

MCSize == [v \in MCValues |-> J!size(v)]

MCDelta == [a \in MCValues |-> [b \in MCValues |->
    J!delta(a, b, (J!size(b) * Percent) \div 100)]]

MCDeltaSize == [a \in MCValues |-> [b \in MCValues |-> J!size(MCDelta[a][b].value)]]

-----------------------------------------------------------------------------
(* Properties *)

(* The operations turn a into b, in the browser and with json::update(). *)
Rebuilds(a, operations, b) ==
    /\ C!PubSub_update(a, operations) = b
    /\ J!update(a, J!Array(operations)) = b

(* Whatever version since the last change without an update a client has,  *)
(* the operations it is sent, which delta() found one by one and           *)
(* sum_up_updates() put in one list, turn its data into the current data,  *)
(* in the browser as well as with json::update() (delta.h: "update         *)
(* sequence that will alter object a to become object b").                 *)
ClientRebuilds ==
    \A known \in gap .. version : UpdateKnown(known) =>
        LET us == get_update_from(known)
        IN  Rebuilds(history[known],
                     C!sum_up_updates([i \in DOMAIN us |-> MCDelta[us[i].from][us[i].to].value]),
                     data)

(* What the search added up is the length of the text. *)
Exact(d) == d.costs = Len(J!to_json(d.value))

(* The size of an update, which decides how many updates are kept and was  *)
(* added up while the operations were searched, is the length of its text  *)
(* (assert at delta.cpp:135).                                              *)
SizesExact == \A i \in DOMAIN updates : Exact(MCDelta[updates[i].from][updates[i].to])
=============================================================================
