--------------------------- MODULE Subscriptions ---------------------------
(***************************************************************************)
(* What pubsub::root promises to the subscribers of its nodes, whatever    *)
(* the adapter does and whatever state a node is in: a user is called back *)
(* about a node only while it is on one of the node's lists, or with an    *)
(* error call back that root still owes it.  Module Root is shown to       *)
(* implement this module; the modules of root's users are built on it.     *)
(***************************************************************************)
EXTENDS Naturals

CONSTANTS
    Nodes,  \* node names
    Users   \* subscribers

VARIABLES
    subs,   \* [Nodes -> SUBSET Users], subscribed
    wait,   \* [Nodes -> SUBSET Users], waiting for authorization
    asked,  \* [Nodes -> [Users -> Nat]], questions to the adapter: is u authorized?
    owed,   \* [Nodes -> [Users -> Nat]], error call backs that are still to come
    told    \* [Nodes -> [Users -> Notices]], last call back since subscribe()

subVars == <<subs, wait, asked, owed, told>>

Errors == {"invalid", "unauthorized", "failed"}
Notices == Errors \cup {"none", "update"}

SubInit ==
    /\ subs = [n \in Nodes |-> {}]
    /\ wait = [n \in Nodes |-> {}]
    /\ asked = [n \in Nodes |-> [u \in Users |-> 0]]
    /\ owed = [n \in Nodes |-> [u \in Users |-> 0]]
    /\ told = [n \in Nodes |-> [u \in Users |-> "none"]]

Tell(n, us, notice) ==
    told' = [told EXCEPT ![n] = [u \in Users |-> IF u \in us THEN notice ELSE @[u]]]

-----------------------------------------------------------------------------
(* subscribe(): a new subscription has heard nothing yet. *)
Ask(n, u) == Tell(n, {u}, "none") /\ UNCHANGED <<subs, wait, asked, owed>>

(* The user waits for its authorization, ... *)
JoinWaiting(n, u) ==
    /\ wait' = [wait EXCEPT ![n] = @ \cup {u}]
    /\ UNCHANGED <<subs, asked, owed, told>>

(* ... or is subscribed to a node that has no data, ... *)
Join(n, u) ==
    /\ subs' = [subs EXCEPT ![n] = @ \cup {u}]
    /\ UNCHANGED <<wait, asked, owed, told>>

(* ... or to one that has, ... *)
JoinWithData(n, u) ==
    /\ subs' = [subs EXCEPT ![n] = @ \cup {u}]
    /\ Tell(n, {u}, "update")
    /\ UNCHANGED <<wait, asked, owed>>

(* ... or the node is in an error state. *)
Owe(n, u) ==
    /\ owed' = [owed EXCEPT ![n][u] = @ + 1]
    /\ UNCHANGED <<subs, wait, asked, told>>

(* The adapter is asked to authorize the users us. *)
AskAdapter(n, us) ==
    /\ asked' = [asked EXCEPT ![n] = [u \in Users |-> IF u \in us THEN @[u] + 1 ELSE @[u]]]
    /\ UNCHANGED <<subs, wait, owed, told>>

(* The adapter answers yes, but the user has left, ... *)
AdmitNobody(n, u) ==
    /\ asked[n][u] > 0 /\ u \notin wait[n]
    /\ asked' = [asked EXCEPT ![n][u] = @ - 1]
    /\ UNCHANGED <<subs, wait, owed, told>>

(* ... or the user waits. *)
AdmitQuietly(n, u) ==
    /\ asked[n][u] > 0 /\ u \in wait[n]
    /\ asked' = [asked EXCEPT ![n][u] = @ - 1]
    /\ wait' = [wait EXCEPT ![n] = @ \ {u}]
    /\ subs' = [subs EXCEPT ![n] = @ \cup {u}]
    /\ UNCHANGED <<owed, told>>

AdmitWithData(n, u) ==
    /\ asked[n][u] > 0 /\ u \in wait[n]
    /\ asked' = [asked EXCEPT ![n][u] = @ - 1]
    /\ wait' = [wait EXCEPT ![n] = @ \ {u}]
    /\ subs' = [subs EXCEPT ![n] = @ \cup {u}]
    /\ Tell(n, {u}, "update")
    /\ UNCHANGED owed

(* The adapter answers no; the user is told later. *)
Refuse(n, u) ==
    /\ asked[n][u] > 0
    /\ asked' = [asked EXCEPT ![n][u] = @ - 1]
    /\ owed' = [owed EXCEPT ![n][u] = @ + 1]
    /\ wait' = [wait EXCEPT ![n] = @ \ {u}]
    /\ UNCHANGED <<subs, told>>

TellError(n, u, notice) ==
    /\ owed[n][u] > 0
    /\ owed' = [owed EXCEPT ![n][u] = @ - 1]
    /\ Tell(n, {u}, notice)
    /\ UNCHANGED <<subs, wait, asked>>

(* The node got its first, or new, data. *)
Update(n) ==
    /\ Tell(n, subs[n], "update")
    /\ UNCHANGED <<subs, wait, asked, owed>>

(* The node is invalid, or could not be initialized: it never had data. *)
FailNode(n, notice) ==
    /\ \A u \in Users : told[n][u] # "update"
    /\ Tell(n, subs[n] \cup wait[n], notice)
    /\ subs' = [subs EXCEPT ![n] = {}]
    /\ wait' = [wait EXCEPT ![n] = {}]
    /\ UNCHANGED <<asked, owed>>

(* unsubscribe() and unsubscribe_all() *)
Leave(u, ns) ==
    /\ subs' = [n \in Nodes |-> IF n \in ns THEN subs[n] \ {u} ELSE subs[n]]
    /\ wait' = [n \in Nodes |-> IF n \in ns THEN wait[n] \ {u} ELSE wait[n]]
    /\ UNCHANGED <<asked, owed, told>>

SubNext ==
    \/ \E n \in Nodes, u \in Users :
         \/ Ask(n, u)
         \/ JoinWaiting(n, u) \/ Join(n, u) \/ JoinWithData(n, u) \/ Owe(n, u)
         \/ AdmitNobody(n, u) \/ AdmitQuietly(n, u) \/ AdmitWithData(n, u)
         \/ Refuse(n, u)
         \/ \E notice \in Errors : TellError(n, u, notice)
    \/ \E n \in Nodes, us \in SUBSET Users : AskAdapter(n, us)
    \/ \E n \in Nodes : Update(n) \/ \E notice \in Errors : FailNode(n, notice)
    \/ \E u \in Users, ns \in SUBSET Nodes : Leave(u, ns)

SubSpec == SubInit /\ [][SubNext]_subVars
=============================================================================
