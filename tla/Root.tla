-------------------------------- MODULE Root --------------------------------
(***************************************************************************)
(* pubsub::root on top of subscribed_node.  The calls of root run in any   *)
(* thread of the server, the adapter (the application) answers the call    *)
(* backs it was given whenever it wants, from any thread; a call back that *)
(* it drops answers negatively from its destructor.                        *)
(*                                                                         *)
(* subscribe() is not atomic.  It looks the node up under root's mutex_,   *)
(* adds the subscriber under the node's mutex_, and calls the adapter      *)
(* under no lock: call[n][u] is how far the call for (u, n) has come.      *)
(***************************************************************************)
EXTENDS SubscribedNode

CONSTANTS
    MaxOpen \* bound: u subscribes to n with fewer than MaxOpen call backs of (n, u) open

ASSUME BoundAssumption == MaxOpen \in Nat

VARIABLES
    nodes,      \* SUBSET Nodes, the keys of nodes_
    call,       \* [Nodes -> [Users -> Calls]]
    validator,  \* [Nodes -> {"none", "held", "done"}], the node_validator
    refused,    \* [Nodes -> [Users -> Nat]], not_authorized() between its two halves
    granted     \* [Nodes -> SUBSET Users], history: is_authorized() was called

rootVars == <<nodes, call, validator, refused, granted, auth_required>>
vars == <<nodeVars, rootVars>>

Calls == {"idle",
          "add_validate", "add_authorize", "add", \* before add_subscriber()
          "validate", "authorize"}                \* before the adapter is called

RootInit ==
    /\ NodeInit
    /\ nodes = {}
    /\ call = [n \in Nodes |-> [u \in Users |-> "idle"]]
    /\ validator = [n \in Nodes |-> "none"]
    /\ refused = [n \in Nodes |-> [u \in Users |-> 0]]
    /\ granted = [n \in Nodes |-> {}]
    /\ auth_required \in SUBSET Nodes

-----------------------------------------------------------------------------
(* root::subscribe() *)

(* Under root's mutex: find the node, or create it with its validator. *)
find_or_create(n, u) ==
    /\ call[n][u] = "idle"
    /\ authorizers[n][u] + refused[n][u] + posts[n][u] < MaxOpen
    /\ call' = [call EXCEPT ![n][u] =
                  IF n \notin nodes THEN "add_validate"
                  ELSE IF authorization_required(n) THEN "add_authorize"
                  ELSE "add"]
    /\ nodes' = nodes \cup {n}
    /\ told' = [told EXCEPT ![n][u] = "none"]
    /\ UNCHANGED <<state, data, subscribers, unauthorized, authorizers, initializers,
                   posts, seen, validator, refused, granted, auth_required>>

(* Under the node's mutex. *)
add(n, u) ==
    /\ call[n][u] \in {"add_validate", "add_authorize", "add"}
    /\ add_subscriber(n, u)
    /\ call' = [call EXCEPT ![n][u] =
                  CASE @ = "add_validate" -> "validate"
                    [] @ = "add_authorize" -> "authorize"
                    [] OTHER -> "idle"]
    /\ UNCHANGED <<nodes, validator, refused, granted, auth_required>>

(* adapter_.validate_node( node_name, validate ) *)
call_validate_node(n, u) ==
    /\ call[n][u] = "validate"
    /\ call' = [call EXCEPT ![n][u] = "idle"]
    /\ validator' = [validator EXCEPT ![n] = "held"]
    /\ UNCHANGED <<nodeVars, nodes, refused, granted, auth_required>>

(* adapter_.authorize( s, node_name, authorizer ) *)
call_authorize(n, u) ==
    /\ call[n][u] = "authorize"
    /\ call' = [call EXCEPT ![n][u] = "idle"]
    /\ authorizers' = [authorizers EXCEPT ![n][u] = @ + 1]
    /\ UNCHANGED <<state, data, subscribers, unauthorized, initializers, posts, told, seen,
                   nodes, validator, refused, granted, auth_required>>

-----------------------------------------------------------------------------
(* The other calls.  root.h leaves it to the caller to order subscribe()   *)
(* and unsubscribe() of one user and node: no unsubscribe() during one.    *)

update_node(n, value) ==
    /\ n \in nodes
    /\ change_data(n, value)
    /\ UNCHANGED <<nodes, call, validator, refused, granted, auth_required>>

unsubscribe(n, u) ==
    /\ n \in nodes
    /\ call[n][u] = "idle"
    /\ remove_subscriber(n, u)
    /\ UNCHANGED rootVars

unsubscribe_all(u) ==
    /\ \A n \in Nodes : call[n][u] = "idle"
    /\ remove_everywhere(u)
    /\ UNCHANGED rootVars

-----------------------------------------------------------------------------
(* The adapter answers, or drops a call back (the negative answer).  Its   *)
(* own notifications (adapter::invalid_node_subscription() and so on) are  *)
(* posted last and change nothing here.                                    *)

is_valid(n) ==
    /\ validator[n] = "held"
    /\ validator' = [validator EXCEPT ![n] = "done"]
    /\ validated(n)
    /\ UNCHANGED <<nodes, call, refused, granted, auth_required>>

not_valid(n) ==
    /\ validator[n] = "held"
    /\ validator' = [validator EXCEPT ![n] = "done"]
    /\ not_validated(n)
    /\ UNCHANGED <<nodes, call, refused, granted, auth_required>>

is_authorized(n, u) ==
    /\ authorizers[n][u] > 0
    /\ authorized_subscriber(n, u)
    /\ granted' = [granted EXCEPT ![n] = @ \cup {u}]
    /\ UNCHANGED <<nodes, call, validator, refused, auth_required>>

(* Takes the user off the list under the node's mutex ... *)
not_authorized(n, u) ==
    /\ authorizers[n][u] > 0
    /\ unauthorized_subscriber(n, u)
    /\ refused' = [refused EXCEPT ![n][u] = @ + 1]
    /\ UNCHANGED <<nodes, call, validator, granted, auth_required>>

(* ... and tells the user under no lock. *)
tell_unauthorized(n, u) ==
    /\ refused[n][u] > 0
    /\ refused' = [refused EXCEPT ![n][u] = @ - 1]
    /\ OnError(n, {u}, "unauthorized")
    /\ UNCHANGED <<state, data, subscribers, unauthorized, authorizers, initializers, posts,
                   nodes, call, validator, granted, auth_required>>

initial_value(n, value) ==
    /\ initializers[n] > 0
    /\ initial_data(n, value)
    /\ UNCHANGED rootVars

initialization_dropped(n) ==
    /\ initializers[n] > 0
    /\ initial_data_failed(n)
    /\ UNCHANGED rootVars

run_queue(n, u) == run_post(n, u) /\ UNCHANGED rootVars

-----------------------------------------------------------------------------
SubscribeStep(n, u) == add(n, u) \/ call_validate_node(n, u) \/ call_authorize(n, u)

ValidationAnswer(n) == is_valid(n) \/ not_valid(n)

AuthorizationAnswer(n, u) == is_authorized(n, u) \/ not_authorized(n, u)

InitializationAnswer(n) ==
    initialization_dropped(n) \/ \E value \in Values : initial_value(n, value)

Next ==
    \/ \E n \in Nodes, u \in Users :
         \/ find_or_create(n, u)
         \/ SubscribeStep(n, u)
         \/ unsubscribe(n, u)
         \/ AuthorizationAnswer(n, u)
         \/ tell_unauthorized(n, u)
         \/ run_queue(n, u)
    \/ \E n \in Nodes :
         \/ \E value \in Values : update_node(n, value)
         \/ ValidationAnswer(n)
         \/ InitializationAnswer(n)
    \/ \E u \in Users : unsubscribe_all(u)

Spec == RootInit /\ [][Next]_vars

(* A thread that runs subscribe() goes on, the io queue runs what was      *)
(* posted, and the adapter answers or drops every call back it was given.  *)
Fairness ==
    /\ \A n \in Nodes, u \in Users :
         /\ WF_vars(SubscribeStep(n, u))
         /\ WF_vars(AuthorizationAnswer(n, u))
         /\ WF_vars(tell_unauthorized(n, u))
         /\ WF_vars(run_queue(n, u))
    /\ \A n \in Nodes :
         /\ WF_vars(ValidationAnswer(n))
         /\ WF_vars(InitializationAnswer(n))

FairSpec == Spec /\ Fairness

-----------------------------------------------------------------------------
(* Properties *)

(* The types of the members of root and subscribed_node; every count of    *)
(* open call backs stays a natural number: none is answered twice.         *)
TypeOK ==
    /\ state \in [Nodes -> States]
    /\ data \in [Nodes -> Values]
    /\ subscribers \in [Nodes -> SUBSET Users]
    /\ unauthorized \in [Nodes -> SUBSET Users]
    /\ authorizers \in [Nodes -> [Users -> Nat]]
    /\ initializers \in [Nodes -> Nat]
    /\ posts \in [Nodes -> [Users -> Nat]]
    /\ told \in [Nodes -> [Users -> Notices]]
    /\ seen \in [Nodes -> [Users -> Values]]
    /\ nodes \in SUBSET Nodes
    /\ call \in [Nodes -> [Users -> Calls]]
    /\ validator \in [Nodes -> {"none", "held", "done"}]
    /\ refused \in [Nodes -> [Users -> Nat]]
    /\ granted \in [Nodes -> SUBSET Users]
    /\ auth_required \subseteq Nodes

(* However many users are authorized at once, the application is asked to  *)
(* initialize a node exactly while it is initializing, and by one call     *)
(* back: post_initialization_request() never runs twice for a node.        *)
OneInitialization ==
    \A n \in Nodes : initializers[n] = IF state[n] = "initializing" THEN 1 ELSE 0

(* A node that is invalid or failed keeps nobody on its lists: whoever     *)
(* subscribes while the node fails gets a posted error call back instead   *)
(* of waiting on a node that will never answer.                            *)
ErrorStatesEmpty ==
    \A n \in Nodes :
        state[n] \in ErrorStates => subscribers[n] = {} /\ unauthorized[n] = {}

(* Every subscriber of an initialized node was given the node's current    *)
(* data by its last on_update(), in whatever order subscriptions,          *)
(* authorizations, the initial value and updates came.                     *)
FreshSubscribers ==
    \A n \in Nodes : state[n] = "valid_and_initialized" =>
        \A u \in subscribers[n] : seen[n][u] = data[n]

(* A node that requires authorization has as subscribers, and sends data   *)
(* to, only users for which the adapter called is_authorized().            *)
AuthorizedOnly ==
    \A n \in auth_required, u \in Users :
        u \in subscribers[n] \/ told[n][u] = "update" => u \in granted[n]

(* A user on unauthorized_ is not forgotten: the node is still to be       *)
(* validated, or an authorization call back for the user is open, or the   *)
(* user's own subscribe() is about to open one.                            *)
WaitingIsPending ==
    \A n \in Nodes, u \in Users : u \in unauthorized[n] =>
        \/ state[n] = "unvalidated"
        \/ authorizers[n][u] > 0
        \/ call[n][u] = "authorize"

(* The assertions of validated() and not_validated() that hold: the one    *)
(* validator of a node is answered while the node is unvalidated, and a    *)
(* node without authorization never has an unauthorized user.              *)
ValidationAssertions ==
    \A n \in Nodes :
        /\ validator[n] = "held" => state[n] = "unvalidated"
        /\ n \notin auth_required => unauthorized[n] = {}

(* The life of a node: it only moves forward from unvalidated to one of    *)
(* its three final states, which it never leaves.                          *)
Forward(s) ==
    CASE s = "unvalidated"   -> {"invalid", "uninitialized", "initializing"}
      [] s = "uninitialized" -> {"initializing"}
      [] s = "initializing"  -> {"valid_and_initialized", "initialization_failed"}
      [] OTHER               -> {}

StateOrder ==
    [][\A n \in Nodes : state'[n] # state[n] => state'[n] \in Forward(state[n])]_vars

(* What root promises its subscribers, in the terms of this module. *)
Promise == INSTANCE Subscriptions WITH
    subs <- subscribers,
    wait <- unauthorized,
    asked <- authorizers,
    owed <- [n \in Nodes |-> [u \in Users |-> posts[n][u] + refused[n][u]]]

(* Root implements Subscriptions: nobody is called back about a node that  *)
(* is neither on its lists nor owed an error call back, each error that is *)
(* owed is told once, a node fails only if nobody ever had its data, and   *)
(* then tells everyone it removes.                                         *)
KeepsPromise == Promise!SubSpec

(* A user waits on unauthorized_ for the answer of the adapter or, at a    *)
(* node without authorization, on subscribers_ for its first call back.    *)
Waiting(n, u) ==
    \/ u \in unauthorized[n]
    \/ n \notin auth_required /\ u \in subscribers[n] /\ told[n][u] = "none"

(* Nobody waits for ever: the answers of the adapter reach everyone, also  *)
(* those who came while the node was validated, initialized or failed.     *)
WaitingAnswered == \A n \in Nodes, u \in Users : Waiting(n, u) ~> ~Waiting(n, u)
=============================================================================
