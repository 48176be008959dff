--------------------------- MODULE SubscribedNode ---------------------------
(***************************************************************************)
(* pubsub::subscribed_node: the data, the subscribers and the validation   *)
(* state of every node of the tree.  Every operator below is one member    *)
(* function, which runs as a whole under the node's mutex_, and is written *)
(* as an action on the node n.  Module Root calls them.                    *)
(***************************************************************************)
EXTENDS Naturals

CONSTANTS
    Nodes,          \* node names
    Users,          \* subscribers
    Values,         \* json values a node can hold
    Null            \* json::null, the data of a new node

ASSUME NullAssumption == Null \in Values

VARIABLES
    state,          \* [Nodes -> States], state_
    data,           \* [Nodes -> Values], data_ without its version
    subscribers,    \* [Nodes -> SUBSET Users], subscribers_
    unauthorized,   \* [Nodes -> SUBSET Users], unauthorized_
    authorizers,    \* [Nodes -> [Users -> Nat]], user_authorizers not answered yet
    initializers,   \* [Nodes -> Nat], node_initializers not answered yet
    posts,          \* [Nodes -> [Users -> Nat]], error call backs in the io queue
    told,           \* [Nodes -> [Users -> Notices]], last call back since subscribe()
    seen,           \* [Nodes -> [Users -> Values]], data of the last on_update()
    auth_required   \* SUBSET Nodes, those whose config_ requires authorization; what
                    \* the constructor gets is chosen in the beginning

nodeVars == <<state, data, subscribers, unauthorized, authorizers,
              initializers, posts, told, seen>>

States == {"unvalidated", "invalid", "uninitialized", "initializing",
           "valid_and_initialized", "initialization_failed"}

ErrorStates == {"invalid", "initialization_failed"}

Notices == {"none", "update", "invalid", "unauthorized", "failed"}

(* The notice that a node in an error state has for its subscribers. *)
ErrorNotice(n) == IF state[n] = "invalid" THEN "invalid" ELSE "failed"

not_in_error_state(n) == state[n] \notin ErrorStates

(* Mutant: authorization is asked for only once the node has data. *)
authorization_required_late(n) ==
    n \in auth_required /\ state[n] = "valid_and_initialized"

authorization_required(n) == n \in auth_required /\ not_in_error_state(n)

-----------------------------------------------------------------------------
(* Call backs to the users in the set us, about node n. *)

OnUpdate(n, us, value) ==
    /\ told' = [told EXCEPT ![n] = [u \in Users |-> IF u \in us THEN "update" ELSE @[u]]]
    /\ seen' = [seen EXCEPT ![n] = [u \in Users |-> IF u \in us THEN value ELSE @[u]]]

OnError(n, us, notice) ==
    /\ told' = [told EXCEPT ![n] = [u \in Users |-> IF u \in us THEN notice ELSE @[u]]]
    /\ UNCHANGED seen

-----------------------------------------------------------------------------
(* The constructor: Root calls it for the first subscription to a node. *)

NodeInit ==
    /\ state = [n \in Nodes |-> "unvalidated"]
    /\ data = [n \in Nodes |-> Null]
    /\ subscribers = [n \in Nodes |-> {}]
    /\ unauthorized = [n \in Nodes |-> {}]
    /\ authorizers = [n \in Nodes |-> [u \in Users |-> 0]]
    /\ initializers = [n \in Nodes |-> 0]
    /\ posts = [n \in Nodes |-> [u \in Users |-> 0]]
    /\ told = [n \in Nodes |-> [u \in Users |-> "none"]]
    /\ seen = [n \in Nodes |-> [u \in Users |-> Null]]

(* Data that equals the stored data changes nothing; only a node that is   *)
(* valid and initialized tells its subscribers.                            *)
change_data(n, value) ==
    /\ data' = [data EXCEPT ![n] = value]
    /\ IF value # data[n] /\ state[n] = "valid_and_initialized"
         THEN OnUpdate(n, subscribers[n], value)
         ELSE UNCHANGED <<told, seen>>
    /\ UNCHANGED <<state, subscribers, unauthorized, authorizers, initializers, posts>>

add_subscriber(n, u) ==
    \/ /\ not_in_error_state(n)
       /\ n \in auth_required
       /\ unauthorized' = [unauthorized EXCEPT ![n] = @ \cup {u}]
       /\ UNCHANGED <<state, data, subscribers, authorizers, initializers, posts, told, seen>>
    \/ /\ not_in_error_state(n)
       /\ n \notin auth_required
       /\ subscribers' = [subscribers EXCEPT ![n] = @ \cup {u}]
       /\ IF state[n] = "valid_and_initialized"
            THEN OnUpdate(n, {u}, data[n])
            ELSE UNCHANGED <<told, seen>>
       /\ UNCHANGED <<state, data, unauthorized, authorizers, initializers, posts>>
    \/ /\ ~not_in_error_state(n)
       /\ posts' = [posts EXCEPT ![n][u] = @ + 1]
       /\ UNCHANGED <<state, data, subscribers, unauthorized, authorizers, initializers,
                      told, seen>>

remove_subscriber(n, u) ==
    /\ subscribers' = [subscribers EXCEPT ![n] = @ \ {u}]
    /\ unauthorized' = [unauthorized EXCEPT ![n] = @ \ {u}]
    /\ UNCHANGED <<state, data, authorizers, initializers, posts, told, seen>>

(* remove_subscriber() on every node; no operation touches two nodes, so   *)
(* the removals commute with what happens to the other nodes meanwhile.    *)
remove_everywhere(u) ==
    /\ subscribers' = [n \in Nodes |-> subscribers[n] \ {u}]
    /\ unauthorized' = [n \in Nodes |-> unauthorized[n] \ {u}]
    /\ UNCHANGED <<state, data, authorizers, initializers, posts, told, seen>>

(* Queues adapter::node_init() with a new node_initializer. *)
post_initialization_request(n) ==
    /\ state' = [state EXCEPT ![n] = "initializing"]
    /\ initializers' = [initializers EXCEPT ![n] = @ + 1]

(* With authorization, adapter::authorize() is queued for every user that  *)
(* waits, with a new user_authorizer each.                                 *)
validated(n) ==
    \/ /\ n \in auth_required
       /\ authorizers' = [authorizers EXCEPT ![n] =
                            [u \in Users |-> IF u \in unauthorized[n] THEN @[u] + 1 ELSE @[u]]]
       /\ state' = [state EXCEPT ![n] = "uninitialized"]
       /\ UNCHANGED <<data, subscribers, unauthorized, initializers, posts, told, seen>>
    \/ /\ n \notin auth_required
       /\ post_initialization_request(n)
       /\ UNCHANGED <<data, subscribers, unauthorized, authorizers, posts, told, seen>>

(* Mutant: who still waits for authorization is forgotten. *)
Fail_subscribers_only(n, final, notice) ==
    /\ OnError(n, subscribers[n], notice)
    /\ subscribers' = [subscribers EXCEPT ![n] = {}]
    /\ unauthorized' = [unauthorized EXCEPT ![n] = {}]
    /\ state' = [state EXCEPT ![n] = final]

(* What not_validated() and initial_data_failed() share: the notice to     *)
(* everybody, both lists cleared, the final state.                         *)
Fail(n, final, notice) ==
    /\ OnError(n, subscribers[n] \cup unauthorized[n], notice)
    /\ subscribers' = [subscribers EXCEPT ![n] = {}]
    /\ unauthorized' = [unauthorized EXCEPT ![n] = {}]
    /\ state' = [state EXCEPT ![n] = final]

not_validated(n) ==
    /\ Fail(n, "invalid", "invalid")
    /\ UNCHANGED <<data, authorizers, initializers, posts>>

(* Mutant: every authorized user requests the initialization. *)
needs_initialization_always(n) == TRUE

(* The first authorized user of a node requests its initialization. *)
needs_initialization(n) == state[n] = "uninitialized"

authorized_subscriber(n, u) ==
    /\ authorizers' = [authorizers EXCEPT ![n][u] = @ - 1]
    /\ \/ /\ u \notin unauthorized[n]
          /\ UNCHANGED <<state, subscribers, unauthorized, initializers, told, seen>>
       \/ /\ u \in unauthorized[n]
          /\ unauthorized' = [unauthorized EXCEPT ![n] = @ \ {u}]
          /\ subscribers' = [subscribers EXCEPT ![n] = @ \cup {u}]
          /\ IF needs_initialization(n)
               THEN post_initialization_request(n)
               ELSE UNCHANGED <<state, initializers>>
          /\ IF state[n] = "valid_and_initialized"
               THEN OnUpdate(n, {u}, data[n])
               ELSE UNCHANGED <<told, seen>>
    /\ UNCHANGED <<data, posts>>

(* Mutant: a negative answer is taken for a positive one. *)
unauthorized_subscriber_admits(n, u) == authorized_subscriber(n, u)

unauthorized_subscriber(n, u) ==
    /\ authorizers' = [authorizers EXCEPT ![n][u] = @ - 1]
    /\ unauthorized' = [unauthorized EXCEPT ![n] = @ \ {u}]
    /\ UNCHANGED <<state, data, subscribers, initializers, posts, told, seen>>

(* Mutant: the subscribers get the data from before the initialization. *)
initial_data_stale(n, value) ==
    /\ initializers' = [initializers EXCEPT ![n] = @ - 1]
    /\ state' = [state EXCEPT ![n] = "valid_and_initialized"]
    /\ data' = [data EXCEPT ![n] = value]
    /\ OnUpdate(n, subscribers[n], data[n])
    /\ UNCHANGED <<subscribers, unauthorized, authorizers, posts>>

(* assert(state_ = initializing) assigns; both builds overwrite it. *)
initial_data(n, value) ==
    /\ initializers' = [initializers EXCEPT ![n] = @ - 1]
    /\ state' = [state EXCEPT ![n] = "valid_and_initialized"]
    /\ data' = [data EXCEPT ![n] = value]
    /\ OnUpdate(n, subscribers[n], value)
    /\ UNCHANGED <<subscribers, unauthorized, authorizers, posts>>

initial_data_failed(n) ==
    /\ initializers' = [initializers EXCEPT ![n] = @ - 1]
    /\ Fail(n, "initialization_failed", "failed")
    /\ UNCHANGED <<data, authorizers, posts>>

(* The io queue runs an error call back that add_subscriber() posted. *)
run_post(n, u) ==
    /\ posts[n][u] > 0
    /\ posts' = [posts EXCEPT ![n][u] = @ - 1]
    /\ OnError(n, {u}, ErrorNotice(n))
    /\ UNCHANGED <<state, data, subscribers, unauthorized, authorizers, initializers>>
=============================================================================
