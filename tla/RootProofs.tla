----------------------------- MODULE RootProofs -----------------------------
(***************************************************************************)
(* Proofs about module Root, for any sets of nodes, users and values and   *)
(* any bound.  IInv is the inductive invariant: the checked invariants     *)
(* and Lifecycle, the bookkeeping of the validator and of the calls of     *)
(* subscribe() that they need.  The last section is the refinement of      *)
(* Subscriptions.                                                          *)
(***************************************************************************)
EXTENDS Root, TLAPS

(* Only a listed node leaves its initial state; the call that created a    *)
(* node is the only one that carries its validator, and the node stays     *)
(* unvalidated until that validator is answered; a call that found a node  *)
(* in an error state adds its user to a node in an error state.            *)
Lifecycle ==
    \A n \in Nodes :
        /\ n \notin nodes => /\ validator[n] = "none"
                             /\ state[n] = "unvalidated"
        /\ validator[n] = "held" => state[n] = "unvalidated"
        /\ \A u \in Users :
             /\ call[n][u] \in {"add_validate", "validate"} =>
                  /\ n \in nodes
                  /\ validator[n] = "none"
                  /\ state[n] = "unvalidated"
                  /\ \A w \in Users \ {u} : call[n][w] \notin {"add_validate", "validate"}
             /\ call[n][u] = "add" /\ n \in auth_required => ~not_in_error_state(n)

(* The inductive invariant. *)
IInv ==
    /\ TypeOK
    /\ Lifecycle
    /\ OneInitialization
    /\ ErrorStatesEmpty
    /\ FreshSubscribers
    /\ AuthorizedOnly
    /\ WaitingIsPending
    /\ ValidationAssertions

-----------------------------------------------------------------------------
(* The two call back operators keep the types of told and seen. *)
LEMMA OnUpdateType ==
    ASSUME NEW n \in Nodes, NEW us, NEW v \in Values, OnUpdate(n, us, v),
           told \in [Nodes -> [Users -> Notices]], seen \in [Nodes -> [Users -> Values]]
    PROVE  told' \in [Nodes -> [Users -> Notices]] /\ seen' \in [Nodes -> [Users -> Values]]
BY DEF OnUpdate, Notices

(* Every action preserves the types; arithmetic on the counters stays in   *)
(* Nat because every decrement is guarded.                                 *)
LEMMA TypeStep == TypeOK /\ [Next]_vars => TypeOK'
<1> SUFFICES ASSUME TypeOK, [Next]_vars PROVE TypeOK'
    OBVIOUS
<1>a. state \in [Nodes -> States] /\ data \in [Nodes -> Values]
    BY DEF TypeOK
<1>b. subscribers \in [Nodes -> SUBSET Users] /\ unauthorized \in [Nodes -> SUBSET Users]
    BY DEF TypeOK
<1>c. authorizers \in [Nodes -> [Users -> Nat]]
    BY DEF TypeOK
<1>d. initializers \in [Nodes -> Nat]
    BY DEF TypeOK
<1>e. told \in [Nodes -> [Users -> Notices]] /\ seen \in [Nodes -> [Users -> Values]]
    BY DEF TypeOK
<1>f. call \in [Nodes -> [Users -> Calls]]
    BY DEF TypeOK
<1>g. posts \in [Nodes -> [Users -> Nat]]
    BY DEF TypeOK
<1>1. ASSUME NEW n \in Nodes, NEW u \in Users, find_or_create(n, u) PROVE TypeOK'
    BY <1>1 DEF find_or_create, TypeOK, Notices, Calls
<1>2. ASSUME NEW n \in Nodes, NEW u \in Users, add(n, u) PROVE TypeOK'
    <2>1. call' \in [Nodes -> [Users -> Calls]]
        BY <1>2, <1>f DEF add, Calls
    <2>2. told' \in [Nodes -> [Users -> Notices]] /\ seen' \in [Nodes -> [Users -> Values]]
        BY <1>2, <1>a, <1>e, OnUpdateType DEF add, add_subscriber
    <2>3. subscribers' \in [Nodes -> SUBSET Users] /\ unauthorized' \in [Nodes -> SUBSET Users]
        BY <1>2, <1>b DEF add, add_subscriber
    <2>4. posts' \in [Nodes -> [Users -> Nat]]
        BY <1>2, <1>g DEF add, add_subscriber
    <2>5. UNCHANGED <<state, data, authorizers, initializers, nodes, validator, refused, granted, auth_required>>
        BY <1>2 DEF add, add_subscriber
    <2>6. QED
        BY <2>1, <2>2, <2>3, <2>4, <2>5 DEF TypeOK
<1>3. ASSUME NEW n \in Nodes, NEW u \in Users, call_validate_node(n, u) PROVE TypeOK'
    BY <1>3 DEF call_validate_node, nodeVars, TypeOK, Calls
<1>4. ASSUME NEW n \in Nodes, NEW u \in Users, call_authorize(n, u) PROVE TypeOK'
    BY <1>4 DEF call_authorize, TypeOK, Calls
<1>5. ASSUME NEW n \in Nodes, NEW u \in Users, unsubscribe(n, u) PROVE TypeOK'
    BY <1>5 DEF unsubscribe, remove_subscriber, rootVars, TypeOK
<1>6. ASSUME NEW n \in Nodes, NEW u \in Users, is_authorized(n, u) PROVE TypeOK'
    <2>1. told' \in [Nodes -> [Users -> Notices]] /\ seen' \in [Nodes -> [Users -> Values]]
        BY <1>6, <1>a, <1>e, OnUpdateType DEF is_authorized, authorized_subscriber
    <2>2. state' \in [Nodes -> States]
        BY <1>6, <1>a
        DEF is_authorized, authorized_subscriber, post_initialization_request, States
    <2>3. initializers' \in [Nodes -> Nat]
        BY <1>6, <1>d DEF is_authorized, authorized_subscriber, post_initialization_request
    <2>4. authorizers' \in [Nodes -> [Users -> Nat]]
        BY <1>6, <1>c DEF is_authorized, authorized_subscriber
    <2>5. subscribers' \in [Nodes -> SUBSET Users] /\ unauthorized' \in [Nodes -> SUBSET Users]
        BY <1>6, <1>b DEF is_authorized, authorized_subscriber
    <2>6. UNCHANGED <<data, posts, nodes, call, validator, refused, auth_required>>
        BY <1>6 DEF is_authorized, authorized_subscriber
    <2>7. granted' \in [Nodes -> SUBSET Users]
        BY <1>6 DEF is_authorized, TypeOK
    <2>8. QED
        BY <2>1, <2>2, <2>3, <2>4, <2>5, <2>6, <2>7 DEF TypeOK
<1>7. ASSUME NEW n \in Nodes, NEW u \in Users, not_authorized(n, u) PROVE TypeOK'
    BY <1>7 DEF not_authorized, unauthorized_subscriber, TypeOK
<1>8. ASSUME NEW n \in Nodes, NEW u \in Users, tell_unauthorized(n, u) PROVE TypeOK'
    BY <1>8 DEF tell_unauthorized, OnError, TypeOK, Notices
<1>9. ASSUME NEW n \in Nodes, NEW u \in Users, run_queue(n, u) PROVE TypeOK'
    BY <1>9 DEF run_queue, run_post, OnError, ErrorNotice, rootVars, TypeOK, Notices
<1>10. ASSUME NEW n \in Nodes, NEW v \in Values, update_node(n, v) PROVE TypeOK'
    <2>1. told' \in [Nodes -> [Users -> Notices]] /\ seen' \in [Nodes -> [Users -> Values]]
        BY <1>10, <1>e, OnUpdateType DEF update_node, change_data
    <2>2. QED
        BY <1>10, <2>1 DEF update_node, change_data, TypeOK
<1>11. ASSUME NEW n \in Nodes, is_valid(n) PROVE TypeOK'
    <2>1. authorizers' \in [Nodes -> [Users -> Nat]]
        BY <1>11, <1>c DEF is_valid, validated
    <2>2. state' \in [Nodes -> States]
        BY <1>11, <1>a DEF is_valid, validated, post_initialization_request, States
    <2>3. initializers' \in [Nodes -> Nat]
        BY <1>11, <1>d DEF is_valid, validated, post_initialization_request
    <2>4. UNCHANGED <<data, subscribers, unauthorized, posts, told, seen, nodes, call, refused,
                      granted, auth_required>>
        BY <1>11 DEF is_valid, validated
    <2>5. validator' \in [Nodes -> {"none", "held", "done"}]
        BY <1>11 DEF is_valid, TypeOK
    <2>6. QED
        BY <2>1, <2>2, <2>3, <2>4, <2>5 DEF TypeOK
<1>12. ASSUME NEW n \in Nodes, not_valid(n) PROVE TypeOK'
    BY <1>12 DEF not_valid, not_validated, Fail, OnError, TypeOK, States, Notices
<1>13. ASSUME NEW n \in Nodes, NEW v \in Values, initial_value(n, v) PROVE TypeOK'
    BY <1>13 DEF initial_value, initial_data, OnUpdate, rootVars, TypeOK, States, Notices
<1>14. ASSUME NEW n \in Nodes, initialization_dropped(n) PROVE TypeOK'
    BY <1>14 DEF initialization_dropped, initial_data_failed, Fail, OnError, rootVars, TypeOK,
                 States, Notices
<1>15. ASSUME NEW u \in Users, unsubscribe_all(u) PROVE TypeOK'
    BY <1>15 DEF unsubscribe_all, remove_everywhere, rootVars, TypeOK
<1>16. CASE UNCHANGED vars
    BY <1>16 DEF vars, nodeVars, rootVars, TypeOK
<1>17. QED
    BY <1>1, <1>2, <1>3, <1>4, <1>5, <1>6, <1>7, <1>8, <1>9, <1>10, <1>11, <1>12,
       <1>13, <1>14, <1>15, <1>16
    DEF Next, SubscribeStep, ValidationAnswer, AuthorizationAnswer, InitializationAnswer
(* Every step preserves the inductive invariant. *)
LEMMA IInvStep == IInv /\ [Next]_vars => IInv'
<1> SUFFICES ASSUME IInv, [Next]_vars PROVE IInv'
    OBVIOUS
<1>t. TypeOK'
    BY TypeStep DEF IInv
<1>a. state \in [Nodes -> States] /\ data \in [Nodes -> Values]
    BY DEF IInv, TypeOK
<1>b. subscribers \in [Nodes -> SUBSET Users] /\ unauthorized \in [Nodes -> SUBSET Users]
    BY DEF IInv, TypeOK
<1>c. authorizers \in [Nodes -> [Users -> Nat]]
    BY DEF IInv, TypeOK
<1>d. initializers \in [Nodes -> Nat]
    BY DEF IInv, TypeOK
<1>e. told \in [Nodes -> [Users -> Notices]] /\ seen \in [Nodes -> [Users -> Values]]
    BY DEF IInv, TypeOK
<1>f. call \in [Nodes -> [Users -> Calls]]
    BY DEF IInv, TypeOK
<1>g. nodes \in SUBSET Nodes /\ validator \in [Nodes -> {"none", "held", "done"}]
    BY DEF IInv, TypeOK
<1>h. granted \in [Nodes -> SUBSET Users]
    BY DEF IInv, TypeOK
<1>i. auth_required \subseteq Nodes
    BY DEF IInv, TypeOK
<1>1. ASSUME NEW n \in Nodes, NEW u \in Users, find_or_create(n, u) PROVE IInv'
    <2>1. Lifecycle'
        BY <1>1, <1>a, <1>f, <1>g
        DEF IInv, Lifecycle, not_in_error_state, ErrorStates, find_or_create,
            authorization_required
    <2>2. OneInitialization'
        BY <1>1, <1>a, <1>d DEF IInv, OneInitialization, find_or_create, authorization_required
    <2>3. ErrorStatesEmpty'
        BY <1>1, <1>a, <1>b
        DEF IInv, ErrorStatesEmpty, not_in_error_state, ErrorStates, find_or_create,
            authorization_required
    <2>4. FreshSubscribers'
        BY <1>1, <1>a, <1>b, <1>e
        DEF IInv, FreshSubscribers, find_or_create, authorization_required
    <2>5. AuthorizedOnly'
        BY <1>1, <1>b, <1>e, <1>h
        DEF IInv, AuthorizedOnly, find_or_create, authorization_required
    <2>6. WaitingIsPending'
        BY <1>1, <1>a, <1>b, <1>c, <1>f
        DEF IInv, WaitingIsPending, find_or_create, authorization_required
    <2>7. ValidationAssertions'
        BY <1>1, <1>a, <1>b, <1>g
        DEF IInv, ValidationAssertions, find_or_create, authorization_required
    <2>8. QED
        BY <1>t, <2>1, <2>2, <2>3, <2>4, <2>5, <2>6, <2>7 DEF IInv
<1>2. ASSUME NEW n \in Nodes, NEW u \in Users, add(n, u) PROVE IInv'
    <2>1. Lifecycle'
        BY <1>2, <1>a, <1>f, <1>g
        DEF IInv, Lifecycle, not_in_error_state, ErrorStates, add, add_subscriber, OnUpdate
    <2>2. OneInitialization'
        BY <1>2, <1>a, <1>d DEF IInv, OneInitialization, add, add_subscriber, OnUpdate
    <2>3. ErrorStatesEmpty'
        BY <1>2, <1>a, <1>b
        DEF IInv, ErrorStatesEmpty, not_in_error_state, ErrorStates, add, add_subscriber,
            OnUpdate
    <2>4. FreshSubscribers'
        <3>1. \/ UNCHANGED <<subscribers, seen>>
              \/ /\ subscribers' = [subscribers EXCEPT ![n] = @ \cup {u}]
                 /\ \/ state[n] # "valid_and_initialized" /\ UNCHANGED seen
                    \/ seen' = [seen EXCEPT ![n] =
                                    [x \in Users |-> IF x \in {u} THEN data[n] ELSE @[x]]]
            BY <1>2 DEF add, add_subscriber, OnUpdate
        <3>2. UNCHANGED <<state, data>>
            BY <1>2 DEF add, add_subscriber
        <3>3. ASSUME NEW m \in Nodes, state[m] = "valid_and_initialized",
                     NEW x \in subscribers'[m]
              PROVE  seen'[m][x] = data[m]
            <4>1. x \in Users
                BY <1>b, <3>1
            <4>2. CASE m # n
                BY <1>b, <1>e, <3>1, <3>3, <4>2 DEF IInv, FreshSubscribers
            <4>3. CASE m = n
                BY <1>b, <1>e, <3>1, <3>3, <4>1, <4>3 DEF IInv, FreshSubscribers
            <4>4. QED
                BY <4>2, <4>3
        <3>4. QED
            BY <3>2, <3>3 DEF FreshSubscribers
    <2>5. AuthorizedOnly'
        <3>1. CASE n \in auth_required
            BY <1>2, <3>1 DEF IInv, AuthorizedOnly, add, add_subscriber
        <3>2. CASE n \notin auth_required
            <4>1. ASSUME NEW m \in Nodes \ {n}
                  PROVE  subscribers'[m] = subscribers[m] /\ told'[m] = told[m]
                BY <1>2, <1>b, <1>e DEF add, add_subscriber, OnUpdate
            <4>2. UNCHANGED <<granted, auth_required>>
                BY <1>2 DEF add
            <4>3. auth_required \subseteq Nodes \ {n}
                BY <3>2 DEF IInv, TypeOK
            <4>4. QED
                BY <4>1, <4>2, <4>3 DEF IInv, AuthorizedOnly
        <3>3. QED
            BY <3>1, <3>2
    <2>6. WaitingIsPending'
        BY <1>2, <1>a, <1>b, <1>c, <1>f
        DEF IInv, WaitingIsPending, Lifecycle, not_in_error_state, ErrorStates, add,
            add_subscriber, OnUpdate
    <2>7. ValidationAssertions'
        BY <1>2, <1>a, <1>b, <1>g DEF IInv, ValidationAssertions, add, add_subscriber, OnUpdate
    <2>8. QED
        BY <1>t, <2>1, <2>2, <2>3, <2>4, <2>5, <2>6, <2>7 DEF IInv
<1>3. ASSUME NEW n \in Nodes, NEW u \in Users, call_validate_node(n, u) PROVE IInv'
    <2>1. Lifecycle'
        BY <1>3, <1>a, <1>f, <1>g
        DEF IInv, Lifecycle, not_in_error_state, ErrorStates, call_validate_node, nodeVars
    <2>2. OneInitialization'
        BY <1>3, <1>a, <1>d DEF IInv, OneInitialization, call_validate_node, nodeVars
    <2>3. ErrorStatesEmpty'
        BY <1>3, <1>a, <1>b
        DEF IInv, ErrorStatesEmpty, not_in_error_state, ErrorStates, call_validate_node,
            nodeVars
    <2>4. FreshSubscribers'
        BY <1>3, <1>a, <1>b, <1>e DEF IInv, FreshSubscribers, call_validate_node, nodeVars
    <2>5. AuthorizedOnly'
        BY <1>3, <1>b, <1>e, <1>h DEF IInv, AuthorizedOnly, call_validate_node, nodeVars
    <2>6. WaitingIsPending'
        BY <1>3, <1>a, <1>b, <1>c, <1>f DEF IInv, WaitingIsPending, call_validate_node, nodeVars
    <2>7. ValidationAssertions'
        BY <1>3, <1>a, <1>b, <1>f, <1>g
        DEF IInv, ValidationAssertions, Lifecycle, call_validate_node, nodeVars
    <2>8. QED
        BY <1>t, <2>1, <2>2, <2>3, <2>4, <2>5, <2>6, <2>7 DEF IInv
<1>4. ASSUME NEW n \in Nodes, NEW u \in Users, call_authorize(n, u) PROVE IInv'
    <2>1. Lifecycle'
        BY <1>4, <1>a, <1>f, <1>g
        DEF IInv, Lifecycle, not_in_error_state, ErrorStates, call_authorize
    <2>2. OneInitialization'
        BY <1>4, <1>a, <1>d DEF IInv, OneInitialization, call_authorize
    <2>3. ErrorStatesEmpty'
        BY <1>4, <1>a, <1>b
        DEF IInv, ErrorStatesEmpty, not_in_error_state, ErrorStates, call_authorize
    <2>4. FreshSubscribers'
        BY <1>4, <1>a, <1>b, <1>e DEF IInv, FreshSubscribers, call_authorize
    <2>5. AuthorizedOnly'
        BY <1>4, <1>b, <1>e, <1>h DEF IInv, AuthorizedOnly, call_authorize
    <2>6. WaitingIsPending'
        BY <1>4, <1>a, <1>b, <1>c, <1>f DEF IInv, WaitingIsPending, call_authorize
    <2>7. ValidationAssertions'
        BY <1>4, <1>a, <1>b, <1>g DEF IInv, ValidationAssertions, call_authorize
    <2>8. QED
        BY <1>t, <2>1, <2>2, <2>3, <2>4, <2>5, <2>6, <2>7 DEF IInv
<1>5. ASSUME NEW n \in Nodes, NEW u \in Users, unsubscribe(n, u) PROVE IInv'
    <2>1. Lifecycle'
        BY <1>5, <1>a, <1>f, <1>g
        DEF IInv, Lifecycle, not_in_error_state, ErrorStates, unsubscribe, remove_subscriber,
            rootVars
    <2>2. OneInitialization'
        BY <1>5, <1>a, <1>d
        DEF IInv, OneInitialization, unsubscribe, remove_subscriber, rootVars
    <2>3. ErrorStatesEmpty'
        BY <1>5, <1>a, <1>b
        DEF IInv, ErrorStatesEmpty, not_in_error_state, ErrorStates, unsubscribe,
            remove_subscriber, rootVars
    <2>4. FreshSubscribers'
        BY <1>5, <1>a, <1>b, <1>e
        DEF IInv, FreshSubscribers, unsubscribe, remove_subscriber, rootVars
    <2>5. AuthorizedOnly'
        BY <1>5, <1>b, <1>e, <1>h
        DEF IInv, AuthorizedOnly, unsubscribe, remove_subscriber, rootVars
    <2>6. WaitingIsPending'
        BY <1>5, <1>a, <1>b, <1>c, <1>f
        DEF IInv, WaitingIsPending, unsubscribe, remove_subscriber, rootVars
    <2>7. ValidationAssertions'
        BY <1>5, <1>a, <1>b, <1>g
        DEF IInv, ValidationAssertions, unsubscribe, remove_subscriber, rootVars
    <2>8. QED
        BY <1>t, <2>1, <2>2, <2>3, <2>4, <2>5, <2>6, <2>7 DEF IInv
<1>6. ASSUME NEW n \in Nodes, NEW u \in Users, is_authorized(n, u) PROVE IInv'
    <2>1. Lifecycle'
        BY <1>6, <1>a, <1>f, <1>g
        DEF IInv, Lifecycle, not_in_error_state, ErrorStates, is_authorized,
            authorized_subscriber, needs_initialization, post_initialization_request, OnUpdate
    <2>2. OneInitialization'
        BY <1>6, <1>a, <1>d
        DEF IInv, OneInitialization, is_authorized, authorized_subscriber,
            needs_initialization, post_initialization_request, OnUpdate
    <2>3. ErrorStatesEmpty'
        BY <1>6, <1>a, <1>b
        DEF IInv, ErrorStatesEmpty, not_in_error_state, ErrorStates, is_authorized,
            authorized_subscriber, needs_initialization, post_initialization_request, OnUpdate
    <2>4. FreshSubscribers'
        <3> SUFFICES ASSUME NEW m \in Nodes, state'[m] = "valid_and_initialized",
                            NEW w \in subscribers'[m]
                     PROVE  seen'[m][w] = data'[m]
            BY DEF FreshSubscribers
        <3>1. state[m] = "valid_and_initialized" /\ data' = data
            BY <1>6, <1>a DEF is_authorized, authorized_subscriber, post_initialization_request
        <3>2. w \in Users
            BY <1>6, <1>b DEF is_authorized, authorized_subscriber
        <3>3. CASE w \in subscribers[m] /\ ~(m = n /\ w = u)
            <4>1. seen'[m][w] = seen[m][w]
                BY <1>6, <1>e, <3>2, <3>3 DEF is_authorized, authorized_subscriber, OnUpdate
            <4>2. QED
                BY <3>1, <3>3, <4>1 DEF IInv, FreshSubscribers
        <3>4. CASE m = n /\ w = u
            <4>1. CASE u \in unauthorized[n]
                BY <1>6, <1>e, <3>1, <3>2, <3>4, <4>1
                DEF is_authorized, authorized_subscriber, OnUpdate
            <4>2. CASE u \notin unauthorized[n]
                BY <1>6, <3>1, <3>4, <4>2
                DEF is_authorized, authorized_subscriber, IInv, FreshSubscribers
            <4>3. QED
                BY <4>1, <4>2
        <3>5. w \in subscribers[m] \/ (m = n /\ w = u)
            BY <1>6, <1>b DEF is_authorized, authorized_subscriber
        <3>6. QED
            BY <3>3, <3>4, <3>5
    <2>5. AuthorizedOnly'
        BY <1>6, <1>b, <1>e, <1>h, <1>i
        DEF IInv, AuthorizedOnly, is_authorized, authorized_subscriber, OnUpdate
    <2>6. WaitingIsPending'
        BY <1>6, <1>a, <1>b, <1>c, <1>f
        DEF IInv, WaitingIsPending, is_authorized, authorized_subscriber,
            needs_initialization, post_initialization_request, OnUpdate
    <2>7. ValidationAssertions'
        BY <1>6, <1>a, <1>b, <1>g
        DEF IInv, ValidationAssertions, is_authorized, authorized_subscriber,
            needs_initialization, post_initialization_request, OnUpdate
    <2>8. QED
        BY <1>t, <2>1, <2>2, <2>3, <2>4, <2>5, <2>6, <2>7 DEF IInv
<1>7. ASSUME NEW n \in Nodes, NEW u \in Users, not_authorized(n, u) PROVE IInv'
    <2>1. Lifecycle'
        BY <1>7, <1>a, <1>f, <1>g
        DEF IInv, Lifecycle, not_in_error_state, ErrorStates, not_authorized,
            unauthorized_subscriber
    <2>2. OneInitialization'
        BY <1>7, <1>a, <1>d DEF IInv, OneInitialization, not_authorized, unauthorized_subscriber
    <2>3. ErrorStatesEmpty'
        BY <1>7, <1>a, <1>b
        DEF IInv, ErrorStatesEmpty, not_in_error_state, ErrorStates, not_authorized,
            unauthorized_subscriber
    <2>4. FreshSubscribers'
        BY <1>7, <1>a, <1>b, <1>e
        DEF IInv, FreshSubscribers, not_authorized, unauthorized_subscriber
    <2>5. AuthorizedOnly'
        BY <1>7, <1>b, <1>e, <1>h
        DEF IInv, AuthorizedOnly, not_authorized, unauthorized_subscriber
    <2>6. WaitingIsPending'
        BY <1>7, <1>a, <1>b, <1>c, <1>f
        DEF IInv, WaitingIsPending, not_authorized, unauthorized_subscriber
    <2>7. ValidationAssertions'
        BY <1>7, <1>a, <1>b, <1>g
        DEF IInv, ValidationAssertions, not_authorized, unauthorized_subscriber
    <2>8. QED
        BY <1>t, <2>1, <2>2, <2>3, <2>4, <2>5, <2>6, <2>7 DEF IInv
<1>8. ASSUME NEW n \in Nodes, NEW u \in Users, tell_unauthorized(n, u) PROVE IInv'
    <2>1. Lifecycle'
        BY <1>8, <1>a, <1>f, <1>g
        DEF IInv, Lifecycle, not_in_error_state, ErrorStates, tell_unauthorized, OnError
    <2>2. OneInitialization'
        BY <1>8, <1>a, <1>d DEF IInv, OneInitialization, tell_unauthorized, OnError
    <2>3. ErrorStatesEmpty'
        BY <1>8, <1>a, <1>b
        DEF IInv, ErrorStatesEmpty, not_in_error_state, ErrorStates, tell_unauthorized,
            OnError
    <2>4. FreshSubscribers'
        BY <1>8, <1>a, <1>b, <1>e DEF IInv, FreshSubscribers, tell_unauthorized, OnError
    <2>5. AuthorizedOnly'
        BY <1>8, <1>b, <1>e, <1>h DEF IInv, AuthorizedOnly, tell_unauthorized, OnError
    <2>6. WaitingIsPending'
        BY <1>8, <1>a, <1>b, <1>c, <1>f DEF IInv, WaitingIsPending, tell_unauthorized, OnError
    <2>7. ValidationAssertions'
        BY <1>8, <1>a, <1>b, <1>g DEF IInv, ValidationAssertions, tell_unauthorized, OnError
    <2>8. QED
        BY <1>t, <2>1, <2>2, <2>3, <2>4, <2>5, <2>6, <2>7 DEF IInv
<1>9. ASSUME NEW n \in Nodes, NEW u \in Users, run_queue(n, u) PROVE IInv'
    <2>1. Lifecycle'
        BY <1>9, <1>a, <1>f, <1>g
        DEF IInv, Lifecycle, not_in_error_state, ErrorStates, run_queue, run_post, OnError,
            ErrorNotice, rootVars
    <2>2. OneInitialization'
        BY <1>9, <1>a, <1>d
        DEF IInv, OneInitialization, run_queue, run_post, OnError, ErrorNotice, rootVars
    <2>3. ErrorStatesEmpty'
        BY <1>9, <1>a, <1>b
        DEF IInv, ErrorStatesEmpty, not_in_error_state, ErrorStates, run_queue, run_post,
            OnError, ErrorNotice, rootVars
    <2>4. FreshSubscribers'
        BY <1>9, <1>a, <1>b, <1>e
        DEF IInv, FreshSubscribers, run_queue, run_post, OnError, ErrorNotice, rootVars
    <2>5. AuthorizedOnly'
        BY <1>9, <1>b, <1>e, <1>h
        DEF IInv, AuthorizedOnly, run_queue, run_post, OnError, ErrorNotice, rootVars
    <2>6. WaitingIsPending'
        BY <1>9, <1>a, <1>b, <1>c, <1>f
        DEF IInv, WaitingIsPending, run_queue, run_post, OnError, ErrorNotice, rootVars
    <2>7. ValidationAssertions'
        BY <1>9, <1>a, <1>b, <1>g
        DEF IInv, ValidationAssertions, run_queue, run_post, OnError, ErrorNotice, rootVars
    <2>8. QED
        BY <1>t, <2>1, <2>2, <2>3, <2>4, <2>5, <2>6, <2>7 DEF IInv
<1>10. ASSUME NEW n \in Nodes, NEW v \in Values, update_node(n, v) PROVE IInv'
    <2>1. Lifecycle'
        BY <1>10, <1>a, <1>f, <1>g
        DEF IInv, Lifecycle, not_in_error_state, ErrorStates, update_node, change_data,
            OnUpdate
    <2>2. OneInitialization'
        BY <1>10, <1>a, <1>d DEF IInv, OneInitialization, update_node, change_data, OnUpdate
    <2>3. ErrorStatesEmpty'
        BY <1>10, <1>a, <1>b
        DEF IInv, ErrorStatesEmpty, not_in_error_state, ErrorStates, update_node, change_data,
            OnUpdate
    <2>4. FreshSubscribers'
        BY <1>10, <1>a, <1>b, <1>e
        DEF IInv, FreshSubscribers, update_node, change_data, OnUpdate
    <2>5. AuthorizedOnly'
        <3>1. UNCHANGED <<subscribers, granted, auth_required>>
            BY <1>10 DEF update_node, change_data
        <3> SUFFICES ASSUME NEW m \in auth_required, NEW w \in Users,
                            w \in subscribers'[m] \/ told'[m][w] = "update"
                     PROVE  w \in granted'[m]
            BY <3>1 DEF AuthorizedOnly
        <3>2. told'[m][w] = told[m][w] \/ w \in subscribers[m]
            BY <1>10, <1>e, <1>i DEF update_node, change_data, OnUpdate
        <3>3. QED
            BY <3>1, <3>2 DEF IInv, AuthorizedOnly
    <2>6. WaitingIsPending'
        BY <1>10, <1>a, <1>b, <1>c, <1>f
        DEF IInv, WaitingIsPending, update_node, change_data, OnUpdate
    <2>7. ValidationAssertions'
        BY <1>10, <1>a, <1>b, <1>g
        DEF IInv, ValidationAssertions, update_node, change_data, OnUpdate
    <2>8. QED
        BY <1>t, <2>1, <2>2, <2>3, <2>4, <2>5, <2>6, <2>7 DEF IInv
<1>11. ASSUME NEW n \in Nodes, is_valid(n) PROVE IInv'
    <2>1. Lifecycle'
        BY <1>11, <1>a, <1>f, <1>g
        DEF IInv, Lifecycle, not_in_error_state, ErrorStates, is_valid, validated,
            post_initialization_request
    <2>2. OneInitialization'
        BY <1>11, <1>a, <1>d, <1>g
        DEF IInv, OneInitialization, Lifecycle, is_valid, validated, post_initialization_request
    <2>3. ErrorStatesEmpty'
        BY <1>11, <1>a, <1>b
        DEF IInv, ErrorStatesEmpty, not_in_error_state, ErrorStates, is_valid, validated,
            post_initialization_request
    <2>4. FreshSubscribers'
        BY <1>11, <1>a, <1>b, <1>e
        DEF IInv, FreshSubscribers, is_valid, validated, post_initialization_request
    <2>5. AuthorizedOnly'
        BY <1>11, <1>b, <1>e, <1>h
        DEF IInv, AuthorizedOnly, is_valid, validated, post_initialization_request
    <2>6. WaitingIsPending'
        <3> SUFFICES ASSUME NEW m \in Nodes, NEW w \in Users, w \in unauthorized'[m]
                     PROVE  \/ state'[m] = "unvalidated"
                            \/ authorizers'[m][w] > 0
                            \/ call'[m][w] = "authorize"
            BY DEF WaitingIsPending
        <3>1. w \in unauthorized[m] /\ call' = call
            BY <1>11 DEF is_valid, validated
        <3>2. CASE m # n
            <4>1. state'[m] = state[m] /\ authorizers'[m] = authorizers[m]
                BY <1>11, <1>a, <1>c, <3>2 DEF is_valid, validated, post_initialization_request
            <4>2. QED
                BY <3>1, <4>1 DEF IInv, WaitingIsPending
        <3>3. CASE m = n
            <4>1. n \in auth_required
                BY <3>1, <3>3 DEF IInv, ValidationAssertions
            <4>2. authorizers'[n][w] = authorizers[n][w] + 1
                BY <1>11, <1>c, <3>1, <3>3, <4>1 DEF is_valid, validated
            <4>3. QED
                BY <1>c, <3>3, <4>2
        <3>4. QED
            BY <3>2, <3>3
    <2>7. ValidationAssertions'
        BY <1>11, <1>a, <1>b, <1>g
        DEF IInv, ValidationAssertions, is_valid, validated, post_initialization_request
    <2>8. QED
        BY <1>t, <2>1, <2>2, <2>3, <2>4, <2>5, <2>6, <2>7 DEF IInv
<1>12. ASSUME NEW n \in Nodes, not_valid(n) PROVE IInv'
    <2>1. Lifecycle'
        BY <1>12, <1>a, <1>f, <1>g
        DEF IInv, Lifecycle, not_in_error_state, ErrorStates, not_valid, not_validated, Fail,
            OnError
    <2>2. OneInitialization'
        BY <1>12, <1>a, <1>d, <1>g
        DEF IInv, OneInitialization, Lifecycle, not_valid, not_validated, Fail, OnError
    <2>3. ErrorStatesEmpty'
        BY <1>12, <1>a, <1>b
        DEF IInv, ErrorStatesEmpty, not_in_error_state, ErrorStates, not_valid, not_validated,
            Fail, OnError
    <2>4. FreshSubscribers'
        BY <1>12, <1>a, <1>b, <1>e
        DEF IInv, FreshSubscribers, not_valid, not_validated, Fail, OnError
    <2>5. AuthorizedOnly'
        BY <1>12, <1>b, <1>e, <1>h
        DEF IInv, AuthorizedOnly, not_valid, not_validated, Fail, OnError
    <2>6. WaitingIsPending'
        BY <1>12, <1>a, <1>b, <1>c, <1>f
        DEF IInv, WaitingIsPending, not_valid, not_validated, Fail, OnError
    <2>7. ValidationAssertions'
        BY <1>12, <1>a, <1>b, <1>g
        DEF IInv, ValidationAssertions, not_valid, not_validated, Fail, OnError
    <2>8. QED
        BY <1>t, <2>1, <2>2, <2>3, <2>4, <2>5, <2>6, <2>7 DEF IInv
<1>13. ASSUME NEW n \in Nodes, NEW v \in Values, initial_value(n, v) PROVE IInv'
    <2>a. UNCHANGED <<nodes, call, validator, auth_required>>
        BY <1>13 DEF initial_value, rootVars
    <2>b. initializers[n] > 0 /\ state' = [state EXCEPT ![n] = "valid_and_initialized"]
        BY <1>13 DEF initial_value, initial_data
    <2>1. Lifecycle'
        BY <2>a, <2>b, <1>a, <1>d, <1>f, <1>g
        DEF IInv, Lifecycle, not_in_error_state, ErrorStates, OneInitialization
    <2>2. OneInitialization'
        BY <1>13, <1>a, <1>d
        DEF IInv, OneInitialization, initial_value, initial_data, OnUpdate, rootVars
    <2>3. ErrorStatesEmpty'
        BY <1>13, <1>a, <1>b
        DEF IInv, ErrorStatesEmpty, not_in_error_state, ErrorStates, initial_value,
            initial_data, OnUpdate, rootVars
    <2>4. FreshSubscribers'
        BY <1>13, <1>a, <1>b, <1>e
        DEF IInv, FreshSubscribers, initial_value, initial_data, OnUpdate, rootVars
    <2>5. AuthorizedOnly'
        BY <1>13, <1>b, <1>e, <1>h
        DEF IInv, AuthorizedOnly, initial_value, initial_data, OnUpdate, rootVars
    <2>6. WaitingIsPending'
        <3>1. state[n] = "initializing"
            BY <1>13, <1>d DEF IInv, OneInitialization, initial_value
        <3>2. UNCHANGED <<unauthorized, authorizers, call>>
            BY <1>13 DEF initial_value, initial_data, rootVars
        <3>3. \A m \in Nodes : state[m] = "unvalidated" => state'[m] = "unvalidated"
            BY <1>13, <1>a, <3>1 DEF initial_value, initial_data
        <3>4. QED
            BY <3>2, <3>3 DEF IInv, WaitingIsPending
    <2>7. ValidationAssertions'
        BY <1>13, <1>a, <1>b, <1>d, <1>g
        DEF IInv, ValidationAssertions, OneInitialization, initial_value, initial_data,
            OnUpdate, rootVars
    <2>8. QED
        BY <1>t, <2>1, <2>2, <2>3, <2>4, <2>5, <2>6, <2>7 DEF IInv
<1>14. ASSUME NEW n \in Nodes, initialization_dropped(n) PROVE IInv'
    <2>1. Lifecycle'
        BY <1>14, <1>a, <1>d, <1>f, <1>g
        DEF IInv, Lifecycle, not_in_error_state, ErrorStates, OneInitialization,
            initialization_dropped, initial_data_failed, Fail, OnError, rootVars
    <2>2. OneInitialization'
        BY <1>14, <1>a, <1>d
        DEF IInv, OneInitialization, initialization_dropped, initial_data_failed, Fail,
            OnError, rootVars
    <2>3. ErrorStatesEmpty'
        BY <1>14, <1>a, <1>b
        DEF IInv, ErrorStatesEmpty, not_in_error_state, ErrorStates, initialization_dropped,
            initial_data_failed, Fail, OnError, rootVars
    <2>4. FreshSubscribers'
        BY <1>14, <1>a, <1>b, <1>e
        DEF IInv, FreshSubscribers, initialization_dropped, initial_data_failed, Fail,
            OnError, rootVars
    <2>5. AuthorizedOnly'
        BY <1>14, <1>b, <1>e, <1>h
        DEF IInv, AuthorizedOnly, initialization_dropped, initial_data_failed, Fail, OnError,
            rootVars
    <2>6. WaitingIsPending'
        BY <1>14, <1>a, <1>b, <1>c, <1>f
        DEF IInv, WaitingIsPending, initialization_dropped, initial_data_failed, Fail,
            OnError, rootVars
    <2>7. ValidationAssertions'
        BY <1>14, <1>a, <1>b, <1>d, <1>g
        DEF IInv, ValidationAssertions, OneInitialization, initialization_dropped,
            initial_data_failed, Fail, OnError, rootVars
    <2>8. QED
        BY <1>t, <2>1, <2>2, <2>3, <2>4, <2>5, <2>6, <2>7 DEF IInv
<1>15. ASSUME NEW u \in Users, unsubscribe_all(u) PROVE IInv'
    <2>1. Lifecycle'
        BY <1>15, <1>a, <1>f, <1>g
        DEF IInv, Lifecycle, not_in_error_state, ErrorStates, unsubscribe_all,
            remove_everywhere, rootVars
    <2>2. OneInitialization'
        BY <1>15, <1>a, <1>d
        DEF IInv, OneInitialization, unsubscribe_all, remove_everywhere, rootVars
    <2>3. ErrorStatesEmpty'
        BY <1>15, <1>a, <1>b
        DEF IInv, ErrorStatesEmpty, not_in_error_state, ErrorStates, unsubscribe_all,
            remove_everywhere, rootVars
    <2>4. FreshSubscribers'
        BY <1>15, <1>a, <1>b, <1>e
        DEF IInv, FreshSubscribers, unsubscribe_all, remove_everywhere, rootVars
    <2>5. AuthorizedOnly'
        BY <1>15, <1>b, <1>e, <1>h, <1>i
        DEF IInv, AuthorizedOnly, unsubscribe_all, remove_everywhere, rootVars
    <2>6. WaitingIsPending'
        BY <1>15, <1>a, <1>b, <1>c, <1>f
        DEF IInv, WaitingIsPending, unsubscribe_all, remove_everywhere, rootVars
    <2>7. ValidationAssertions'
        BY <1>15, <1>a, <1>b, <1>g
        DEF IInv, ValidationAssertions, unsubscribe_all, remove_everywhere, rootVars
    <2>8. QED
        BY <1>t, <2>1, <2>2, <2>3, <2>4, <2>5, <2>6, <2>7 DEF IInv
<1>16. CASE UNCHANGED vars
    BY <1>16, <1>t DEF vars, nodeVars, rootVars, IInv, Lifecycle, OneInitialization,
        ErrorStatesEmpty, FreshSubscribers, AuthorizedOnly, WaitingIsPending,
        ValidationAssertions, not_in_error_state
<1>17. QED
    BY <1>1, <1>2, <1>3, <1>4, <1>5, <1>6, <1>7, <1>8, <1>9, <1>10, <1>11, <1>12,
       <1>13, <1>14, <1>15, <1>16
    DEF Next, SubscribeStep, ValidationAnswer, AuthorizationAnswer, InitializationAnswer

(* The initial state satisfies the inductive invariant. *)
LEMMA IInvInit == RootInit => IInv
<1> SUFFICES ASSUME RootInit PROVE IInv
    OBVIOUS
<1> USE DEF RootInit, NodeInit
<1>1. TypeOK
    BY NullAssumption DEF TypeOK, States, Notices, Calls
<1>2. Lifecycle /\ OneInitialization /\ ErrorStatesEmpty /\ FreshSubscribers
    BY DEF Lifecycle, OneInitialization, ErrorStatesEmpty, FreshSubscribers,
           not_in_error_state, ErrorStates
<1>3. AuthorizedOnly /\ WaitingIsPending /\ ValidationAssertions
    BY DEF AuthorizedOnly, WaitingIsPending, ValidationAssertions
<1>4. QED
    BY <1>1, <1>2, <1>3 DEF IInv

(* The inductive invariant holds in every reachable state. *)
THEOREM Invariance == Spec => []IInv
<1>1. RootInit => IInv
    BY IInvInit
<1>2. IInv /\ [Next]_vars => IInv'
    BY IInvStep
<1>3. QED
    BY <1>1, <1>2, PTL DEF Spec

(* Type correctness of root and subscribed_node. *)
THEOREM TypeCorrect == Spec => []TypeOK
<1>1. IInv => TypeOK
    BY DEF IInv
<1>2. QED
    BY <1>1, Invariance, PTL

(* However many users and threads there are, a node has one open           *)
(* initialization exactly while it is initializing.                        *)
THEOREM InitializedOnce == Spec => []OneInitialization
<1>1. IInv => OneInitialization
    BY DEF IInv
<1>2. QED
    BY <1>1, Invariance, PTL

(* No user is left on the lists of a node that failed. *)
THEOREM FailedNodesEmpty == Spec => []ErrorStatesEmpty
<1>1. IInv => ErrorStatesEmpty
    BY DEF IInv
<1>2. QED
    BY <1>1, Invariance, PTL

(* Subscribers of an initialized node have seen its current data. *)
THEOREM SubscribersFresh == Spec => []FreshSubscribers
<1>1. IInv => FreshSubscribers
    BY DEF IInv
<1>2. QED
    BY <1>1, Invariance, PTL

(* Data of a node that requires authorization reaches authorized users     *)
(* only.                                                                   *)
THEOREM NoDataUnauthorized == Spec => []AuthorizedOnly
<1>1. IInv => AuthorizedOnly
    BY DEF IInv
<1>2. QED
    BY <1>1, Invariance, PTL

(* A user that waits for authorization always has an answer coming. *)
THEOREM NobodyForgotten == Spec => []WaitingIsPending
<1>1. IInv => WaitingIsPending
    BY DEF IInv
<1>2. QED
    BY <1>1, Invariance, PTL

(* The assertions about the validator never fail. *)
THEOREM ValidatorAsserted == Spec => []ValidationAssertions
<1>1. IInv => ValidationAssertions
    BY DEF IInv
<1>2. QED
    BY <1>1, Invariance, PTL

(* A step moves the state of a node forward only: from the inductive       *)
(* invariant, an open validator means unvalidated and an open initializer  *)
(* means initializing.                                                     *)
LEMMA ForwardStep ==
    ASSUME IInv, [Next]_vars, NEW m \in Nodes, state'[m] # state[m]
    PROVE  state'[m] \in Forward(state[m])
<1>a. state \in [Nodes -> States]
    BY DEF IInv, TypeOK
<1>d. initializers \in [Nodes -> Nat]
    BY DEF IInv, TypeOK
<1>1. ASSUME NEW n \in Nodes, NEW u \in Users, is_authorized(n, u)
      PROVE  state'[m] \in Forward(state[m])
    BY <1>1, <1>a DEF is_authorized, authorized_subscriber, needs_initialization,
       post_initialization_request, Forward
<1>2. ASSUME NEW n \in Nodes, is_valid(n) PROVE state'[m] \in Forward(state[m])
    BY <1>2, <1>a DEF is_valid, validated, post_initialization_request, Forward, IInv, Lifecycle
<1>3. ASSUME NEW n \in Nodes, not_valid(n) PROVE state'[m] \in Forward(state[m])
    BY <1>3, <1>a DEF not_valid, not_validated, Fail, Forward, IInv, Lifecycle
<1>4. ASSUME NEW n \in Nodes, NEW v \in Values, initial_value(n, v)
      PROVE  state'[m] \in Forward(state[m])
    BY <1>4, <1>a, <1>d DEF initial_value, initial_data, Forward, IInv, OneInitialization
<1>5. ASSUME NEW n \in Nodes, initialization_dropped(n) PROVE state'[m] \in Forward(state[m])
    BY <1>5, <1>a, <1>d
    DEF initialization_dropped, initial_data_failed, Fail, Forward, IInv, OneInitialization
<1>6. CASE \E n \in Nodes, u \in Users :
             \/ find_or_create(n, u) \/ SubscribeStep(n, u) \/ unsubscribe(n, u)
             \/ not_authorized(n, u) \/ tell_unauthorized(n, u) \/ run_queue(n, u)
    BY <1>6 DEF find_or_create, SubscribeStep, add, add_subscriber, call_validate_node, nodeVars,
       call_authorize, unsubscribe, remove_subscriber, not_authorized, unauthorized_subscriber,
       tell_unauthorized, run_queue, run_post
<1>7. CASE \E n \in Nodes, v \in Values : update_node(n, v)
    BY <1>7 DEF update_node, change_data
<1>8. CASE \E u \in Users : unsubscribe_all(u)
    BY <1>8 DEF unsubscribe_all, remove_everywhere
<1>9. CASE UNCHANGED vars
    BY <1>9 DEF vars, nodeVars
<1>10. QED
    BY <1>1, <1>2, <1>3, <1>4, <1>5, <1>6, <1>7, <1>8, <1>9
    DEF Next, ValidationAnswer, AuthorizationAnswer, InitializationAnswer

(* The life of a node goes forward only and ends in a final state. *)
THEOREM NodeLife == Spec => StateOrder
<1>1. IInv /\ [Next]_vars =>
        [\A n \in Nodes : state'[n] # state[n] => state'[n] \in Forward(state[n])]_vars
    BY ForwardStep
<1>2. QED
    BY <1>1, Invariance, PTL DEF Spec, StateOrder

-----------------------------------------------------------------------------
(* Root implements Subscriptions, for any nodes, users and values: every   *)
(* step of Root is a step of the abstract module or leaves its variables   *)
(* unchanged.                                                              *)


(* Nobody has data of a node that is not initialized. *)
NoDataYet ==
    \A n \in Nodes, u \in Users : told[n][u] = "update" => state[n] = "valid_and_initialized"

(* A first update comes from a node that is, or becomes, initialized. *)
LEMMA FirstUpdate ==
    ASSUME IInv, Next, NEW m \in Nodes, NEW w \in Users,
           told'[m][w] = "update", told[m][w] # "update"
    PROVE  state'[m] = "valid_and_initialized"
<1>a. state \in [Nodes -> States] /\ told \in [Nodes -> [Users -> Notices]]
    BY DEF IInv, TypeOK
<1>1. ASSUME NEW n \in Nodes, NEW u \in Users, find_or_create(n, u) PROVE FALSE
    BY <1>1, <1>a DEF find_or_create
<1>2. ASSUME NEW n \in Nodes, NEW u \in Users, add(n, u)
      PROVE  state'[m] = "valid_and_initialized"
    BY <1>2, <1>a DEF add, add_subscriber, OnUpdate
<1>3. ASSUME NEW n \in Nodes, NEW u \in Users,
             call_validate_node(n, u) \/ call_authorize(n, u) \/ unsubscribe(n, u)
             \/ not_authorized(n, u)
      PROVE  FALSE
    BY <1>3 DEF call_validate_node, call_authorize, unsubscribe, remove_subscriber,
                not_authorized, unauthorized_subscriber, nodeVars
<1>4. ASSUME NEW n \in Nodes, NEW u \in Users, is_authorized(n, u)
      PROVE  state'[m] = "valid_and_initialized"
    <2>1. state[n] = "valid_and_initialized" /\ m = n
        BY <1>4, <1>a DEF is_authorized, authorized_subscriber, OnUpdate
    <2>2. state' = state
        BY <1>4, <2>1 DEF is_authorized, authorized_subscriber, needs_initialization
    <2>3. QED
        BY <2>1, <2>2
<1>5. ASSUME NEW n \in Nodes, NEW u \in Users, tell_unauthorized(n, u) PROVE FALSE
    BY <1>5, <1>a DEF tell_unauthorized, OnError
<1>6. ASSUME NEW n \in Nodes, NEW u \in Users, run_queue(n, u) PROVE FALSE
    BY <1>6, <1>a DEF run_queue, run_post, OnError, ErrorNotice
<1>7. ASSUME NEW n \in Nodes, NEW v \in Values, update_node(n, v)
      PROVE  state'[m] = "valid_and_initialized"
    BY <1>7, <1>a DEF update_node, change_data, OnUpdate
<1>8. ASSUME NEW n \in Nodes, is_valid(n) PROVE FALSE
    BY <1>8 DEF is_valid, validated
<1>9. ASSUME NEW n \in Nodes, not_valid(n) PROVE FALSE
    BY <1>9, <1>a DEF not_valid, not_validated, Fail, OnError
<1>10. ASSUME NEW n \in Nodes, NEW v \in Values, initial_value(n, v)
       PROVE  state'[m] = "valid_and_initialized"
    BY <1>10, <1>a DEF initial_value, initial_data, OnUpdate
<1>11. ASSUME NEW n \in Nodes, initialization_dropped(n) PROVE FALSE
    BY <1>11, <1>a DEF initialization_dropped, initial_data_failed, Fail, OnError
<1>12. ASSUME NEW u \in Users, unsubscribe_all(u) PROVE FALSE
    BY <1>12 DEF unsubscribe_all, remove_everywhere
<1>13. QED
    BY <1>1, <1>2, <1>3, <1>4, <1>5, <1>6, <1>7, <1>8, <1>9, <1>10, <1>11, <1>12
    DEF Next, SubscribeStep, ValidationAnswer, AuthorizationAnswer, InitializationAnswer

(* NoDataYet is kept: an initialized node stays initialized. *)
LEMMA NoDataStep == IInv /\ NoDataYet /\ [Next]_vars => NoDataYet'
<1> SUFFICES ASSUME IInv, NoDataYet, [Next]_vars, NEW m \in Nodes, NEW w \in Users,
                    told'[m][w] = "update"
             PROVE  state'[m] = "valid_and_initialized"
    BY DEF NoDataYet
<1>1. CASE UNCHANGED vars
    BY <1>1 DEF vars, nodeVars, NoDataYet
<1>2. CASE Next /\ told[m][w] # "update"
    BY <1>2, FirstUpdate
<1>3. CASE told[m][w] = "update"
    <2>1. state[m] = "valid_and_initialized"
        BY <1>3 DEF NoDataYet
    <2>2. Forward(state[m]) = {}
        BY <2>1 DEF Forward
    <2>3. QED
        BY <2>1, <2>2, ForwardStep
<1>4. QED
    BY <1>1, <1>2, <1>3

-----------------------------------------------------------------------------
(* Root's initial state is one of the abstract module. *)
LEMMA PromiseInit == RootInit => Promise!SubInit
BY DEF RootInit, NodeInit, Promise!SubInit

Owed == [n \in Nodes |-> [u \in Users |-> posts[n][u] + refused[n][u]]]

(* Every step of Root is a step of the abstract module. *)
LEMMA PromiseStep ==
    ASSUME IInv, NoDataYet, [Next]_vars
    PROVE  [Promise!SubNext]_(Promise!subVars)
<1>a. told \in [Nodes -> [Users -> Notices]] /\ authorizers \in [Nodes -> [Users -> Nat]]
    BY DEF IInv, TypeOK
<1>b. subscribers \in [Nodes -> SUBSET Users] /\ unauthorized \in [Nodes -> SUBSET Users]
    BY DEF IInv, TypeOK
<1>c. posts \in [Nodes -> [Users -> Nat]] /\ refused \in [Nodes -> [Users -> Nat]]
    BY DEF IInv, TypeOK
<1>d. initializers \in [Nodes -> Nat]
    BY DEF IInv, TypeOK
<1>e. ASSUME UNCHANGED <<posts, refused>> PROVE Owed' = Owed
    BY <1>e DEF Owed
<1>f. ASSUME NEW n \in Nodes, NEW u \in Users,
             \/ posts' = [posts EXCEPT ![n][u] = @ + 1] /\ UNCHANGED refused
             \/ refused' = [refused EXCEPT ![n][u] = @ + 1] /\ UNCHANGED posts
      PROVE  Owed' = [Owed EXCEPT ![n][u] = @ + 1]
    <2>1. \A m \in Nodes, w \in Users : posts[m][w] \in Nat /\ refused[m][w] \in Nat
        BY <1>c
    <2>2. ASSUME NEW m \in Nodes, NEW w \in Users
          PROVE  posts'[m][w] + refused'[m][w] =
                   IF m = n /\ w = u THEN (posts[m][w] + refused[m][w]) + 1
                                     ELSE posts[m][w] + refused[m][w]
        <3>1. CASE posts' = [posts EXCEPT ![n][u] = @ + 1] /\ UNCHANGED refused
            BY <3>1, <2>1, <1>c
        <3>2. CASE refused' = [refused EXCEPT ![n][u] = @ + 1] /\ UNCHANGED posts
            BY <3>2, <2>1, <1>c
        <3>3. QED
            BY <3>1, <3>2, <1>f
    <2>3. Owed' = [m \in Nodes |-> [w \in Users |->
                     IF m = n /\ w = u THEN Owed[m][w] + 1 ELSE Owed[m][w]]]
        BY <2>2 DEF Owed
    <2>4. QED
        BY <2>3 DEF Owed
<1>g. ASSUME NEW n \in Nodes, NEW u \in Users,
             \/ posts' = [posts EXCEPT ![n][u] = @ - 1] /\ UNCHANGED refused
             \/ refused' = [refused EXCEPT ![n][u] = @ - 1] /\ UNCHANGED posts
      PROVE  Owed' = [Owed EXCEPT ![n][u] = @ - 1]
    <2>1. \A m \in Nodes, w \in Users : posts[m][w] \in Nat /\ refused[m][w] \in Nat
        BY <1>c
    <2>2. ASSUME NEW m \in Nodes, NEW w \in Users
          PROVE  posts'[m][w] + refused'[m][w] =
                   IF m = n /\ w = u THEN (posts[m][w] + refused[m][w]) - 1
                                     ELSE posts[m][w] + refused[m][w]
        <3>1. CASE posts' = [posts EXCEPT ![n][u] = @ - 1] /\ UNCHANGED refused
            BY <3>1, <2>1, <1>c
        <3>2. CASE refused' = [refused EXCEPT ![n][u] = @ - 1] /\ UNCHANGED posts
            BY <3>2, <2>1, <1>c
        <3>3. QED
            BY <3>1, <3>2, <1>g
    <2>3. Owed' = [m \in Nodes |-> [w \in Users |->
                     IF m = n /\ w = u THEN Owed[m][w] - 1 ELSE Owed[m][w]]]
        BY <2>2 DEF Owed
    <2>4. QED
        BY <2>3 DEF Owed
<1>1. ASSUME NEW n \in Nodes, NEW u \in Users, find_or_create(n, u) PROVE Promise!Ask(n, u)
    <2>1. told' = [told EXCEPT ![n] = [w \in Users |-> IF w \in {u} THEN "none" ELSE @[w]]]
        BY <1>1, <1>a DEF find_or_create
    <2>2. QED
        BY <1>1, <2>1, <1>e DEF find_or_create, Promise!Ask, Promise!Tell, Owed
<1>2. ASSUME NEW n \in Nodes, NEW u \in Users, add(n, u)
      PROVE  \/ Promise!JoinWaiting(n, u) \/ Promise!Join(n, u)
             \/ Promise!JoinWithData(n, u) \/ Promise!Owe(n, u)
    <2>1. CASE not_in_error_state(n)
        BY <1>2, <2>1, <1>e
        DEF add, add_subscriber, OnUpdate, Promise!JoinWaiting, Promise!Join,
            Promise!JoinWithData, Promise!Tell, Owed
    <2>2. CASE ~not_in_error_state(n)
        BY <1>2, <2>2, <1>f DEF add, add_subscriber, Promise!Owe, Owed
    <2>3. QED
        BY <2>1, <2>2
<1>3. ASSUME NEW n \in Nodes, NEW u \in Users, call_validate_node(n, u)
      PROVE  UNCHANGED Promise!subVars
    BY <1>3, <1>e DEF call_validate_node, nodeVars, Promise!subVars, Owed
<1>4. ASSUME NEW n \in Nodes, NEW u \in Users, call_authorize(n, u)
      PROVE  Promise!AskAdapter(n, {u})
    <2>1. authorizers' = [authorizers EXCEPT ![n] =
                            [w \in Users |-> IF w \in {u} THEN @[w] + 1 ELSE @[w]]]
        BY <1>4, <1>a DEF call_authorize
    <2>2. QED
        BY <1>4, <2>1, <1>e DEF call_authorize, Promise!AskAdapter, Owed
<1>5. ASSUME NEW n \in Nodes, NEW u \in Users, unsubscribe(n, u) PROVE Promise!Leave(u, {n})
    <2>1. subscribers' = [m \in Nodes |-> IF m \in {n} THEN subscribers[m] \ {u} ELSE subscribers[m]]
        BY <1>5, <1>b DEF unsubscribe, remove_subscriber
    <2>2. unauthorized' = [m \in Nodes |-> IF m \in {n} THEN unauthorized[m] \ {u} ELSE unauthorized[m]]
        BY <1>5, <1>b DEF unsubscribe, remove_subscriber
    <2>3. QED
        BY <1>5, <2>1, <2>2, <1>e DEF unsubscribe, remove_subscriber, rootVars, Promise!Leave, Owed
<1>6. ASSUME NEW u \in Users, unsubscribe_all(u) PROVE Promise!Leave(u, Nodes)
    <2>1. subscribers' = [m \in Nodes |-> IF m \in Nodes THEN subscribers[m] \ {u} ELSE subscribers[m]]
        BY <1>6 DEF unsubscribe_all, remove_everywhere
    <2>2. unauthorized' = [m \in Nodes |-> IF m \in Nodes THEN unauthorized[m] \ {u} ELSE unauthorized[m]]
        BY <1>6 DEF unsubscribe_all, remove_everywhere
    <2>3. QED
        BY <1>6, <2>1, <2>2, <1>e
        DEF unsubscribe_all, remove_everywhere, rootVars, Promise!Leave, Owed
<1>7. ASSUME NEW n \in Nodes, NEW u \in Users, is_authorized(n, u)
      PROVE  \/ Promise!AdmitNobody(n, u) \/ Promise!AdmitQuietly(n, u)
             \/ Promise!AdmitWithData(n, u)
    <2>1. Owed' = Owed
        BY <1>7, <1>e DEF is_authorized, authorized_subscriber
    <2>2. QED
        BY <1>7, <2>1
        DEF is_authorized, authorized_subscriber, OnUpdate, Promise!AdmitNobody,
            Promise!AdmitQuietly, Promise!AdmitWithData, Promise!Tell, Owed
<1>8. ASSUME NEW n \in Nodes, NEW u \in Users, not_authorized(n, u) PROVE Promise!Refuse(n, u)
    <2>1. Owed' = [Owed EXCEPT ![n][u] = @ + 1]
        BY <1>8, <1>f DEF not_authorized, unauthorized_subscriber
    <2>2. QED
        BY <1>8, <2>1 DEF not_authorized, unauthorized_subscriber, Promise!Refuse, Owed
<1>9. ASSUME NEW n \in Nodes, NEW u \in Users, tell_unauthorized(n, u)
      PROVE  Promise!TellError(n, u, "unauthorized")
    <2>1. Owed' = [Owed EXCEPT ![n][u] = @ - 1]
        BY <1>9, <1>g DEF tell_unauthorized
    <2>2. Owed[n][u] > 0
        BY <1>9, <1>c DEF tell_unauthorized, Owed
    <2>3. QED
        BY <1>9, <2>1, <2>2 DEF tell_unauthorized, OnError, Promise!TellError, Promise!Tell, Owed
<1>10. ASSUME NEW n \in Nodes, NEW u \in Users, run_queue(n, u)
       PROVE  Promise!TellError(n, u, "invalid") \/ Promise!TellError(n, u, "failed")
    <2>1. Owed' = [Owed EXCEPT ![n][u] = @ - 1]
        BY <1>10, <1>g DEF run_queue, run_post, rootVars
    <2>2. Owed[n][u] > 0
        BY <1>10, <1>c DEF run_queue, run_post, Owed
    <2>3. QED
        BY <1>10, <2>1, <2>2
        DEF run_queue, run_post, OnError, ErrorNotice, Promise!TellError, Promise!Tell, Owed
<1>11. ASSUME NEW n \in Nodes, NEW v \in Values, update_node(n, v)
       PROVE  Promise!Update(n) \/ UNCHANGED Promise!subVars
    <2>1. Owed' = Owed
        BY <1>11, <1>e DEF update_node, change_data
    <2>2. QED
        BY <1>11, <2>1
        DEF update_node, change_data, OnUpdate, Promise!Update, Promise!Tell, Promise!subVars, Owed
<1>12. ASSUME NEW n \in Nodes, is_valid(n)
       PROVE  Promise!AskAdapter(n, unauthorized[n]) \/ UNCHANGED Promise!subVars
    <2>1. Owed' = Owed
        BY <1>12, <1>e DEF is_valid, validated
    <2>2. QED
        BY <1>12, <2>1 DEF is_valid, validated, Promise!AskAdapter, Promise!subVars, Owed
<1>13. ASSUME NEW n \in Nodes, not_valid(n) PROVE Promise!FailNode(n, "invalid")
    <2>1. Owed' = Owed
        BY <1>13, <1>e DEF not_valid, not_validated
    <2>2. \A u \in Users : told[n][u] # "update"
        BY <1>13 DEF not_valid, IInv, Lifecycle, NoDataYet
    <2>3. QED
        BY <1>13, <2>1, <2>2
        DEF not_valid, not_validated, Fail, OnError, Promise!FailNode, Promise!Tell, Owed
<1>14. ASSUME NEW n \in Nodes, NEW v \in Values, initial_value(n, v) PROVE Promise!Update(n)
    <2>1. Owed' = Owed
        BY <1>14, <1>e DEF initial_value, initial_data, rootVars
    <2>2. QED
        BY <1>14, <2>1
        DEF initial_value, initial_data, OnUpdate, Promise!Update, Promise!Tell, Owed
<1>15. ASSUME NEW n \in Nodes, initialization_dropped(n) PROVE Promise!FailNode(n, "failed")
    <2>1. Owed' = Owed
        BY <1>15, <1>e DEF initialization_dropped, initial_data_failed, rootVars
    <2>2. state[n] = "initializing"
        BY <1>15, <1>d DEF initialization_dropped, IInv, OneInitialization
    <2>3. \A u \in Users : told[n][u] # "update"
        BY <2>2 DEF NoDataYet
    <2>4. QED
        BY <1>15, <2>1, <2>3
        DEF initialization_dropped, initial_data_failed, Fail, OnError, Promise!FailNode,
            Promise!Tell, Owed
<1>16. CASE UNCHANGED vars
    BY <1>16, <1>e DEF vars, nodeVars, rootVars, Promise!subVars, Owed
<1>17. ASSUME NEW n \in Nodes PROVE unauthorized[n] \in SUBSET Users
    BY <1>b
<1>18. {"unauthorized", "invalid", "failed"} \subseteq Promise!Errors
    BY DEF Promise!Errors
<1>19. ASSUME NEW n \in Nodes, NEW u \in Users,
              \/ find_or_create(n, u) \/ SubscribeStep(n, u) \/ unsubscribe(n, u)
              \/ AuthorizationAnswer(n, u) \/ tell_unauthorized(n, u) \/ run_queue(n, u)
       PROVE  Promise!SubNext \/ UNCHANGED Promise!subVars
    <2>1. CASE find_or_create(n, u)
        BY <2>1, <1>1 DEF Promise!SubNext
    <2>2. CASE SubscribeStep(n, u)
        BY <2>2, <1>2, <1>3, <1>4 DEF SubscribeStep, Promise!SubNext
    <2>3. CASE unsubscribe(n, u)
        BY <2>3, <1>5 DEF Promise!SubNext
    <2>4. CASE AuthorizationAnswer(n, u)
        BY <2>4, <1>7, <1>8 DEF AuthorizationAnswer, Promise!SubNext
    <2>5. CASE tell_unauthorized(n, u)
        BY <2>5, <1>9, <1>18 DEF Promise!SubNext
    <2>6. CASE run_queue(n, u)
        BY <2>6, <1>10, <1>18 DEF Promise!SubNext
    <2>7. QED
        BY <1>19, <2>1, <2>2, <2>3, <2>4, <2>5, <2>6
<1>20. ASSUME NEW n \in Nodes,
              \/ \E value \in Values : update_node(n, value)
              \/ ValidationAnswer(n)
              \/ InitializationAnswer(n)
       PROVE  Promise!SubNext \/ UNCHANGED Promise!subVars
    <2>1. CASE \E value \in Values : update_node(n, value)
        BY <2>1, <1>11 DEF Promise!SubNext
    <2>2. CASE ValidationAnswer(n)
        BY <2>2, <1>12, <1>13, <1>17, <1>18 DEF ValidationAnswer, Promise!SubNext
    <2>3. CASE InitializationAnswer(n)
        BY <2>3, <1>14, <1>15, <1>18 DEF InitializationAnswer, Promise!SubNext
    <2>4. QED
        BY <1>20, <2>1, <2>2, <2>3
<1>21. ASSUME NEW u \in Users, unsubscribe_all(u) PROVE Promise!SubNext
    BY <1>21, <1>6 DEF Promise!SubNext
<1>22. QED
    BY <1>16, <1>19, <1>20, <1>21 DEF Next

(* Whatever the adapter answers and in whatever order, the subscribers of  *)
(* root see a behaviour of Subscriptions.                                  *)
THEOREM RootKeepsPromise == Spec => KeepsPromise
<1>1. RootInit => NoDataYet
    BY DEF RootInit, NodeInit, NoDataYet
<1>2. IInv /\ NoDataYet /\ [Next]_vars => [Promise!SubNext]_(Promise!subVars)
    BY PromiseStep
<1>3. QED
    BY <1>1, <1>2, IInvInit, IInvStep, NoDataStep, PromiseInit, PTL
    DEF Spec, KeepsPromise, Promise!SubSpec
=============================================================================
