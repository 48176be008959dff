-------------------------- MODULE PubsubHttpProofs --------------------------
(***************************************************************************)
(* What module PubsubHttp promises the responses and the client, for any   *)
(* number of responses, nodes and versions: a session is not removed under *)
(* a response, none waits while there are events or is answered twice, and *)
(* the updates that are sent can be applied.                               *)
(***************************************************************************)
EXTENDS PubsubHttp, FiniteSetTheorems, SequenceTheorems, WellFoundedInduction, TLAPS

(* The responses that exist; each of them uses the session. *)
InUse == {r \in Responses : stage[r] # "free"}

Counted == use_counter = Cardinality(InUse)

(* The request that calls root knows about which node. *)
AtNode ==
    \A r \in Responses :
        stage[r] \in {"subscribe", "called_back", "unsubscribe"} => at[r] \in Nodes

ConnectionWaits == connection # None => stage[connection] = "waiting"

HInv == TypeOK /\ AtNode /\ ConnectionWaits /\ NoWaitWithEvents /\ Counted /\ SessionListed

(* A client that waits for its answers has one request at a time. *)
OneInFlight ==
    patient => \A q, r \in Responses : InFlight(q) /\ InFlight(r) => q = r

(* The updates us are not about node n. *)
Silent(us, n) == \A i \in 1 .. Len(us) : us[i].node # n

(* A client that is not subscribed has no version, and unless something    *)
(* went wrong, the session knows of none.                                  *)
Forgotten ==
    \A n \in Nodes : interest[n] # "yes" =>
        client[n] = 0 /\ (patient /\ n \notin stale => node_versions[n] = 0)

VInv == OneInFlight /\ Forgotten /\ InStep

USE HttpAssumption

-----------------------------------------------------------------------------
(* The last update of a node *)

(* There is a least number in every set of numbers. *)
LEMMA LeastNat ==
    ASSUME NEW T, T \subseteq Nat, T # {}
    PROVE  \E x \in T : \A y \in T : x <= y
<1>1. PICK x \in T : \A y \in T : ~(<<y, x>> \in OpToRel(<, Nat))
      BY NatLessThanWellFounded, WFMin
<1>2. \A y \in T : ~(y < x)  BY <1>1 DEF OpToRel
<1>3. \A y \in T : x <= y  BY <1>2
<1> QED  BY <1>3

IsLast(us, n, i) == us[i].node = n /\ \A j \in (i + 1) .. Len(us) : us[j].node # n

LEMMA LastExists ==
    ASSUME NEW us \in Seq(Updates), NEW n, NEW k \in 1 .. Len(us), us[k].node = n
    PROVE  \E i \in 1 .. Len(us) : IsLast(us, n, i)
<1> DEFINE T == {d \in 0 .. Len(us) - 1 : us[Len(us) - d].node = n}
<1>0. Len(us) \in Nat  OBVIOUS
<1>1. T \subseteq Nat  BY <1>0
<1>2. Len(us) - k \in T
  <2>1. Len(us) - k \in 0 .. Len(us) - 1 /\ Len(us) - (Len(us) - k) = k  BY <1>0
  <2> QED  BY <2>1
<1>3. PICK d \in T : \A e \in T : d <= e  BY <1>1, <1>2, LeastNat
<1>4. d \in 0 .. Len(us) - 1 /\ us[Len(us) - d].node = n  OBVIOUS
<1> HIDE DEF T
<1>5. ASSUME NEW j \in (Len(us) - d + 1) .. Len(us) PROVE us[j].node # n
  <2>1. Len(us) - j \in 0 .. Len(us) - 1 /\ Len(us) - (Len(us) - j) = j /\ Len(us) - j < d
        BY <1>0, <1>4
  <2>2. Len(us) - j \notin T
    <3>1. \A e \in T : d <= e  BY <1>3
    <3>2. ~(d <= Len(us) - j)  BY <1>0, <1>4, <2>1
    <3> QED  BY <3>1, <3>2
  <2> QED  BY <2>1, <2>2 DEF T
<1>6. Len(us) - d \in 1 .. Len(us)  BY <1>0, <1>4
<1> QED  BY <1>4, <1>5, <1>6 DEF IsLast

LEMMA AfterLast ==
    ASSUME NEW us \in Seq(Updates), NEW n, NEW v, NEW i \in 1 .. Len(us), IsLast(us, n, i)
    PROVE  After(us, n, v) = us[i].to
<1> DEFINE P(j) == us[j].node = n /\ \A m \in (j + 1) .. Len(us) : us[m].node # n
<1>0. P(i)  BY DEF IsLast
<1>1. ASSUME NEW j \in 1 .. Len(us), P(j) PROVE j = i
      BY <1>1 DEF IsLast
<1>2. (CHOOSE j \in 1 .. Len(us) : P(j)) = i
  <2>1. (CHOOSE j \in 1 .. Len(us) : P(j)) \in 1 .. Len(us) /\ P(CHOOSE j \in 1 .. Len(us) : P(j))
        BY <1>0
  <2> QED  BY <1>1, <2>1
<1>3. \E j \in 1 .. Len(us) : us[j].node = n  BY DEF IsLast
<1> QED  BY <1>2, <1>3 DEF After

LEMMA AfterNone ==
    ASSUME NEW us \in Seq(Updates), NEW n, NEW v, \A i \in 1 .. Len(us) : us[i].node # n
    PROVE  After(us, n, v) = v
BY DEF After

LEMMA AfterType ==
    ASSUME NEW us \in Seq(Updates), NEW n, NEW v \in 0 .. MaxVersion
    PROVE  After(us, n, v) \in 0 .. MaxVersion
<1>1. CASE \A i \in 1 .. Len(us) : us[i].node # n  BY <1>1, AfterNone
<1>2. CASE \E i \in 1 .. Len(us) : us[i].node = n
  <2>1. PICK i \in 1 .. Len(us) : IsLast(us, n, i)  BY <1>2, LastExists
  <2>2. After(us, n, v) = us[i].to  BY <2>1, AfterLast
  <2>3. us[i] \in Updates  BY ElementOfSeq
  <2>4. us[i].to \in 1 .. MaxVersion  BY <2>3 DEF Updates
  <2> QED  BY <2>2, <2>4
<1> QED  BY <1>1, <1>2

-----------------------------------------------------------------------------
(* Counting the responses *)

LEMMA InUseFinite ==
    /\ IsFiniteSet(InUse) /\ Cardinality(InUse) \in Nat
    /\ Cardinality(InUse) = 0 <=> InUse = {}
<1>1. InUse \subseteq Responses  BY DEF InUse
<1>2. IsFiniteSet(InUse)  BY <1>1, FS_Subset
<1> QED  BY <1>2, FS_CardinalityType, FS_EmptySet

(* A step that neither creates nor destroys a response. *)
LEMMA SameCount ==
    ASSUME Counted, SessionListed, UNCHANGED <<use_counter, status>>,
           \A r \in Responses : stage'[r] = "free" <=> stage[r] = "free"
    PROVE  Counted' /\ SessionListed'
<1>1. InUse' = InUse  BY DEF InUse
<1> QED  BY <1>1 DEF Counted, SessionListed

(* ~response() *)
LEMMA FreeCount ==
    ASSUME HInv, NEW r \in Responses, stage[r] = "written", idle_session(r), UNCHANGED status
    PROVE  use_counter' \in Nat /\ Counted' /\ SessionListed'
<1>1. stage' = [stage EXCEPT ![r] = "free"] /\ stage \in [Responses -> Stages]
      BY DEF idle_session, HInv, TypeOK
<1>2. InUse' = InUse \ {r} /\ r \in InUse  BY <1>1 DEF InUse
<1>3. IsFiniteSet(InUse) /\ InUse # {} /\ Cardinality(InUse) \in Nat \ {0}
      BY <1>2, InUseFinite
<1>4. Cardinality(InUse') = Cardinality(InUse) - 1  BY <1>2, <1>3, FS_RemoveElement
<1>5. use_counter' = use_counter - 1 /\ use_counter = Cardinality(InUse)
      BY DEF idle_session, HInv, Counted
<1>6. use_counter' \in Nat /\ Counted'  BY <1>3, <1>4, <1>5 DEF Counted
<1>7. SessionListed'  BY <1>1 DEF HInv, SessionListed
<1> QED  BY <1>6, <1>7

-----------------------------------------------------------------------------
(* Events *)

(* on_event(), with the stages that the caller's step leads to. *)
LEMMA EventKeeps ==
    ASSUME HInv, NEW us \in Seq(Updates), NEW es, \A n \in es : n \in Nodes,
           NEW stages \in [Responses -> Stages],
           connection # None => stages[connection] = "waiting",
           on_event(us, es, stages)
    PROVE  /\ connection' \in Responses \cup {None}
           /\ updates' \in Seq(Updates) /\ errors' \in SUBSET Nodes
           /\ stage' \in [Responses -> Stages]
           /\ payload' \in [Responses -> Seq(Updates)] /\ refuse' \in [Responses -> SUBSET Nodes]
           /\ ConnectionWaits' /\ NoWaitWithEvents'
           /\ \A r \in Responses : stage'[r] = stages[r] \/ (stages[r] = "waiting" /\ stage'[r] = "taken")
<1>0. /\ connection \in Responses \cup {None}
      /\ updates \in Seq(Updates) /\ errors \in SUBSET Nodes
      /\ payload \in [Responses -> Seq(Updates)] /\ refuse \in [Responses -> SUBSET Nodes]
      BY DEF HInv, TypeOK
<1>1. updates \o us \in Seq(Updates) /\ errors \cup es \in SUBSET Nodes
      BY <1>0, ConcatProperties
<1>2. CASE connection # None
  <2>1. /\ connection' = None
        /\ stage' = [stages EXCEPT ![connection] = "taken"]
        /\ payload' = [payload EXCEPT ![connection] = updates \o us]
        /\ refuse' = [refuse EXCEPT ![connection] = errors \cup es]
        /\ updates' = <<>> /\ errors' = {}
        BY <1>2 DEF on_event
  <2>2. stage' \in [Responses -> Stages]  BY <1>0, <1>2, <2>1 DEF Stages
  <2>3. payload' \in [Responses -> Seq(Updates)]  BY <1>0, <1>1, <1>2, <2>1
  <2>4. refuse' \in [Responses -> SUBSET Nodes]  BY <1>0, <1>1, <1>2, <2>1
  <2>5. updates' \in Seq(Updates)  BY <2>1, EmptySeq
  <2>6. \A r \in Responses : stage'[r] = stages[r] \/ (stages[r] = "waiting" /\ stage'[r] = "taken")
        BY <1>0, <1>2, <2>1
  <2> QED  BY <2>1, <2>2, <2>3, <2>4, <2>5, <2>6 DEF ConnectionWaits, NoWaitWithEvents
<1>3. CASE connection = None
  <2>1. /\ updates' = updates \o us /\ errors' = errors \cup es /\ stage' = stages
        /\ UNCHANGED <<connection, payload, refuse>>
        BY <1>3 DEF on_event
  <2> QED  BY <1>0, <1>1, <1>3, <2>1 DEF ConnectionWaits, NoWaitWithEvents
<1> QED  BY <1>2, <1>3

(* on_update() with a version of the node. *)
LEMMA UpdateKeeps ==
    ASSUME HInv, NEW n \in Nodes, NEW to \in 1 .. MaxVersion,
           NEW stages \in [Responses -> Stages],
           connection # None => stages[connection] = "waiting",
           on_update(n, to, stages)
    PROVE  /\ connection' \in Responses \cup {None}
           /\ updates' \in Seq(Updates) /\ errors' \in SUBSET Nodes
           /\ stage' \in [Responses -> Stages]
           /\ payload' \in [Responses -> Seq(Updates)] /\ refuse' \in [Responses -> SUBSET Nodes]
           /\ ConnectionWaits' /\ NoWaitWithEvents'
           /\ \A r \in Responses : stage'[r] = stages[r] \/ (stages[r] = "waiting" /\ stage'[r] = "taken")
           /\ node_versions' \in [Nodes -> 0 .. MaxVersion] /\ stale' \in SUBSET Nodes
<1>0. node_versions \in [Nodes -> 0 .. MaxVersion]  BY DEF HInv, TypeOK
<1>1. PICK from \in {0, node_versions[n]} :
           on_event(<<[node |-> n, from |-> from, to |-> to]>>, {}, stages)
      BY DEF on_update
<1>2. [node |-> n, from |-> from, to |-> to] \in Updates  BY <1>0 DEF Updates
<1>3. <<[node |-> n, from |-> from, to |-> to]>> \in Seq(Updates)  BY <1>2
<1>4. node_versions' \in [Nodes -> 0 .. MaxVersion]  BY <1>0 DEF on_update
<1>5. PICK us \in Seq(Updates) : us = <<[node |-> n, from |-> from, to |-> to]>>  BY <1>3
<1>6. PICK es : es = {}  OBVIOUS
<1>7. on_event(us, es, stages) /\ \A x \in es : x \in Nodes  BY <1>1, <1>5, <1>6
<1>8. /\ connection' \in Responses \cup {None}
      /\ updates' \in Seq(Updates) /\ errors' \in SUBSET Nodes
      /\ stage' \in [Responses -> Stages]
      BY <1>7, EventKeeps
<1>9. /\ payload' \in [Responses -> Seq(Updates)] /\ refuse' \in [Responses -> SUBSET Nodes]
      /\ ConnectionWaits' /\ NoWaitWithEvents'
      BY <1>7, EventKeeps
<1>10. \A r \in Responses : stage'[r] = stages[r] \/ (stages[r] = "waiting" /\ stage'[r] = "taken")
      BY <1>7 DEF on_event
<1>11. stale' \in SUBSET Nodes  BY DEF on_update, HInv, TypeOK
<1> QED  BY <1>4, <1>8, <1>9, <1>10, <1>11

(* The client reads an answer. *)
LEMMA ReadTypes ==
    ASSUME TypeOK, NEW us \in Seq(Updates), NEW es \in SUBSET Nodes, Read(us, es)
    PROVE  /\ interest' \in [Nodes -> Interests]
           /\ client' \in [Nodes -> 0 .. MaxVersion]
           /\ returns' \in Nat /\ stale' \in SUBSET Nodes
<1>1. \A n \in Nodes : After(us, n, client[n]) \in 0 .. MaxVersion
      BY AfterType DEF TypeOK
<1>2. interest' \in [Nodes -> Interests]  BY DEF Read, TypeOK, Interests
<1>3. client' \in [Nodes -> 0 .. MaxVersion]  BY <1>1 DEF Read
<1>4. returns' \in Nat /\ stale' \in SUBSET Nodes  BY DEF Read, TypeOK
<1> QED  BY <1>2, <1>3, <1>4

-----------------------------------------------------------------------------
(* The steps *)

(* A response that is written is not taken again, see AnsweredOnce. *)
Once ==
    \A r \in Responses :
        /\ stage[r] = "writing" => stage'[r] \in {"writing", "written", "free"}
        /\ stage[r] = "written" => stage'[r] \in {"written", "free"}

(* Steps that move no response and leave the session as it is. *)
LEMMA QuietKeeps ==
    ASSUME HInv,
           \/ \E r \in Responses : command_error(r) \/ expire(r) \/ wait_returns(r)
           \/ \E n \in Nodes : root_asks(n) \/ root_answers_quietly(n)
           \/ session_expires \/ shut_down \/ UNCHANGED vars,
           UNCHANGED patient
    PROVE  HInv' /\ Once
<1>0. UNCHANGED <<version, status, use_counter, connection, updates, errors, node_versions, held,
                  stage, at, payload, refuse, interest, client, returns, stale, hurried>>
      BY DEF command_error, expire, wait_returns, root_asks, root_answers_quietly,
             session_expires, shut_down, vars, listVars, sessionVars, responseVars, clientVars
<1>1. /\ idle_timer' \in BOOLEAN /\ expired' \in BOOLEAN
      BY DEF command_error, expire, wait_returns, root_asks, root_answers_quietly,
             session_expires, shut_down, vars, listVars, HInv, TypeOK, cancel_timer
<1>2. mutex' \in Responses \cup {None}
      BY DEF command_error, expire, wait_returns, root_asks, root_answers_quietly,
             session_expires, shut_down, vars, HInv, TypeOK
<1>3. reply' \in [Responses -> BOOLEAN]
      BY DEF command_error, expire, wait_returns, root_asks, root_answers_quietly,
             session_expires, shut_down, vars, responseVars, HInv, TypeOK
<1>4. second' \in [Responses -> Responses \cup {None}]
      BY DEF command_error, expire, wait_returns, root_asks, root_answers_quietly,
             session_expires, shut_down, vars, responseVars, HInv, TypeOK
<1>5. timer' \in [Responses -> {"off", "on", "expired"}]
  <2>1. \/ UNCHANGED timer
        \/ \E r \in Responses : timer' = [timer EXCEPT ![r] = "expired"]
        BY DEF command_error, expire, wait_returns, root_asks, root_answers_quietly,
               session_expires, shut_down, vars, responseVars
  <2>2. timer \in [Responses -> {"off", "on", "expired"}]  BY DEF HInv, TypeOK
  <2> QED  BY <2>1, <2>2
<1>6. TypeOK'  BY <1>0, <1>1, <1>2, <1>3, <1>4, <1>5 DEF HInv, TypeOK
<1>7. AtNode' /\ ConnectionWaits' /\ NoWaitWithEvents' /\ Once
      BY <1>0 DEF HInv, AtNode, ConnectionWaits, NoWaitWithEvents, Once
<1>8. Counted' /\ SessionListed'  BY <1>0, SameCount DEF HInv
<1> QED  BY <1>6, <1>7, <1>8 DEF HInv

LEMMA find_or_create_sessionKeeps ==
    ASSUME HInv, NEW r \in Responses, find_or_create_session(r), UNCHANGED patient
    PROVE  HInv' /\ Once
<1>0. /\ stage[r] = "free" /\ stage' = [stage EXCEPT ![r] = "commands"]
      /\ use_counter' = use_counter + 1 /\ status' = "live"
      /\ stage \in [Responses -> Stages]
      BY DEF find_or_create_session, HInv, TypeOK
<1>1. InUse' = InUse \cup {r} /\ r \notin InUse  BY <1>0 DEF InUse
<1>2. Cardinality(InUse') = Cardinality(InUse) + 1  BY <1>1, InUseFinite, FS_AddElement
<1>3. Counted'  BY <1>0, <1>2 DEF HInv, Counted
<1>4. stage' \in [Responses -> Stages]  BY <1>0 DEF Stages
<1>5. reply' \in [Responses -> BOOLEAN]  BY DEF find_or_create_session, HInv, TypeOK
<1>9. /\ UNCHANGED <<version, expired, mutex, connection, updates, errors, node_versions, held, at,
                      second, payload, refuse, timer, hurried, interest, client, returns, stale>>
      /\ idle_timer' = FALSE
      BY DEF find_or_create_session, cancel_timer, sessionVars, clientVars
<1>10. use_counter' \in Nat  BY <1>0 DEF HInv, TypeOK
<1>6. TypeOK'  BY <1>0, <1>4, <1>5, <1>9, <1>10 DEF HInv, TypeOK
<1>7. AtNode' /\ SessionListed' /\ Once
      BY <1>0 DEF find_or_create_session, HInv, AtNode, SessionListed, Once
<1>8. ConnectionWaits' /\ NoWaitWithEvents'
      BY <1>0 DEF find_or_create_session, HInv, TypeOK, ConnectionWaits, NoWaitWithEvents, sessionVars
<1> QED  BY <1>3, <1>6, <1>7, <1>8 DEF HInv

(* The last reference to a response goes. *)
LEMMA FreeKeeps ==
    ASSUME HInv, NEW r \in Responses, stage[r] = "written", idle_session(r), UNCHANGED patient,
           held' \in [Nodes -> Responses \cup {None}],
           UNCHANGED <<version, status, expired, mutex, sessionVars, node_versions, at,
                       second, payload, refuse, timer, clientVars>>
    PROVE  HInv' /\ Once
<1>0. stage' = [stage EXCEPT ![r] = "free"] /\ stage \in [Responses -> Stages]
      BY DEF idle_session, HInv, TypeOK
<1>1. stage' \in [Responses -> Stages]  BY <1>0 DEF Stages
<1>2. reply' \in [Responses -> BOOLEAN] /\ hurried' \in SUBSET Responses /\ idle_timer' \in BOOLEAN
      BY DEF idle_session, HInv, TypeOK
<1>3. use_counter' \in Nat /\ Counted' /\ SessionListed'  BY FreeCount
<1>4. TypeOK'  BY <1>1, <1>2, <1>3 DEF HInv, TypeOK, sessionVars, clientVars
<1>5. AtNode' /\ Once  BY <1>0 DEF HInv, AtNode, Once
<1>6. ConnectionWaits' /\ NoWaitWithEvents'
      BY <1>0 DEF HInv, TypeOK, ConnectionWaits, NoWaitWithEvents, sessionVars
<1> QED  BY <1>3, <1>4, <1>5, <1>6 DEF HInv

LEMMA destroyKeeps ==
    ASSUME HInv, NEW r \in Responses, destroy(r), UNCHANGED patient
    PROVE  HInv' /\ Once
BY FreeKeeps DEF destroy, LastReference, HInv, TypeOK

LEMMA releaseKeeps ==
    ASSUME HInv, NEW n \in Nodes, release(n), UNCHANGED patient
    PROVE  HInv' /\ Once
<1>0. held[n] \in Responses /\ held' \in [Nodes -> Responses \cup {None}]
      BY DEF release, HInv, TypeOK
<1>1. CASE stage[held[n]] = "written" /\ timer[held[n]] = "off"
      BY <1>0, <1>1, FreeKeeps DEF release
<1>2. CASE ~(stage[held[n]] = "written" /\ timer[held[n]] = "off")
  <2>1. UNCHANGED <<stage, reply, hurried, use_counter, idle_timer, status>>  BY <1>2 DEF release
  <2>2. TypeOK'  BY <1>0, <2>1 DEF release, HInv, TypeOK, sessionVars, clientVars
  <2>3. Counted' /\ SessionListed'  BY <2>1, SameCount DEF HInv
  <2>4. AtNode' /\ Once  BY <2>1 DEF release, HInv, AtNode, Once
  <2>5. ConnectionWaits' /\ NoWaitWithEvents'
        BY <2>1 DEF release, HInv, ConnectionWaits, NoWaitWithEvents, sessionVars
  <2> QED  BY <2>2, <2>3, <2>4, <2>5 DEF HInv
<1> QED  BY <1>1, <1>2

LEMMA timeout_sessionKeeps ==
    ASSUME HInv, timeout_session, UNCHANGED patient
    PROVE  HInv' /\ Once
<1>0. UNCHANGED <<version, use_counter, mutex, connection, updates, errors, node_versions, held,
                  stage, at, reply, second, payload, refuse, timer, hurried, interest, client, returns, stale>>
      BY DEF timeout_session, sessionVars, responseVars, clientVars
<1>1. InUse' = InUse  BY <1>0 DEF InUse
<1>2. Counted'  BY <1>0, <1>1 DEF HInv, Counted
<1>3. SessionListed'
  <2>1. CASE use_counter = 0
    <3>1. InUse = {}  BY <2>1, InUseFinite DEF HInv, Counted
    <3> QED  BY <1>0, <3>1 DEF InUse, SessionListed
  <2>2. CASE use_counter # 0
        BY <1>0, <2>2 DEF timeout_session, HInv, SessionListed
  <2> QED  BY <2>1, <2>2
<1>4. status' \in {"unborn", "live", "dead"} /\ idle_timer' \in BOOLEAN /\ expired' \in BOOLEAN
      BY DEF timeout_session, HInv, TypeOK
<1>5. TypeOK'  BY <1>0, <1>4 DEF HInv, TypeOK
<1>6. AtNode' /\ ConnectionWaits' /\ NoWaitWithEvents' /\ Once
      BY <1>0 DEF HInv, AtNode, ConnectionWaits, NoWaitWithEvents, Once
<1> QED  BY <1>2, <1>3, <1>5, <1>6 DEF HInv

(* A request goes on: it did not wait, and does not wait then. *)
LEMMA RequestKeeps ==
    ASSUME HInv, TypeOK', NEW r \in Responses, NEW to \in Stages \ {"free", "waiting"},
           stage[r] \notin {"free", "waiting", "written"},
           stage[r] = "writing" => to = "written",
           stage' = [stage EXCEPT ![r] = to],
           to \in {"subscribe", "called_back", "unsubscribe"} => at'[r] \in Nodes,
           \A q \in Responses \ {r} : at'[q] = at[q],
           UNCHANGED <<use_counter, status, connection>>,
           connection # None => updates' = <<>> /\ errors' = {}
    PROVE  HInv' /\ Once
<1>0. stage \in [Responses -> Stages]  BY DEF HInv, TypeOK
<1>1. Counted' /\ SessionListed'  BY <1>0, SameCount DEF HInv
<1>2. AtNode'  BY <1>0 DEF HInv, AtNode
<1>3. ConnectionWaits' /\ NoWaitWithEvents'
      BY <1>0 DEF HInv, TypeOK, ConnectionWaits, NoWaitWithEvents
<1>4. Once  BY <1>0 DEF Once
<1> QED  BY <1>1, <1>2, <1>3, <1>4 DEF HInv

LEMMA CommandKeeps ==
    ASSUME HInv, NEW r \in Responses, UNCHANGED patient,
           \/ \E n \in Nodes : subscribe(r, n) \/ unsubscribe(r, n)
           \/ root_unsubscribe(r) \/ subscribe_returns(r)
    PROVE  HInv' /\ Once
<1>0. /\ stage[r] \in {"commands", "unsubscribe", "called_back"}
      /\ UNCHANGED <<version, status, use_counter, idle_timer, expired, connection, updates, errors,
                     held, second, payload, refuse, timer, hurried>>
      BY DEF subscribe, unsubscribe, root_unsubscribe, subscribe_returns, listVars, sessionVars
<1>1. PICK to \in {"subscribe", "unsubscribe", "commands"} : stage' = [stage EXCEPT ![r] = to]
      BY DEF subscribe, unsubscribe, root_unsubscribe, subscribe_returns
<1>2. /\ at' \in [Responses -> Nodes \cup {None}] /\ \A q \in Responses \ {r} : at'[q] = at[q]
      /\ to \in {"subscribe", "unsubscribe"} => at'[r] \in Nodes
  <2>0. at \in [Responses -> Nodes \cup {None}] /\ stage \in [Responses -> Stages]
        BY DEF HInv, TypeOK
  <2>1. PICK x \in Nodes \cup {None} : at' = [at EXCEPT ![r] = x]
        BY DEF subscribe, unsubscribe, root_unsubscribe, subscribe_returns
  <2>2. CASE \E n \in Nodes : subscribe(r, n) \/ unsubscribe(r, n)
    <3>1. at'[r] \in Nodes  BY <2>0, <2>2 DEF subscribe, unsubscribe
    <3> QED  BY <2>0, <2>1, <3>1
  <2>3. CASE root_unsubscribe(r) \/ subscribe_returns(r)
    <3>1. stage'[r] = "commands"  BY <2>0, <2>3 DEF root_unsubscribe, subscribe_returns
    <3>2. stage'[r] = to  BY <1>1, <2>0
    <3> QED  BY <2>0, <2>1, <3>1, <3>2
  <2> QED  BY <2>2, <2>3
<1>3. mutex' \in Responses \cup {None}
      BY DEF subscribe, unsubscribe, root_unsubscribe, subscribe_returns
<1>4. node_versions' \in [Nodes -> 0 .. MaxVersion]
  <2>0. node_versions \in [Nodes -> 0 .. MaxVersion]  BY DEF HInv, TypeOK
  <2>1. ASSUME NEW n \in Nodes, unsubscribe(r, n) PROVE node_versions' \in [Nodes -> 0 .. MaxVersion]
    <3>1. node_versions' = [node_versions EXCEPT ![n] = 0]  BY <2>1 DEF unsubscribe
    <3> QED  BY <2>0, <3>1
  <2>2. ASSUME ~\E n \in Nodes : unsubscribe(r, n) PROVE UNCHANGED node_versions
        BY <2>2 DEF subscribe, root_unsubscribe, subscribe_returns
  <2> QED  BY <2>0, <2>1, <2>2
<1>5. interest' \in [Nodes -> Interests]
  <2>1. \/ UNCHANGED interest
        \/ \E n \in Nodes, x \in {"yes", "no"} : interest' = [interest EXCEPT ![n] = x]
        BY DEF subscribe, unsubscribe, root_unsubscribe, subscribe_returns, clientVars
  <2> QED  BY <2>1 DEF HInv, TypeOK, Interests
<1>6. client' \in [Nodes -> 0 .. MaxVersion]
  <2>0. client \in [Nodes -> 0 .. MaxVersion]  BY DEF HInv, TypeOK
  <2>1. ASSUME NEW n \in Nodes, unsubscribe(r, n) PROVE client' \in [Nodes -> 0 .. MaxVersion]
    <3>1. client' = [client EXCEPT ![n] = 0]  BY <2>1 DEF unsubscribe
    <3> QED  BY <2>0, <3>1
  <2>2. ASSUME ~\E n \in Nodes : unsubscribe(r, n) PROVE UNCHANGED client
        BY <2>2 DEF subscribe, root_unsubscribe, subscribe_returns, clientVars
  <2> QED  BY <2>0, <2>1, <2>2
<1>7. reply' \in [Responses -> BOOLEAN]
      BY DEF subscribe, unsubscribe, root_unsubscribe, subscribe_returns, HInv, TypeOK
<1>8. stage' \in [Responses -> Stages]  BY <1>1 DEF HInv, TypeOK, Stages
<1>11. returns' \in Nat
      BY DEF subscribe, unsubscribe, root_unsubscribe, subscribe_returns, HInv, TypeOK, clientVars
<1>12. stale' \in SUBSET Nodes
      BY DEF subscribe, unsubscribe, root_unsubscribe, subscribe_returns, HInv, TypeOK, clientVars
<1>9. TypeOK'
      BY <1>0, <1>2, <1>3, <1>4, <1>5, <1>6, <1>7, <1>8, <1>11, <1>12 DEF HInv, TypeOK
<1>10. to \in Stages \ {"free", "waiting"}  BY DEF Stages
<1> QED  BY <1>0, <1>1, <1>2, <1>9, <1>10, RequestKeeps DEF HInv, NoWaitWithEvents

LEMMA AnswerKeeps ==
    ASSUME HInv, NEW r \in Responses, UNCHANGED patient,
           answer_commands(r) \/ response_written(r)
    PROVE  HInv' /\ Once
<1>0. UNCHANGED <<version, status, use_counter, idle_timer, expired, mutex, connection, updates, errors,
                  node_versions, held, at, reply, second, payload, refuse, timer, hurried,
                  interest, client, returns, stale>>
      BY DEF answer_commands, response_written, listVars, sessionVars, clientVars
<1>1. PICK to \in {"writing", "written"} :
           /\ stage' = [stage EXCEPT ![r] = to]
           /\ stage[r] \in {"commands", "writing"} /\ (stage[r] = "writing" => to = "written")
      BY DEF answer_commands, response_written
<1>2. stage' \in [Responses -> Stages]  BY <1>1 DEF HInv, TypeOK, Stages
<1>3. TypeOK'  BY <1>0, <1>2 DEF HInv, TypeOK
<1>4. to \in Stages \ {"free", "waiting"}  BY DEF Stages
<1> QED  BY <1>0, <1>1, <1>3, <1>4, RequestKeeps DEF HInv, NoWaitWithEvents

LEMMA pending_updatesKeeps ==
    ASSUME HInv, NEW r \in Responses, UNCHANGED patient, pending_updates(r)
    PROVE  HInv' /\ Once
<1>0. /\ UNCHANGED <<version, status, use_counter, idle_timer, expired, mutex, connection,
                     node_versions, held, at, reply, second, payload, refuse, hurried>>
      /\ stage[r] = "commands" /\ updates' = <<>> /\ errors' = {}
      BY DEF pending_updates, listVars
<1>1. PICK to \in {"writing", "armed"} : stage' = [stage EXCEPT ![r] = to]
      BY DEF pending_updates
<1>2. stage' \in [Responses -> Stages]  BY <1>1 DEF HInv, TypeOK, Stages
<1>3. updates \in Seq(Updates) /\ <<>> \in Seq(Updates)  BY EmptySeq DEF HInv, TypeOK
<1>4. /\ interest' \in [Nodes -> Interests] /\ client' \in [Nodes -> 0 .. MaxVersion]
      /\ returns' \in Nat /\ stale' \in SUBSET Nodes
  <2>1. CASE Read(updates, errors)
    <3>1. errors \in SUBSET Nodes  BY DEF HInv, TypeOK
    <3> QED  BY <1>3, <2>1, <3>1, ReadTypes DEF HInv
  <2>2. CASE UNCHANGED clientVars  BY <2>2 DEF clientVars, HInv, TypeOK
  <2> QED  BY <2>1, <2>2 DEF pending_updates
<1>5. timer' \in [Responses -> {"off", "on", "expired"}]
      BY DEF pending_updates, HInv, TypeOK
<1>6. TypeOK'  BY <1>0, <1>2, <1>3, <1>4, <1>5 DEF HInv, TypeOK
<1>7. to \in Stages \ {"free", "waiting"}  BY DEF Stages
<1> QED  BY <1>0, <1>1, <1>6, <1>7, RequestKeeps

LEMMA updateKeeps ==
    ASSUME HInv, NEW r \in Responses, UNCHANGED patient, update(r)
    PROVE  HInv' /\ Once
<1>0. /\ UNCHANGED <<version, status, use_counter, idle_timer, expired, mutex, connection, updates,
                     errors, node_versions, held, at, reply, second, hurried>>
      /\ stage[r] = "taken" /\ stage' = [stage EXCEPT ![r] = "writing"]
      BY DEF update, Write, listVars, sessionVars
<1>1. stage' \in [Responses -> Stages]  BY <1>0 DEF HInv, TypeOK, Stages
<1>2. payload[r] \in Seq(Updates) /\ <<>> \in Seq(Updates)  BY EmptySeq DEF HInv, TypeOK
<1>3. /\ interest' \in [Nodes -> Interests] /\ client' \in [Nodes -> 0 .. MaxVersion]
      /\ returns' \in Nat /\ stale' \in SUBSET Nodes
  <2>1. refuse[r] \in SUBSET Nodes  BY DEF HInv, TypeOK
  <2> QED  BY <1>2, <2>1, ReadTypes DEF update, HInv
<1>4. timer' \in [Responses -> {"off", "on", "expired"}]
      BY DEF update, Write, Cancelled, HInv, TypeOK
<1>5. payload' \in [Responses -> Seq(Updates)]  BY <1>2 DEF update, HInv, TypeOK
<1>6. refuse' \in [Responses -> SUBSET Nodes]  BY DEF update, HInv, TypeOK
<1>7. TypeOK'  BY <1>0, <1>1, <1>3, <1>4, <1>5, <1>6 DEF HInv, TypeOK
<1>8. "writing" \in Stages \ {"free", "waiting"}  BY DEF Stages
<1> QED  BY <1>0, <1>7, <1>8, RequestKeeps DEF HInv, NoWaitWithEvents

(* wait() *)
LEMMA wait_for_session_eventKeeps ==
    ASSUME HInv, NEW r \in Responses, UNCHANGED patient, wait_for_session_event(r)
    PROVE  HInv' /\ Once
<1> DEFINE now == updates # <<>> \/ errors # {}
<1>0. /\ UNCHANGED <<version, status, use_counter, idle_timer, expired, node_versions, held, at,
                     reply, hurried, interest, client, returns, stale>>
      /\ stage[r] = "armed" /\ updates' = <<>> /\ errors' = {}
      /\ connection' = IF now THEN None ELSE r
      /\ payload' = [payload EXCEPT ![r] = updates]
      /\ refuse' = [refuse EXCEPT ![r] = errors]
      /\ second' = [second EXCEPT ![r] = connection]
      /\ mutex' = IF connection # None THEN r ELSE None
      BY DEF wait_for_session_event, listVars, clientVars
<1>1. stage' = [q \in Responses |->
                  IF q = r THEN (IF now THEN "taken" ELSE "waiting")
                  ELSE IF q = connection THEN "writing" ELSE stage[q]]
      BY DEF wait_for_session_event
<1>2. timer' = [q \in Responses |-> IF q = connection THEN Cancelled(timer[q]) ELSE timer[q]]
      BY DEF wait_for_session_event
<1> HIDE DEF now
<1>3. stage \in [Responses -> Stages] /\ connection \in Responses \cup {None}
      BY DEF HInv, TypeOK
<1>4. stage' \in [Responses -> Stages]  BY <1>1, <1>3 DEF Stages
<1>5. timer' \in [Responses -> {"off", "on", "expired"}]
      BY <1>2 DEF Cancelled, HInv, TypeOK
<1>6. updates' \in Seq(Updates) /\ payload' \in [Responses -> Seq(Updates)]
      BY <1>0, EmptySeq DEF HInv, TypeOK
<1>7. refuse' \in [Responses -> SUBSET Nodes] /\ second' \in [Responses -> Responses \cup {None}]
      BY <1>0 DEF HInv, TypeOK
<1>8. TypeOK'  BY <1>0, <1>4, <1>5, <1>6, <1>7 DEF HInv, TypeOK
<1>9. connection # None => stage[connection] = "waiting"  BY DEF HInv, ConnectionWaits
<1>10. Counted' /\ SessionListed'  BY <1>0, <1>1, <1>3, <1>9, SameCount DEF HInv
<1>11. AtNode'  BY <1>0, <1>1, <1>3 DEF HInv, AtNode
<1>12. ConnectionWaits' /\ NoWaitWithEvents'
       BY <1>0, <1>1 DEF ConnectionWaits, NoWaitWithEvents
<1>13. Once  BY <1>0, <1>1, <1>3, <1>9 DEF Once
<1> QED  BY <1>8, <1>10, <1>11, <1>12, <1>13 DEF HInv

(* The timer, and hurry(). *)
LEMMA WakeUpKeeps ==
    ASSUME HInv, NEW r \in Responses, UNCHANGED patient, on_time_out(r) \/ implement_hurry(r)
    PROVE  HInv' /\ Once
<1>0. /\ UNCHANGED <<version, status, use_counter, idle_timer, expired, mutex, updates, errors,
                     node_versions, held, at, reply, second, payload, refuse, interest, client, returns, stale>>
      /\ connection' = None
      /\ stage' = IF connection = r THEN [stage EXCEPT ![r] = "writing"] ELSE stage
      BY DEF on_time_out, implement_hurry, wake_up, session_wake_up, listVars, clientVars
<1>1. stage \in [Responses -> Stages] /\ (connection = r => stage[r] = "waiting")
      BY DEF HInv, TypeOK, ConnectionWaits
<1>2. stage' \in [Responses -> Stages]  BY <1>0, <1>1 DEF Stages
<1>3. timer' \in [Responses -> {"off", "on", "expired"}]
      BY DEF on_time_out, implement_hurry, Cancelled, HInv, TypeOK
<1>4. hurried' \in SUBSET Responses
      BY DEF on_time_out, implement_hurry, HInv, TypeOK
<1>5. TypeOK'  BY <1>0, <1>2, <1>3, <1>4 DEF HInv, TypeOK
<1>6. Counted' /\ SessionListed'  BY <1>0, <1>1, SameCount DEF HInv
<1>7. AtNode'  BY <1>0, <1>1 DEF HInv, AtNode
<1>8. ConnectionWaits' /\ NoWaitWithEvents'  BY <1>0 DEF ConnectionWaits, NoWaitWithEvents
<1>9. Once  BY <1>0, <1>1 DEF Once
<1> QED  BY <1>5, <1>6, <1>7, <1>8, <1>9 DEF HInv

(* What an event leaves to be shown. *)
LEMMA EventStep ==
    ASSUME HInv, TypeOK', ConnectionWaits', NoWaitWithEvents',
           NEW stages \in [Responses -> Stages],
           \A q \in Responses : stage'[q] = stages[q] \/ (stages[q] = "waiting" /\ stage'[q] = "taken"),
           \A q \in Responses :
               stages[q] = stage[q] \/ (stage[q] = "subscribe" /\ stages[q] \in {"commands", "called_back"}),
           \A q \in Responses :
               stages[q] \in {"subscribe", "called_back", "unsubscribe"} => at'[q] \in Nodes,
           UNCHANGED <<use_counter, status>>
    PROVE  HInv' /\ Once
<1>1. Counted' /\ SessionListed'
  <2>1. \A q \in Responses : stage'[q] = "free" <=> stage[q] = "free"  OBVIOUS
  <2> QED  BY <2>1, SameCount DEF HInv
<1>2. AtNode'  BY DEF AtNode
<1>3. Once  BY DEF Once
<1> QED  BY <1>1, <1>2, <1>3 DEF HInv

LEMMA RootKeeps ==
    ASSUME HInv, NEW n \in Nodes, UNCHANGED patient,
           root_admits(n) \/ change_data(n) \/ on_error(n)
    PROVE  HInv' /\ Once
<1>0. /\ UNCHANGED <<status, use_counter, idle_timer, expired, mutex, at, reply, second, timer,
                     hurried, interest, client, returns>>
      BY DEF root_admits, change_data, on_error, listVars, clientVars
<1>1. /\ stage \in [Responses -> Stages] /\ (connection # None => stage[connection] = "waiting")
      /\ connection \in Responses \cup {None} /\ held \in [Nodes -> Responses \cup {None}]
      /\ version \in [Nodes -> 1 .. MaxVersion]
      BY DEF HInv, TypeOK, ConnectionWaits
<1>2. version' \in [Nodes -> 1 .. MaxVersion]
  <2>1. CASE change_data(n)
    <3>1. version[n] + 1 \in 1 .. MaxVersion  BY <1>1, <2>1 DEF change_data
    <3> QED  BY <1>1, <2>1, <3>1 DEF change_data
  <2>2. CASE root_admits(n) \/ on_error(n)  BY <1>1, <2>2 DEF root_admits, on_error
  <2> QED  BY <2>1, <2>2
<1>3. held' \in [Nodes -> Responses \cup {None}]
      BY <1>1 DEF root_admits, change_data, on_error
<1>4. /\ connection' \in Responses \cup {None}
      /\ updates' \in Seq(Updates) /\ errors' \in SUBSET Nodes
      /\ stage' \in [Responses -> Stages]
      /\ payload' \in [Responses -> Seq(Updates)] /\ refuse' \in [Responses -> SUBSET Nodes]
      /\ ConnectionWaits' /\ NoWaitWithEvents'
      /\ \A q \in Responses : stage'[q] = stage[q] \/ (stage[q] = "waiting" /\ stage'[q] = "taken")
      /\ node_versions' \in [Nodes -> 0 .. MaxVersion] /\ stale' \in SUBSET Nodes
  <2>1. CASE root_admits(n)  BY <1>1, <2>1, UpdateKeeps DEF root_admits
  <2>2. CASE change_data(n) /\ me \in subs[n]
    <3>1. version[n] + 1 \in 1 .. MaxVersion  BY <1>1, <2>2 DEF change_data
    <3> QED  BY <1>1, <2>2, <3>1, UpdateKeeps DEF change_data
  <2>3. CASE change_data(n) /\ me \notin subs[n]
    <3>1. UNCHANGED <<connection, updates, errors, node_versions, stage, payload, refuse, stale>>
          BY <2>3 DEF change_data, sessionVars
    <3> QED  BY <3>1 DEF HInv, TypeOK, ConnectionWaits, NoWaitWithEvents
  <2>4. CASE on_error(n)
    <3>1. on_event(<<>>, {n}, stage) /\ UNCHANGED node_versions  BY <2>4 DEF on_error
    <3>2. <<>> \in Seq(Updates)  BY EmptySeq
    <3>3. node_versions' \in [Nodes -> 0 .. MaxVersion] /\ stale' \in SUBSET Nodes
          BY <2>4, <3>1 DEF on_error, clientVars, HInv, TypeOK
    <3>4. PICK us \in Seq(Updates), es \in SUBSET Nodes :
                 on_event(us, es, stage) /\ \A x \in es : x \in Nodes
      <4>1. {n} \in SUBSET Nodes  OBVIOUS
      <4> QED  BY <3>1, <3>2, <4>1, Zenon
    <3>5. /\ connection' \in Responses \cup {None}
          /\ updates' \in Seq(Updates) /\ errors' \in SUBSET Nodes
          BY <1>1, <3>4, EventKeeps
    <3>6. stage' \in [Responses -> Stages]  BY <1>1, <3>4, EventKeeps
    <3>7. payload' \in [Responses -> Seq(Updates)] /\ refuse' \in [Responses -> SUBSET Nodes]
          BY <1>1, <3>4, EventKeeps
    <3>8. ConnectionWaits' /\ NoWaitWithEvents'  BY <1>1, <3>4, EventKeeps
    <3>9. \A q \in Responses : stage'[q] = stage[q] \/ (stage[q] = "waiting" /\ stage'[q] = "taken")
          BY <1>1, <3>1 DEF on_event
    <3> QED  BY <3>3, <3>5, <3>6, <3>7, <3>8, <3>9
  <2> QED  BY <2>1, <2>2, <2>3, <2>4
<1>5. TypeOK'  BY <1>0, <1>2, <1>3, <1>4 DEF HInv, TypeOK
<1>6. \A q \in Responses :
         stage[q] \in {"subscribe", "called_back", "unsubscribe"} => at'[q] \in Nodes
      BY <1>0 DEF HInv, AtNode
<1> QED  BY <1>0, <1>1, <1>4, <1>5, <1>6, EventStep

LEMMA root_subscribeKeeps ==
    ASSUME HInv, NEW r \in Responses, UNCHANGED patient, root_subscribe(r)
    PROVE  HInv' /\ Once
<1>0. /\ stage[r] = "subscribe" /\ at[r] \in Nodes
      /\ UNCHANGED <<version, status, use_counter, idle_timer, expired, reply, second, timer, hurried,
                     interest, client, returns>>
      BY DEF root_subscribe, HInv, AtNode, listVars, clientVars
<1>1. /\ stage \in [Responses -> Stages] /\ (connection # None => stage[connection] = "waiting")
      /\ connection \in Responses \cup {None} /\ held \in [Nodes -> Responses \cup {None}]
      /\ version \in [Nodes -> 1 .. MaxVersion] /\ at \in [Responses -> Nodes \cup {None}]
      BY DEF HInv, TypeOK, ConnectionWaits
<1>2. /\ mutex' \in Responses \cup {None} /\ at' \in [Responses -> Nodes \cup {None}]
      /\ \A q \in Responses \ {r} : at'[q] = at[q]
      /\ stage'[r] # "commands" => at'[r] \in Nodes
      BY <1>0, <1>1 DEF root_subscribe
<1>3. CASE /\ stage' = [stage EXCEPT ![r] = "commands"]
           /\ UNCHANGED <<sessionVars, node_versions, held, payload, refuse, stale>>
  <2>1. stage' \in [Responses -> Stages]  BY <1>1, <1>3 DEF Stages
  <2>2. TypeOK'  BY <1>0, <1>2, <1>3, <2>1 DEF HInv, TypeOK, sessionVars
  <2>3. "commands" \in Stages \ {"free", "waiting"}  BY DEF Stages
  <2> QED  BY <1>0, <1>2, <1>3, <2>2, <2>3, RequestKeeps DEF HInv, NoWaitWithEvents, sessionVars
<1>4. ASSUME NEW to \in {"commands", "called_back"},
             on_update(at[r], version[at[r]], [stage EXCEPT ![r] = to]),
             held' = [held EXCEPT ![at[r]] = connection]
      PROVE  HInv' /\ Once
  <2> DEFINE stages == [stage EXCEPT ![r] = to]
  <2>1. stages \in [Responses -> Stages]  BY <1>1 DEF Stages
  <2>2. connection # None => stages[connection] = "waiting"  BY <1>0, <1>1
  <2>3. version[at[r]] \in 1 .. MaxVersion  BY <1>0, <1>1
  <2>4. on_update(at[r], version[at[r]], stages)  BY <1>4
  <2>5. \A q \in Responses :
          stages[q] = stage[q] \/ (stage[q] = "subscribe" /\ stages[q] \in {"commands", "called_back"})
        BY <1>0, <1>1
  <2>6. stages[r] = to  BY <1>1
  <2> HIDE DEF stages
  <2>7. /\ connection' \in Responses \cup {None}
        /\ updates' \in Seq(Updates) /\ errors' \in SUBSET Nodes
        /\ stage' \in [Responses -> Stages]
        /\ payload' \in [Responses -> Seq(Updates)] /\ refuse' \in [Responses -> SUBSET Nodes]
        /\ ConnectionWaits' /\ NoWaitWithEvents'
        /\ \A q \in Responses : stage'[q] = stages[q] \/ (stages[q] = "waiting" /\ stage'[q] = "taken")
        /\ node_versions' \in [Nodes -> 0 .. MaxVersion] /\ stale' \in SUBSET Nodes
        BY <1>0, <2>1, <2>2, <2>3, <2>4, UpdateKeeps
  <2>8. held' \in [Nodes -> Responses \cup {None}]  BY <1>1, <1>4
  <2>9. TypeOK'  BY <1>0, <1>2, <2>7, <2>8 DEF HInv, TypeOK
  <2>10. \A q \in Responses :
           stages[q] \in {"subscribe", "called_back", "unsubscribe"} => at'[q] \in Nodes
    <3>1. CASE to = "commands"
          BY <1>2, <2>5, <2>6, <3>1 DEF HInv, AtNode
    <3>2. CASE to = "called_back"
      <4>1. stage'[r] = "called_back"  BY <2>6, <2>7, <3>2
      <4> QED  BY <1>2, <2>5, <4>1 DEF HInv, AtNode
    <3> QED  BY <3>1, <3>2
  <2> QED  BY <1>0, <2>1, <2>5, <2>7, <2>9, <2>10, EventStep
<1> QED  BY <1>3, <1>4 DEF root_subscribe

-----------------------------------------------------------------------------
LEMMA HInvInit == HttpInit => HInv
<1> SUFFICES ASSUME HttpInit PROVE HInv  OBVIOUS
<1>0. <<>> \in Seq(Updates) /\ 1 \in 1 .. MaxVersion /\ 0 \in 0 .. MaxVersion  BY EmptySeq
<1>1. TypeOK  BY <1>0 DEF HttpInit, TypeOK, Stages, Interests
<1>2. Counted
  <2>1. InUse = {}  BY DEF HttpInit, InUse
  <2> QED  BY <2>1, FS_EmptySet DEF HttpInit, Counted
<1>3. AtNode /\ ConnectionWaits /\ NoWaitWithEvents /\ SessionListed
      BY DEF HttpInit, AtNode, ConnectionWaits, NoWaitWithEvents, SessionListed
<1> QED  BY <1>1, <1>2, <1>3 DEF HInv

LEMMA HInvStep ==
    ASSUME HInv, [Next]_<<vars, patient>>
    PROVE  HInv' /\ Once
<1>0. CASE UNCHANGED <<vars, patient>>  BY <1>0, QuietKeeps
<1>1. ASSUME NEW r \in Responses, RequestStep(r), UNCHANGED patient PROVE HInv' /\ Once
      BY <1>1, root_subscribeKeeps, CommandKeeps, AnswerKeeps, pending_updatesKeeps,
         wait_for_session_eventKeeps, QuietKeeps, updateKeeps, destroyKeeps DEF RequestStep
<1>2. ASSUME NEW r \in Responses, UNCHANGED patient,
             \/ TimerStep(r) \/ implement_hurry(r) \/ command_error(r) \/ find_or_create_session(r)
             \/ \E n \in Nodes : subscribe(r, n) \/ unsubscribe(r, n)
      PROVE  HInv' /\ Once
      BY <1>2, WakeUpKeeps, QuietKeeps, CommandKeeps, find_or_create_sessionKeeps DEF TimerStep
<1>3. ASSUME NEW n \in Nodes, UNCHANGED patient, root_asks(n) \/ CallBack(n) \/ release(n)
      PROVE  HInv' /\ Once
      BY <1>3, QuietKeeps, RootKeeps, releaseKeeps DEF CallBack
<1>4. ASSUME UNCHANGED patient, SessionTimer \/ shut_down PROVE HInv' /\ Once
      BY <1>4, QuietKeeps, timeout_sessionKeeps DEF SessionTimer
<1> QED  BY <1>0, <1>1, <1>2, <1>3, <1>4 DEF Next, Step, Poll

LEMMA HttpInvariant == Spec => []HInv
<1>1. HInv /\ [Next]_<<vars, patient>> => HInv'  BY HInvStep
<1> QED  BY <1>1, HInvInit, PTL DEF Spec

(* The types of the members of sessions, session_impl and response;        *)
(* use_counter_ never goes below 0, which unuse() asserts.                 *)
THEOREM HttpTypes == Spec => []TypeOK
BY HttpInvariant, PTL DEF HInv

(* on_event() and wait(): no wake up is lost.  No response waits while     *)
(* there are updates or errors that it could send.                         *)
THEOREM NoLostEvent == Spec => []NoWaitWithEvents
BY HttpInvariant, PTL DEF HInv

(* timeout_session(): the use counter is the number of the responses, so   *)
(* that the session is not removed while one of them has a pointer to it.  *)
THEOREM SessionNotRemoved == Spec => []SessionListed
BY HttpInvariant, PTL DEF HInv

(* update(), second_connection_detected(), on_time_out() and               *)
(* implement_hurry() race for a response; it is written once.              *)
THEOREM WrittenOnce == Spec => AnsweredOnce
<1>1. HInv /\ [Next]_<<vars, patient>> => [Once]_vars
      BY HInvStep
<1> QED  BY <1>1, HttpInvariant, PTL DEF Spec, AnsweredOnce, Once

-----------------------------------------------------------------------------
(* Sequences of updates *)

LEMMA UpdatesAssociate ==
    ASSUME NEW s \in Seq(Updates), NEW t \in Seq(Updates), NEW u \in Seq(Updates)
    PROVE  s \o (t \o u) = (s \o t) \o u
BY ConcatAssociative, SMTT(30)

LEMMA PrefixOfConcat ==
    ASSUME NEW s \in Seq(Updates), NEW t \in Seq(Updates)
    PROVE  /\ \A k \in 0 .. Len(s) : SubSeq(s \o t, 1, k) = SubSeq(s, 1, k)
           /\ \A k \in 0 .. Len(t) : SubSeq(s \o t, 1, Len(s) + k) = s \o SubSeq(t, 1, k)
<1>0. /\ s \o t \in Seq(Updates) /\ Len(s \o t) = Len(s) + Len(t) /\ Len(s) \in Nat /\ Len(t) \in Nat
      /\ \A i \in 1 .. Len(s) : (s \o t)[i] = s[i]
      /\ \A i \in 1 .. Len(t) : (s \o t)[Len(s) + i] = t[i]
      BY ConcatProperties
<1>1. \A u \in Seq(Updates) : \A k \in 0 .. Len(u) :
        /\ SubSeq(u, 1, k) \in Seq(Updates) /\ Len(SubSeq(u, 1, k)) = k
        /\ \A i \in 1 .. k : SubSeq(u, 1, k)[i] = u[i]
      OBVIOUS
<1>2. ASSUME NEW k \in 0 .. Len(s) PROVE SubSeq(s \o t, 1, k) = SubSeq(s, 1, k)
  <2>1. k \in 0 .. Len(s \o t)  BY <1>0
  <2>2. \A i \in 1 .. k : SubSeq(s \o t, 1, k)[i] = SubSeq(s, 1, k)[i]  BY <1>0, <1>1, <2>1
  <2> QED  BY <1>0, <1>1, <2>1, <2>2, SeqEqual
<1>3. ASSUME NEW k \in 0 .. Len(t) PROVE SubSeq(s \o t, 1, Len(s) + k) = s \o SubSeq(t, 1, k)
  <2>1. Len(s) + k \in 0 .. Len(s \o t)  BY <1>0
  <2>2. /\ SubSeq(s \o t, 1, Len(s) + k) \in Seq(Updates)
        /\ Len(SubSeq(s \o t, 1, Len(s) + k)) = Len(s) + k
        /\ \A i \in 1 .. Len(s) + k : SubSeq(s \o t, 1, Len(s) + k)[i] = (s \o t)[i]
        BY <1>0, <1>1, <2>1
  <2>3. SubSeq(t, 1, k) \in Seq(Updates) /\ Len(SubSeq(t, 1, k)) = k
        /\ \A i \in 1 .. k : SubSeq(t, 1, k)[i] = t[i]
        BY <1>1
  <2>4. /\ s \o SubSeq(t, 1, k) \in Seq(Updates) /\ Len(s \o SubSeq(t, 1, k)) = Len(s) + k
        /\ \A i \in 1 .. Len(s) + k : (s \o SubSeq(t, 1, k))[i] =
              IF i <= Len(s) THEN s[i] ELSE SubSeq(t, 1, k)[i - Len(s)]
        BY <2>3, ConcatProperties
  <2>5. ASSUME NEW i \in 1 .. Len(s) + k
        PROVE  SubSeq(s \o t, 1, Len(s) + k)[i] = (s \o SubSeq(t, 1, k))[i]
    <3>1. CASE i <= Len(s)  BY <1>0, <2>2, <2>4, <3>1, SMTT(40)
    <3>2. CASE i > Len(s)
      <4>1. i - Len(s) \in 1 .. k /\ i - Len(s) \in 1 .. Len(t) /\ Len(s) + (i - Len(s)) = i
            BY <1>0, <3>2
      <4>2. (s \o t)[i] = t[i - Len(s)]  BY <1>0, <4>1
      <4>3. (s \o SubSeq(t, 1, k))[i] = t[i - Len(s)]  BY <1>0, <2>3, <2>4, <3>2, <4>1
      <4> QED  BY <2>2, <4>2, <4>3
    <3> QED  BY <1>0, <3>1, <3>2
  <2> QED  BY <2>2, <2>4, <2>5, SeqEqual
<1> QED  BY <1>2, <1>3

IsConcat(w, s, t) ==
    /\ w \in Seq(Updates) /\ Len(w) = Len(s) + Len(t)
    /\ \A i \in 1 .. Len(s) : w[i] = s[i]
    /\ \A i \in 1 .. Len(t) : w[Len(s) + i] = t[i]

LEMMA ConcatParts ==
    ASSUME NEW s \in Seq(Updates), NEW t \in Seq(Updates), NEW w, w = s \o t
    PROVE  IsConcat(w, s, t)
BY ConcatProperties DEF IsConcat

(* The client reads s, and then t. *)
LEMMA AfterBoth ==
    ASSUME NEW s \in Seq(Updates), NEW t \in Seq(Updates), NEW w, NEW n, NEW v,
           IsConcat(w, s, t)
    PROVE  After(w, n, v) = After(t, n, After(s, n, v))
<1>0. /\ w \in Seq(Updates)
      /\ Len(w) = Len(s) + Len(t) /\ Len(s) \in Nat /\ Len(t) \in Nat
      /\ \A i \in 1 .. Len(s) : w[i] = s[i]
      /\ \A i \in 1 .. Len(t) : w[Len(s) + i] = t[i]
      BY DEF IsConcat
<1>a. \A j \in 1 .. Len(s) + Len(t) : j > Len(s) => j - Len(s) \in 1 .. Len(t) /\ w[j] = t[j - Len(s)]
  <2> SUFFICES ASSUME NEW j \in 1 .. Len(s) + Len(t), j > Len(s)
               PROVE  j - Len(s) \in 1 .. Len(t) /\ w[j] = t[j - Len(s)]
      OBVIOUS
  <2>1. j - Len(s) \in 1 .. Len(t) /\ Len(s) + (j - Len(s)) = j  BY <1>0
  <2> QED  BY <1>0, <2>1
<1>1. CASE ~Silent(t, n)
  <2>1. PICK i \in 1 .. Len(t) : IsLast(t, n, i)  BY <1>1, LastExists DEF Silent
  <2>2. Len(s) + i \in 1 .. Len(w) /\ w[Len(s) + i] = t[i]  BY <1>0
  <2>3. ASSUME NEW j \in (Len(s) + i + 1) .. Len(w) PROVE w[j].node # n
    <3>1. j \in 1 .. Len(s) + Len(t) /\ j > Len(s) /\ j - Len(s) \in (i + 1) .. Len(t)  BY <1>0
    <3>2. w[j] = t[j - Len(s)]  BY <1>a, <3>1
    <3> QED  BY <2>1, <3>1, <3>2 DEF IsLast
  <2>4. IsLast(w, n, Len(s) + i)  BY <2>1, <2>2, <2>3 DEF IsLast
  <2>a. PICK k : k = Len(s) + i  OBVIOUS
  <2>b. k \in 1 .. Len(w) /\ IsLast(w, n, k) /\ w[k] = t[i]  BY <2>2, <2>4, <2>a
  <2>c. w \in Seq(Updates)  BY <1>0
  <2>5. After(w, n, v) = t[i].to  BY <2>b, <2>c, AfterLast
  <2>6. After(t, n, After(s, n, v)) = t[i].to  BY <2>1, AfterLast
  <2> QED  BY <2>5, <2>6
<1>2. CASE Silent(t, n) /\ ~Silent(s, n)
  <2>1. PICK i \in 1 .. Len(s) : IsLast(s, n, i)  BY <1>2, LastExists DEF Silent
  <2>2. i \in 1 .. Len(w) /\ w[i] = s[i]  BY <1>0
  <2>3. ASSUME NEW j \in (i + 1) .. Len(w) PROVE w[j].node # n
    <3>1. CASE j <= Len(s)
      <4>1. j \in (i + 1) .. Len(s) /\ j \in 1 .. Len(s)  BY <1>0, <3>1
      <4> QED  BY <1>0, <2>1, <4>1 DEF IsLast
    <3>2. CASE j > Len(s)
      <4>1. j \in 1 .. Len(s) + Len(t)  BY <1>0
      <4> QED  BY <1>a, <1>2, <3>2, <4>1 DEF Silent
    <3> QED  BY <1>0, <3>1, <3>2
  <2>4. IsLast(w, n, i)  BY <2>1, <2>2, <2>3 DEF IsLast
  <2>5. After(w, n, v) = s[i].to  BY <1>0, <2>2, <2>4, AfterLast
  <2>6. After(s, n, v) = s[i].to  BY <2>1, AfterLast
  <2>7. After(t, n, After(s, n, v)) = After(s, n, v)  BY <1>2, AfterNone DEF Silent
  <2> QED  BY <2>5, <2>6, <2>7
<1>3. CASE Silent(t, n) /\ Silent(s, n)
  <2>1. \A j \in 1 .. Len(w) : w[j].node # n
    <3> SUFFICES ASSUME NEW j \in 1 .. Len(w) PROVE w[j].node # n  OBVIOUS
    <3>1. CASE j <= Len(s)
      <4>1. j \in 1 .. Len(s)  BY <1>0, <3>1
      <4> QED  BY <1>0, <1>3, <4>1 DEF Silent
    <3>2. CASE j > Len(s)
      <4>1. j \in 1 .. Len(s) + Len(t)  BY <1>0
      <4> QED  BY <1>a, <1>3, <3>2, <4>1 DEF Silent
    <3> QED  BY <1>0, <3>1, <3>2
  <2>2. After(w, n, v) = v  BY <1>0, <2>1, AfterNone
  <2>3. After(s, n, v) = v  BY <1>3, AfterNone DEF Silent
  <2>4. After(t, n, After(s, n, v)) = After(s, n, v)  BY <1>3, AfterNone DEF Silent
  <2> QED  BY <2>2, <2>3, <2>4
<1> QED  BY <1>1, <1>2, <1>3

LEMMA AfterConcat ==
    ASSUME NEW s \in Seq(Updates), NEW t \in Seq(Updates), NEW n, NEW v
    PROVE  After(s \o t, n, v) = After(t, n, After(s, n, v))
<1>1. PICK w : w = s \o t  OBVIOUS
<1>2. IsConcat(w, s, t)  BY <1>1, ConcatParts
<1>3. After(w, n, v) = After(t, n, After(s, n, v))  BY <1>2, AfterBoth
<1> QED  BY <1>1, <1>3

LEMMA LeadsSilent ==
    ASSUME NEW us \in Seq(Updates), NEW n, NEW v, Silent(us, n)
    PROVE  Leads(us, n, v, v)
<1>1. After(us, n, v) = v  BY AfterNone DEF Silent
<1> QED  BY <1>1 DEF Leads, Applies, Silent

(* An update that starts from where the others lead. *)
LEMMA LeadsAppend ==
    ASSUME NEW us \in Seq(Updates), NEW u \in Updates, NEW n, NEW v, NEW to,
           Leads(us, n, v, to), u.node = n => u.from \in {0, to}
    PROVE  Leads(us \o <<u>>, n, v, IF u.node = n THEN u.to ELSE to)
<1>a. PICK t : t = <<u>>  OBVIOUS
<1>0. t \in Seq(Updates) /\ Len(t) = 1 /\ t[1] = u  BY <1>a
<1>b. PICK w : w = us \o t  OBVIOUS
<1>1. /\ w \in Seq(Updates) /\ Len(w) = Len(us) + 1 /\ Len(us) \in Nat
      /\ \A i \in 1 .. Len(us) : w[i] = us[i]
      /\ w[Len(us) + 1] = u
  <2>0. IsConcat(w, us, t)  BY <1>0, <1>b, ConcatParts
  <2>1. /\ w \in Seq(Updates) /\ Len(w) = Len(us) + Len(t)
        /\ \A i \in 1 .. Len(us) : w[i] = us[i]
        /\ \A i \in 1 .. Len(t) : w[Len(us) + i] = t[i]
        BY <2>0 DEF IsConcat
  <2>2. w[Len(us) + 1] = t[1]  BY <1>0, <2>1
  <2> QED  BY <1>0, <2>1, <2>2
<1>2. to = After(us, n, v)  BY DEF Leads
<1>3. After(w, n, v) = IF u.node = n THEN u.to ELSE to
  <2>1. After(w, n, v) = After(t, n, to)  BY <1>0, <1>2, <1>b, AfterConcat
  <2>2. CASE u.node = n
    <3>1. IsLast(t, n, 1)  BY <1>0, <2>2 DEF IsLast
    <3>a. PICK k : k = 1  OBVIOUS
    <3>b. t \in Seq(Updates) /\ k \in 1 .. Len(t) /\ IsLast(t, n, k) /\ t[k] = u  BY <1>0, <3>1, <3>a
    <3>2. After(t, n, to) = u.to  BY <3>b, AfterLast
    <3> QED  BY <2>1, <2>2, <3>2
  <2>3. CASE u.node # n
    <3>1. \A i \in 1 .. Len(t) : t[i].node # n  BY <1>0, <2>3
    <3>2. After(t, n, to) = to  BY <1>0, <3>1, AfterNone
    <3> QED  BY <2>1, <2>3, <3>2
  <2> QED  BY <2>2, <2>3
<1>4. ASSUME NEW i \in 1 .. Len(w), w[i].node = n
      PROVE  w[i].from \in {0, After(SubSeq(w, 1, i - 1), n, v)}
  <2>1. i - 1 \in 0 .. Len(us)  BY <1>1
  <2>2. SubSeq(w, 1, i - 1) = SubSeq(us, 1, i - 1)  BY <1>0, <1>b, <2>1, PrefixOfConcat
  <2>3. CASE i \in 1 .. Len(us)
    <3>1. us[i].node = n /\ w[i].from = us[i].from  BY <1>1, <1>4, <2>3
    <3>2. us[i].from \in {0, After(SubSeq(us, 1, i - 1), n, v)}  BY <2>3, <3>1 DEF Leads, Applies
    <3> QED  BY <2>2, <3>1, <3>2
  <2>4. CASE i = Len(us) + 1
    <3>1. SubSeq(us, 1, i - 1) = us
      <4>1. i - 1 = Len(us)  BY <1>1, <2>4
      <4> QED  BY <4>1, SubSeqFull
    <3>2. w[i] = u  BY <1>1, <2>4
    <3> QED  BY <1>2, <1>4, <2>2, <3>1, <3>2
  <2> QED  BY <1>1, <2>3, <2>4
<1>5. Leads(w, n, v, IF u.node = n THEN u.to ELSE to)  BY <1>3, <1>4 DEF Leads, Applies
<1> QED  BY <1>5, <1>a, <1>b

(* Who can read s and t can read s. *)
LEMMA AppliesFirst ==
    ASSUME NEW s \in Seq(Updates), NEW t \in Seq(Updates), NEW n, NEW v, NEW to,
           Leads(s \o t, n, v, to)
    PROVE  Applies(s, n, v)
<1>1. PICK w : w = s \o t  OBVIOUS
<1>2. IsConcat(w, s, t)  BY <1>1, ConcatParts
<1>3. Len(s) \in Nat /\ Len(t) \in Nat  OBVIOUS
<1>4. ASSUME NEW i \in 1 .. Len(s), s[i].node = n
      PROVE  s[i].from \in {0, After(SubSeq(s, 1, i - 1), n, v)}
  <2>1. i \in 1 .. Len(w) /\ w[i] = s[i] /\ i - 1 \in 0 .. Len(s)  BY <1>2, <1>3 DEF IsConcat
  <2>2. w[i].from \in {0, After(SubSeq(w, 1, i - 1), n, v)}
        BY <1>1, <1>4, <2>1 DEF Leads, Applies
  <2>3. SubSeq(w, 1, i - 1) = SubSeq(s, 1, i - 1)
    <3>1. PICK k \in 0 .. Len(s) : k = i - 1  BY <2>1
    <3>2. SubSeq(s \o t, 1, k) = SubSeq(s, 1, k)  BY PrefixOfConcat, Zenon
    <3> QED  BY <1>1, <3>1, <3>2
  <2> QED  BY <2>1, <2>2, <2>3
<1> QED  BY <1>4 DEF Applies

(* When s was read, the rest leads on from there. *)
LEMMA LeadsRest ==
    ASSUME NEW s \in Seq(Updates), NEW t \in Seq(Updates), NEW n, NEW v, NEW to,
           Leads(s \o t, n, v, to)
    PROVE  Leads(t, n, After(s, n, v), to)
<1>0. /\ Len(s \o t) = Len(s) + Len(t) /\ Len(s) \in Nat /\ Len(t) \in Nat
      /\ \A i \in 1 .. Len(t) : (s \o t)[Len(s) + i] = t[i]
      BY ConcatProperties
<1>1. to = After(t, n, After(s, n, v))  BY AfterConcat DEF Leads
<1>2. ASSUME NEW i \in 1 .. Len(t), t[i].node = n
      PROVE  t[i].from \in {0, After(SubSeq(t, 1, i - 1), n, After(s, n, v))}
  <2>1. Len(s) + i \in 1 .. Len(s \o t) /\ (s \o t)[Len(s) + i] = t[i]
        /\ (Len(s) + i) - 1 = Len(s) + (i - 1) /\ i - 1 \in 0 .. Len(t)
        BY <1>0
  <2>2. t[i].from \in {0, After(SubSeq(s \o t, 1, (Len(s) + i) - 1), n, v)}
        BY <1>2, <2>1 DEF Leads, Applies
  <2>3. SubSeq(s \o t, 1, (Len(s) + i) - 1) = s \o SubSeq(t, 1, i - 1)
    <3>1. PICK k \in 0 .. Len(t) : k = i - 1  BY <2>1
    <3>2. SubSeq(s \o t, 1, Len(s) + k) = s \o SubSeq(t, 1, k)  BY PrefixOfConcat, Zenon
    <3> QED  BY <2>1, <3>1, <3>2
  <2>4. PICK p : p = SubSeq(t, 1, i - 1)  OBVIOUS
  <2>6. p \in Seq(Updates)  BY <2>1, <2>4
  <2>5. After(s \o p, n, v) = After(p, n, After(s, n, v))  BY <2>6, AfterConcat
  <2> QED  BY <2>2, <2>3, <2>4, <2>5
<1> QED  BY <1>1, <1>2 DEF Leads, Applies

-----------------------------------------------------------------------------
(* What a step does with the updates *)

SameTaken == \A r \in Responses : stage'[r] = "taken" <=> stage[r] = "taken"

Calm == SameTaken /\ UNCHANGED <<updates, payload, node_versions, interest, client, stale>>

Subscribes(n) ==
    /\ interest[n] # "yes" /\ interest' = [interest EXCEPT ![n] = "yes"]
    /\ stale' = IF Pending(n) THEN stale \cup {n} ELSE stale
    /\ SameTaken /\ UNCHANGED <<updates, payload, node_versions, client>>

Unsubscribes(n) ==
    /\ interest' = [interest EXCEPT ![n] = "no"]
    /\ client' = [client EXCEPT ![n] = 0]
    /\ node_versions' = [node_versions EXCEPT ![n] = 0]
    /\ stale' = stale \ {n}
    /\ SameTaken /\ UNCHANGED <<updates, payload>>

Sends(r) ==
    /\ stage[r] = "commands" /\ updates' = <<>>
    /\ Read(updates, errors) \/ (updates = <<>> /\ UNCHANGED <<interest, client, stale>>)
    /\ SameTaken /\ UNCHANGED <<payload, node_versions>>

Event(us, es) ==
    /\ \E stages \in [Responses -> Stages] :
         /\ \A q \in Responses : stages[q] = "taken" <=> stage[q] = "taken"
         /\ connection # None => stages[connection] = "waiting"
         /\ on_event(us, es, stages)
    /\ UNCHANGED <<interest, client>>

Updated(u) ==
    /\ u.from \in {0, node_versions[u.node]}
    /\ stale' = IF interest[u.node] = "yes" THEN stale ELSE stale \cup {u.node}
    /\ node_versions' = [node_versions EXCEPT ![u.node] = u.to]
    /\ Event(<<u>>, {})

Failed(n) == UNCHANGED <<node_versions, stale>> /\ Event(<<>>, {n})

Flow ==
    \/ Calm
    \/ \E n \in Nodes : Subscribes(n) \/ Unsubscribes(n) \/ Failed(n)
    \/ \E r \in Responses : Sends(r) \/ wait_for_session_event(r) \/ update(r)
    \/ \E u \in Updates : Updated(u)

-----------------------------------------------------------------------------
(* The response that was taken *)

LEMMA InHandIs ==
    ASSUME OneInFlight, patient, NEW r \in Responses, stage[r] = "taken"
    PROVE  InHand = payload[r]
<1>1. \A q \in Responses : stage[q] = "taken" => q = r  BY DEF OneInFlight, InFlight
<1>2. (CHOOSE q \in Responses : stage[q] = "taken") = r  BY <1>1
<1> QED  BY <1>2 DEF InHand

LEMMA InHandNone ==
    ASSUME \A q \in Responses : stage[q] # "taken"
    PROVE  InHand = <<>>
BY DEF InHand

LEMMA InHandType ==
    ASSUME HInv
    PROVE  InHand \in Seq(Updates)
<1>1. CASE \E r \in Responses : stage[r] = "taken"
  <2>1. PICK r : r = CHOOSE q \in Responses : stage[q] = "taken"  OBVIOUS
  <2>2. r \in Responses /\ InHand = payload[r]  BY <1>1, <2>1 DEF InHand
  <2> QED  BY <2>2 DEF HInv, TypeOK
<1>2. CASE \A r \in Responses : stage[r] # "taken"  BY <1>2, InHandNone, EmptySeq
<1> QED  BY <1>1, <1>2

(* What the two say of the next state. *)
Hand ==
    /\ \A r \in Responses : stage[r] = "taken" => InHand = payload[r]
    /\ (\A q \in Responses : stage[q] # "taken") => InHand = <<>>

LEMMA HandKnown == OneInFlight /\ patient => Hand
BY InHandIs, InHandNone DEF Hand

LEMMA HandSame ==
    ASSUME Hand, Hand', SameTaken, UNCHANGED payload
    PROVE  InHand' = InHand
<1>1. CASE \E r \in Responses : stage[r] = "taken"  BY <1>1 DEF Hand, SameTaken
<1>2. CASE \A r \in Responses : stage[r] # "taken"  BY <1>2 DEF Hand, SameTaken
<1> QED  BY <1>1, <1>2

-----------------------------------------------------------------------------
(* InStep, for each of these *)

LEMMA CalmInStep ==
    ASSUME InStep, Hand, Hand', Calm, UNCHANGED patient
    PROVE  InStep'
<1>1. InHand' = InHand  BY HandSame DEF Calm
<1> QED  BY <1>1 DEF InStep, Calm

LEMMA SubscribesInStep ==
    ASSUME HInv, Forgotten, InStep, patient, Hand, Hand', UNCHANGED patient,
           NEW n \in Nodes, Subscribes(n)
    PROVE  InStep'
<1>1. InHand' = InHand /\ updates' = updates /\ client' = client /\ node_versions' = node_versions
      BY HandSame DEF Subscribes
<1>2. interest \in [Nodes -> Interests] /\ updates \in Seq(Updates) /\ InHand \in Seq(Updates)
      BY InHandType DEF HInv, TypeOK
<1>3. PICK w : w = InHand \o updates  OBVIOUS
<1>4. w \in Seq(Updates)  BY <1>2, <1>3, ConcatProperties
<1>5. ASSUME NEW m \in Nodes, interest'[m] = "yes", m \notin stale'
      PROVE  Leads(w, m, client[m], node_versions[m])
  <2>1. CASE m = n
    <3>1. ~Pending(n) /\ n \notin stale  BY <1>5, <2>1 DEF Subscribes
    <3>2. client[n] = 0 /\ node_versions[n] = 0  BY <3>1 DEF Forgotten, Subscribes
    <3>3. Silent(w, n)  BY <1>3, <3>1 DEF Pending, Silent
    <3>4. Leads(w, n, 0, 0)  BY <1>4, <3>3, LeadsSilent
    <3> QED  BY <2>1, <3>2, <3>4
  <2>2. CASE m # n
    <3>1. interest[m] = "yes" /\ m \notin stale  BY <1>2, <1>5, <2>2 DEF Subscribes
    <3> QED  BY <1>3, <3>1 DEF InStep
  <2> QED  BY <2>1, <2>2
<1> QED  BY <1>1, <1>3, <1>5 DEF InStep

LEMMA UnsubscribesInStep ==
    ASSUME HInv, InStep, patient, Hand, Hand', UNCHANGED patient,
           NEW n \in Nodes, Unsubscribes(n)
    PROVE  InStep'
<1>1. InHand' = InHand /\ updates' = updates  BY HandSame DEF Unsubscribes
<1>2. interest \in [Nodes -> Interests] /\ client \in [Nodes -> 0 .. MaxVersion]
      /\ node_versions \in [Nodes -> 0 .. MaxVersion]
      BY DEF HInv, TypeOK
<1>3. ASSUME NEW m \in Nodes, interest'[m] = "yes", m \notin stale'
      PROVE  /\ interest[m] = "yes" /\ m \notin stale
             /\ client'[m] = client[m] /\ node_versions'[m] = node_versions[m]
      BY <1>2, <1>3 DEF Unsubscribes
<1> QED  BY <1>1, <1>3 DEF InStep

(* What the client has read. *)
LEMMA ReadLeads ==
    ASSUME HInv, NEW us \in Seq(Updates), NEW rest \in Seq(Updates), NEW es, Read(us, es),
           NEW n \in Nodes, interest'[n] = "yes",
           interest[n] = "yes" => Leads(us \o rest, n, client[n], node_versions[n])
    PROVE  Leads(rest, n, client'[n], node_versions[n])
<1>1. interest[n] = "yes" /\ n \notin es  BY DEF Read, HInv, TypeOK
<1>2. client'[n] = After(us, n, client[n])  BY <1>1 DEF Read
<1>3. PICK v : v = client[n]  OBVIOUS
<1>4. PICK to : to = node_versions[n]  OBVIOUS
<1>5. Leads(us \o rest, n, v, to)  BY <1>1, <1>3, <1>4
<1>6. Leads(rest, n, After(us, n, v), to)  BY <1>5, LeadsRest
<1> QED  BY <1>2, <1>3, <1>4, <1>6

LEMMA SendsInStep ==
    ASSUME HInv, InStep, OneInFlight, patient, Hand, Hand', UNCHANGED patient,
           NEW r \in Responses, Sends(r)
    PROVE  InStep'
<1>1. \A q \in Responses : stage[q] # "taken" /\ stage'[q] # "taken"
      BY DEF Sends, OneInFlight, InFlight, SameTaken
<1>2. InHand = <<>> /\ InHand' = <<>> /\ updates' = <<>> /\ node_versions' = node_versions
      BY <1>1 DEF Hand, Sends
<1>3. updates \in Seq(Updates) /\ <<>> \in Seq(Updates)  BY EmptySeq DEF HInv, TypeOK
<1>4. <<>> \o updates = updates /\ <<>> \o <<>> = <<>> /\ updates \o <<>> = updates
      BY <1>3, ConcatEmptySeq
<1>5. \A n \in Nodes : interest[n] = "yes" /\ n \notin stale =>
          Leads(updates, n, client[n], node_versions[n])
      BY <1>2, <1>4 DEF InStep
<1>6. ASSUME NEW n \in Nodes, interest'[n] = "yes", n \notin stale'
      PROVE  Leads(<<>>, n, client'[n], node_versions[n])
  <2>1. CASE Read(updates, errors)
    <3>1. PICK rest \in Seq(Updates) : rest = <<>>  BY <1>3
    <3>0. n \notin stale  BY <1>6, <2>1 DEF Read
    <3>2. interest[n] = "yes" => Leads(updates \o rest, n, client[n], node_versions[n])
          BY <1>4, <1>5, <3>0, <3>1
    <3>3. Leads(rest, n, client'[n], node_versions[n])  BY <1>3, <1>6, <2>1, <3>2, ReadLeads
    <3> QED  BY <3>1, <3>3
  <2>2. CASE updates = <<>> /\ UNCHANGED <<interest, client, stale>>
        BY <1>5, <1>6, <2>2
  <2> QED  BY <2>1, <2>2 DEF Sends
<1> QED  BY <1>2, <1>4, <1>6 DEF InStep

LEMMA updateInStep ==
    ASSUME HInv, InStep, OneInFlight, patient, Hand, Hand', UNCHANGED patient,
           NEW r \in Responses, update(r)
    PROVE  InStep'
<1>1. \A q \in Responses : stage'[q] # "taken"
  <2>1. stage \in [Responses -> Stages] /\ stage[r] = "taken"
        /\ stage' = [stage EXCEPT ![r] = "writing"]
        BY DEF update, Write, HInv, TypeOK
  <2>2. \A q \in Responses : stage[q] = "taken" => q = r  BY <2>1 DEF OneInFlight, InFlight
  <2> QED  BY <2>1, <2>2
<1>2. InHand = payload[r] /\ InHand' = <<>> /\ updates' = updates /\ node_versions' = node_versions
      /\ Read(payload[r], refuse[r])
      BY <1>1 DEF Hand, update, sessionVars
<1>3. updates \in Seq(Updates) /\ payload[r] \in Seq(Updates)  BY DEF HInv, TypeOK
<1>4. <<>> \o updates = updates  BY <1>3, ConcatEmptySeq
<1>5. ASSUME NEW n \in Nodes, interest'[n] = "yes", n \notin stale'
      PROVE  Leads(updates, n, client'[n], node_versions[n])
  <2>1. PICK us \in Seq(Updates) : us = payload[r]  BY <1>3
  <2>2. PICK es : es = refuse[r]  OBVIOUS
  <2>0. n \notin stale  BY <1>2, <1>5 DEF Read
  <2>3. interest[n] = "yes" => Leads(us \o updates, n, client[n], node_versions[n])
        BY <1>2, <2>0, <2>1 DEF InStep
  <2>4. Read(us, es)  BY <1>2, <2>1, <2>2
  <2> QED  BY <1>3, <1>5, <2>3, <2>4, ReadLeads
<1> QED  BY <1>2, <1>4, <1>5 DEF InStep

(* wait(): who has a request at a time does not replace another response. *)
LEMMA wait_for_session_eventInStep ==
    ASSUME HInv, InStep, OneInFlight, patient, Hand, Hand', UNCHANGED patient,
           NEW r \in Responses, wait_for_session_event(r)
    PROVE  InStep'
<1>0. stage \in [Responses -> Stages] /\ updates \in Seq(Updates) /\ <<>> \in Seq(Updates)
      /\ payload \in [Responses -> Seq(Updates)]
      BY EmptySeq DEF HInv, TypeOK
<1>1. stage[r] = "armed" /\ UNCHANGED <<node_versions, interest, client, stale>> /\ updates' = <<>>
      /\ payload' = [payload EXCEPT ![r] = updates]
      BY DEF wait_for_session_event, clientVars
<1>2. \A q \in Responses \ {r} : stage[q] \in {"free", "written"}
      BY <1>1 DEF OneInFlight, InFlight
<1>3. InHand = <<>>  BY <1>1, <1>2 DEF Hand
<1>4. <<>> \o updates = updates /\ <<>> \o <<>> = <<>> /\ updates \o <<>> = updates
      BY <1>0, ConcatEmptySeq
<1>5. \A q \in Responses \ {r} : stage'[q] # "taken"
      BY <1>2 DEF wait_for_session_event
<1>6. InHand' = updates
  <2>1. CASE updates # <<>> \/ errors # {}
    <3>1. stage'[r] = "taken"  BY <2>1 DEF wait_for_session_event
    <3>2. payload'[r] = updates  BY <1>0, <1>1
    <3> QED  BY <3>1, <3>2 DEF Hand
  <2>2. CASE updates = <<>> /\ errors = {}
    <3>1. stage'[r] = "waiting"  BY <2>2 DEF wait_for_session_event
    <3> QED  BY <1>5, <2>2, <3>1 DEF Hand
  <2> QED  BY <2>1, <2>2
<1>7. InHand' \o updates' = InHand \o updates  BY <1>1, <1>3, <1>4, <1>6
<1> QED  BY <1>1, <1>7 DEF InStep

(* on_event() puts the updates us behind the others. *)
LEMMA EventPending ==
    ASSUME HInv, OneInFlight, patient, Hand, Hand', NEW us \in Seq(Updates), NEW es, Event(us, es)
    PROVE  InHand' \o updates' = (InHand \o updates) \o us
<1>0. PICK stages \in [Responses -> Stages] :
         /\ \A q \in Responses : stages[q] = "taken" <=> stage[q] = "taken"
         /\ connection # None => stages[connection] = "waiting"
         /\ on_event(us, es, stages)
      BY DEF Event
<1>1. updates \in Seq(Updates) /\ payload \in [Responses -> Seq(Updates)]
      /\ connection \in Responses \cup {None} /\ InHand \in Seq(Updates)
      BY InHandType DEF HInv, TypeOK
<1>2. CASE connection # None
  <2>1. updates = <<>> /\ stage[connection] = "waiting" /\ connection \in Responses
        BY <1>1, <1>2 DEF HInv, NoWaitWithEvents, ConnectionWaits
  <2>2. \A q \in Responses : stage[q] # "taken"  BY <2>1 DEF OneInFlight, InFlight
  <2>3. InHand = <<>>  BY <2>2 DEF Hand
  <2>4. <<>> \o us = us /\ us \o <<>> = us /\ <<>> \o <<>> = <<>>
        BY ConcatEmptySeq, EmptySeq
  <2>5. stage'[connection] = "taken" /\ payload'[connection] = updates \o us /\ updates' = <<>>
        BY <1>0, <1>1, <1>2, <2>1 DEF on_event
  <2>6. InHand' = us  BY <2>1, <2>4, <2>5 DEF Hand
  <2> QED  BY <2>1, <2>3, <2>4, <2>5, <2>6
<1>3. CASE connection = None
  <2>1. updates' = updates \o us /\ stage' = stages /\ UNCHANGED payload
        BY <1>0, <1>3 DEF on_event
  <2>2. InHand' = InHand  BY <1>0, <2>1, HandSame DEF SameTaken
  <2>3. InHand \o (updates \o us) = (InHand \o updates) \o us
    <3>1. InHand \in Seq(Updates) /\ updates \in Seq(Updates) /\ us \in Seq(Updates)  BY <1>0, <1>1
    <3> QED  BY <3>1, UpdatesAssociate, SMTT(30)
  <2> QED  BY <2>1, <2>2, <2>3
<1> QED  BY <1>2, <1>3

LEMMA FailedInStep ==
    ASSUME HInv, InStep, OneInFlight, patient, Hand, Hand', UNCHANGED patient,
           NEW n \in Nodes, Failed(n)
    PROVE  InStep'
<1>1. PICK us, es : us \in Seq(Updates) /\ us = <<>> /\ Event(us, es)
      BY EmptySeq, Zenon DEF Failed
<1>2. InHand' \o updates' = (InHand \o updates) \o us  BY <1>1, EventPending
<1>3. InHand \in Seq(Updates) /\ updates \in Seq(Updates)  BY InHandType DEF HInv, TypeOK
<1>4. PICK w \in Seq(Updates) : w = InHand \o updates  BY <1>3, ConcatProperties
<1>5. w \o us = w  BY <1>1, ConcatEmptySeq
<1>6. InHand' \o updates' = InHand \o updates  BY <1>2, <1>4, <1>5
<1>7. UNCHANGED <<interest, client, node_versions, stale>>  BY DEF Failed, Event
<1> QED  BY <1>6, <1>7 DEF InStep

LEMMA UpdatedInStep ==
    ASSUME HInv, InStep, OneInFlight, patient, Hand, Hand', UNCHANGED patient,
           NEW u \in Updates, Updated(u)
    PROVE  InStep'
<1>1. PICK us, es : us = <<u>> /\ Event(us, es)  BY DEF Updated
<1>2. us \in Seq(Updates)  BY <1>1
<1>3. InHand' \o updates' = (InHand \o updates) \o us  BY <1>1, <1>2, EventPending
<1>4. InHand \in Seq(Updates) /\ updates \in Seq(Updates)  BY InHandType DEF HInv, TypeOK
<1>5. PICK w \in Seq(Updates) : w = InHand \o updates  BY <1>4, ConcatProperties
<1>6. UNCHANGED <<interest, client>> /\ u.from \in {0, node_versions[u.node]}
      /\ node_versions' = [node_versions EXCEPT ![u.node] = u.to]
      /\ node_versions \in [Nodes -> 0 .. MaxVersion]
      BY DEF Updated, Event, HInv, TypeOK
<1>7. ASSUME NEW n \in Nodes, interest[n] = "yes", n \notin stale
      PROVE  Leads(w \o us, n, client[n], node_versions'[n])
  <2>1. PICK v, to : v = client[n] /\ to = node_versions[n]  OBVIOUS
  <2>2. Leads(w, n, v, to)  BY <1>5, <1>7, <2>1 DEF InStep
  <2>3. u.node = n => u.from \in {0, to}  BY <1>6, <2>1
  <2>4. Leads(w \o <<u>>, n, v, IF u.node = n THEN u.to ELSE to)  BY <2>2, <2>3, LeadsAppend
  <2>5. node_versions'[n] = IF u.node = n THEN u.to ELSE to  BY <1>6, <2>1
  <2> QED  BY <1>1, <2>1, <2>4, <2>5
<1>8. \A n \in Nodes : n \notin stale' => n \notin stale  BY DEF Updated
<1> QED  BY <1>3, <1>5, <1>6, <1>7, <1>8 DEF InStep

LEMMA FlowInStep ==
    ASSUME HInv, Forgotten, InStep, OneInFlight, OneInFlight', UNCHANGED patient, Flow
    PROVE  InStep'
<1>1. CASE patient
  <2>1. Hand /\ Hand'
    <3>1. Hand  BY <1>1, HandKnown
    <3>2. (OneInFlight /\ patient => Hand)'  BY HandKnown, PTL
    <3> QED  BY <1>1, <3>1, <3>2
  <2> QED  BY <1>1, <2>1, CalmInStep, SubscribesInStep, UnsubscribesInStep, FailedInStep,
              SendsInStep, wait_for_session_eventInStep, updateInStep, UpdatedInStep
           DEF Flow
<1>2. CASE ~patient  BY <1>2 DEF InStep
<1> QED  BY <1>1, <1>2

-----------------------------------------------------------------------------
(* What the session knows of nodes to which the client is not subscribed *)

(* What the client reads fits, unless the session knows a version that the *)
(* client dropped; so it gives up no subscription for another reason than  *)
(* an error, and that only makes known versions stale.                     *)
LEMMA ReadForgotten ==
    ASSUME HInv, Forgotten, NEW us \in Seq(Updates), NEW es, Read(us, es), UNCHANGED node_versions,
           \A n \in Nodes : patient /\ interest[n] = "yes" /\ n \notin stale => Applies(us, n, client[n]),
           UNCHANGED patient
    PROVE  Forgotten'
<1> SUFFICES ASSUME NEW n \in Nodes, interest'[n] # "yes"
             PROVE  client'[n] = 0 /\ (patient /\ n \notin stale' => node_versions[n] = 0)
    BY DEF Forgotten
<1>1. client'[n] = 0  BY DEF Read
<1>2. ASSUME patient, n \notin stale' PROVE node_versions[n] = 0
  <2>1. n \notin stale /\ (n \in es => node_versions[n] = 0)  BY <1>2 DEF Read
  <2>2. CASE n \in es  BY <2>1, <2>2
  <2>3. CASE interest[n] # "yes"  BY <1>2, <2>1, <2>3 DEF Forgotten
  <2>4. CASE n \notin es /\ interest[n] = "yes"
    <3>1. Applies(us, n, client[n])  BY <1>2, <2>1, <2>4
    <3>2. interest'[n] = "yes"  BY <2>4, <3>1 DEF Read
    <3> QED  BY <3>2
  <2> QED  BY <2>2, <2>3, <2>4
<1> QED  BY <1>1, <1>2

LEMMA FlowForgotten ==
    ASSUME HInv, Forgotten, InStep, OneInFlight, UNCHANGED patient, Flow
    PROVE  Forgotten'
<1>0. /\ interest \in [Nodes -> Interests] /\ client \in [Nodes -> 0 .. MaxVersion]
      /\ node_versions \in [Nodes -> 0 .. MaxVersion] /\ payload \in [Responses -> Seq(Updates)]
      /\ updates \in Seq(Updates)
      BY DEF HInv, TypeOK
<1>1. CASE Calm  BY <1>1 DEF Calm, Forgotten
<1>2. ASSUME NEW m \in Nodes, Subscribes(m) PROVE Forgotten'
  <2>1. \A n \in Nodes : interest'[n] # "yes" => interest[n] # "yes"
        BY <1>0, <1>2 DEF Subscribes
  <2>2. stale \subseteq stale' /\ UNCHANGED <<client, node_versions>>  BY <1>2 DEF Subscribes
  <2> QED  BY <2>1, <2>2 DEF Forgotten
<1>3. ASSUME NEW m \in Nodes, Unsubscribes(m) PROVE Forgotten'
  <2>1. client'[m] = 0 /\ node_versions'[m] = 0  BY <1>0, <1>3 DEF Unsubscribes
  <2>2. \A n \in Nodes : n # m =>
          /\ interest'[n] = interest[n] /\ client'[n] = client[n]
          /\ node_versions'[n] = node_versions[n] /\ (n \in stale' <=> n \in stale)
        BY <1>0, <1>3 DEF Unsubscribes
  <2> QED  BY <2>1, <2>2 DEF Forgotten
<1>4. ASSUME NEW m \in Nodes, Failed(m) PROVE Forgotten'
      BY <1>4 DEF Failed, Event, Forgotten
<1>5. ASSUME NEW u \in Updates, Updated(u) PROVE Forgotten'
  <2>1. /\ UNCHANGED <<interest, client>>
        /\ node_versions' = [node_versions EXCEPT ![u.node] = u.to]
        /\ stale' = IF interest[u.node] = "yes" THEN stale ELSE stale \cup {u.node}
        BY <1>5 DEF Updated, Event
  <2> QED  BY <1>0, <2>1 DEF Forgotten
<1>6. ASSUME NEW r \in Responses, wait_for_session_event(r) PROVE Forgotten'
      BY <1>6 DEF wait_for_session_event, clientVars, Forgotten
<1>7. ASSUME NEW r \in Responses, Sends(r) PROVE Forgotten'
  <2>1. UNCHANGED node_versions  BY <1>7 DEF Sends
  <2>2. CASE UNCHANGED <<interest, client, stale>>  BY <2>1, <2>2 DEF Forgotten
  <2>3. CASE Read(updates, errors)
    <3>1. ASSUME NEW n \in Nodes, patient, interest[n] = "yes", n \notin stale
          PROVE  Applies(updates, n, client[n])
      <4>1. InHand = <<>>  BY <1>7, <3>1, HandKnown DEF Sends, OneInFlight, InFlight, Hand
      <4>2. InHand \o updates = updates  BY <1>0, <4>1, ConcatEmptySeq
      <4> QED  BY <3>1, <4>2 DEF InStep, Leads
    <3> QED  BY <1>0, <2>1, <2>3, <3>1, ReadForgotten
  <2> QED  BY <1>7, <2>2, <2>3 DEF Sends
<1>8. ASSUME NEW r \in Responses, update(r) PROVE Forgotten'
  <2>1. UNCHANGED node_versions /\ Read(payload[r], refuse[r]) /\ stage[r] = "taken"
        BY <1>8 DEF update
  <2>2. PICK us \in Seq(Updates) : us = payload[r]  BY <1>0
  <2>3. PICK es : es = refuse[r]  OBVIOUS
  <2>4. ASSUME NEW n \in Nodes, patient, interest[n] = "yes", n \notin stale
        PROVE  Applies(us, n, client[n])
    <3>1. InHand = us  BY <2>1, <2>2, <2>4, HandKnown DEF Hand
    <3>2. Leads(us \o updates, n, client[n], node_versions[n])  BY <2>4, <3>1 DEF InStep
    <3>3. PICK v, to : v = client[n] /\ to = node_versions[n]  OBVIOUS
    <3>4. Leads(us \o updates, n, v, to)  BY <3>2, <3>3
    <3>5. Applies(us, n, v)  BY <1>0, <3>4, AppliesFirst
    <3> QED  BY <3>3, <3>5
  <2>5. Read(us, es)  BY <2>1, <2>2, <2>3
  <2> QED  BY <2>1, <2>4, <2>5, ReadForgotten
<1> QED  BY <1>1, <1>2, <1>3, <1>4, <1>5, <1>6, <1>7, <1>8 DEF Flow

-----------------------------------------------------------------------------
(* Every step is one of these *)

Arrives ==
    patient => \A q, r \in Responses : InFlight(q)' /\ InFlight(r)' =>
        q = r \/ (InFlight(q) /\ InFlight(r))

Kind == Arrives /\ Flow

LEMMA QuietKind ==
    ASSUME HInv,
           \/ \E r \in Responses : command_error(r) \/ expire(r) \/ wait_returns(r)
           \/ \E n \in Nodes : root_asks(n) \/ root_answers_quietly(n)
           \/ session_expires \/ shut_down \/ timeout_session \/ UNCHANGED vars
    PROVE  Kind
<1>1. UNCHANGED <<updates, payload, node_versions, interest, client, stale, stage>>
      BY DEF command_error, expire, wait_returns, root_asks, root_answers_quietly,
             session_expires, shut_down, timeout_session, vars, sessionVars, responseVars, clientVars
<1>2. Arrives /\ SameTaken  BY <1>1 DEF Arrives, InFlight, SameTaken
<1> QED  BY <1>1, <1>2 DEF Kind, Flow, Calm

LEMMA find_or_create_sessionKind ==
    ASSUME HInv, NEW r \in Responses, find_or_create_session(r)
    PROVE  Kind
<1>0. /\ stage \in [Responses -> Stages] /\ stage' = [stage EXCEPT ![r] = "commands"]
      /\ stage[r] = "free" /\ (patient => \A q \in Responses : ~InFlight(q))
      /\ UNCHANGED <<updates, payload, node_versions, interest, client, stale>>
      BY DEF find_or_create_session, HInv, TypeOK, sessionVars, clientVars
<1>1. SameTaken  BY <1>0 DEF SameTaken
<1>2. \A q \in Responses : InFlight(q)' => InFlight(q) \/ q = r  BY <1>0 DEF InFlight
<1>3. Arrives  BY <1>0, <1>2 DEF Arrives
<1> QED  BY <1>0, <1>1, <1>3 DEF Kind, Flow, Calm

LEMMA StageKind ==
    ASSUME HInv, NEW r \in Responses,
           \/ destroy(r) \/ root_unsubscribe(r) \/ subscribe_returns(r) \/ answer_commands(r)
           \/ response_written(r) \/ on_time_out(r) \/ implement_hurry(r)
    PROVE  Kind
<1>0. stage \in [Responses -> Stages] /\ (connection = r => stage[r] = "waiting")
      BY DEF HInv, TypeOK, ConnectionWaits
<1>1. UNCHANGED <<updates, payload, node_versions, interest, client, stale>>
      BY DEF destroy, root_unsubscribe, subscribe_returns, answer_commands, response_written,
             on_time_out, implement_hurry, sessionVars, clientVars
<1>2. PICK to \in {"free", "commands", "writing", "written"} :
           /\ stage' = stage \/ stage' = [stage EXCEPT ![r] = to]
           /\ stage[r] # "taken" \/ stage' = stage
           /\ to \in {"commands", "writing"} /\ stage' # stage => InFlight(r)
  <2>1. CASE destroy(r)  BY <2>1 DEF destroy, LastReference, idle_session
  <2>2. CASE root_unsubscribe(r) \/ subscribe_returns(r) \/ answer_commands(r) \/ response_written(r)
        BY <2>2 DEF root_unsubscribe, subscribe_returns, answer_commands, response_written, InFlight
  <2>3. CASE on_time_out(r) \/ implement_hurry(r)
        BY <1>0, <2>3 DEF on_time_out, implement_hurry, wake_up, session_wake_up, InFlight
  <2> QED  BY <2>1, <2>2, <2>3
<1>3. SameTaken  BY <1>0, <1>2 DEF SameTaken
<1>4. \A q \in Responses : InFlight(q)' => InFlight(q)  BY <1>0, <1>2 DEF InFlight
<1> QED  BY <1>1, <1>3, <1>4 DEF Kind, Flow, Calm, Arrives

LEMMA releaseKind ==
    ASSUME HInv, NEW n \in Nodes, release(n)
    PROVE  Kind
<1>0. held[n] \in Responses /\ stage \in [Responses -> Stages]
      BY DEF release, HInv, TypeOK
<1>1. UNCHANGED <<updates, payload, node_versions, interest, client, stale>>
      BY DEF release, sessionVars, clientVars
<1>2. \/ UNCHANGED stage
      \/ stage[held[n]] = "written" /\ stage' = [stage EXCEPT ![held[n]] = "free"]
      BY DEF release, idle_session
<1>3. SameTaken  BY <1>0, <1>1, <1>2 DEF SameTaken
<1>4. \A q \in Responses : InFlight(q)' => InFlight(q)  BY <1>0, <1>2 DEF InFlight
<1> QED  BY <1>1, <1>3, <1>4 DEF Kind, Flow, Calm, Arrives

(* A request moves on from the stage in which it is. *)
LEMMA MoveKind ==
    ASSUME HInv, NEW r \in Responses, NEW to, stage' = [stage EXCEPT ![r] = to], InFlight(r)
    PROVE  Arrives
<1>0. stage \in [Responses -> Stages]  BY DEF HInv, TypeOK
<1>1. \A q \in Responses : InFlight(q)' => InFlight(q)  BY <1>0 DEF InFlight
<1> QED  BY <1>1 DEF Arrives

LEMMA subscribeKind ==
    ASSUME HInv, NEW r \in Responses, NEW n \in Nodes, subscribe(r, n)
    PROVE  Kind
<1>0. stage \in [Responses -> Stages]  BY DEF HInv, TypeOK
<1>1. /\ stage[r] = "commands" /\ stage' = [stage EXCEPT ![r] = "subscribe"]
      /\ interest[n] # "yes" /\ interest' = [interest EXCEPT ![n] = "yes"]
      /\ stale' = IF Pending(n) THEN stale \cup {n} ELSE stale
      /\ UNCHANGED <<updates, payload, node_versions, client>>
      BY DEF subscribe, sessionVars
<1>2. SameTaken  BY <1>0, <1>1 DEF SameTaken
<1>3. Arrives  BY <1>1, MoveKind DEF InFlight
<1>4. Subscribes(n)  BY <1>1, <1>2 DEF Subscribes
<1> QED  BY <1>3, <1>4 DEF Kind, Flow

LEMMA unsubscribeKind ==
    ASSUME HInv, NEW r \in Responses, NEW n \in Nodes, unsubscribe(r, n)
    PROVE  Kind
<1>0. stage \in [Responses -> Stages]  BY DEF HInv, TypeOK
<1>1. /\ stage[r] = "commands" /\ stage' = [stage EXCEPT ![r] = "unsubscribe"]
      /\ interest' = [interest EXCEPT ![n] = "no"]
      /\ client' = [client EXCEPT ![n] = 0]
      /\ node_versions' = [node_versions EXCEPT ![n] = 0]
      /\ stale' = stale \ {n}
      /\ UNCHANGED <<updates, payload>>
      BY DEF unsubscribe, sessionVars
<1>2. SameTaken  BY <1>0, <1>1 DEF SameTaken
<1>3. Arrives  BY <1>1, MoveKind DEF InFlight
<1>4. Unsubscribes(n)  BY <1>1, <1>2 DEF Unsubscribes
<1> QED  BY <1>3, <1>4 DEF Kind, Flow

LEMMA pending_updatesKind ==
    ASSUME HInv, NEW r \in Responses, pending_updates(r)
    PROVE  Kind
<1>0. stage \in [Responses -> Stages]  BY DEF HInv, TypeOK
<1>1. /\ stage[r] = "commands" /\ updates' = <<>>
      /\ Read(updates, errors) \/ (updates = <<>> /\ UNCHANGED <<interest, client, stale>>)
      /\ UNCHANGED <<payload, node_versions>>
      BY DEF pending_updates, clientVars
<1>2. PICK to \in {"writing", "armed"} : stage' = [stage EXCEPT ![r] = to]
      BY DEF pending_updates
<1>3. SameTaken  BY <1>0, <1>1, <1>2 DEF SameTaken
<1>4. Arrives  BY <1>1, <1>2, MoveKind DEF InFlight
<1>5. Sends(r)  BY <1>1, <1>3 DEF Sends
<1> QED  BY <1>4, <1>5 DEF Kind, Flow

LEMMA wait_for_session_eventKind ==
    ASSUME HInv, NEW r \in Responses, wait_for_session_event(r)
    PROVE  Kind
<1>1. stage[r] = "armed"  BY DEF wait_for_session_event
<1>2. \A q \in Responses :
        \/ q = r /\ stage'[q] \in {"taken", "waiting"}
        \/ q = connection /\ stage'[q] = "writing" /\ stage[q] = "waiting"
        \/ stage'[q] = stage[q]
      BY DEF wait_for_session_event, HInv, TypeOK, ConnectionWaits
<1>3. \A q \in Responses : InFlight(q)' => InFlight(q)  BY <1>1, <1>2 DEF InFlight
<1> QED  BY <1>3 DEF Kind, Flow, Arrives

LEMMA updateKind ==
    ASSUME HInv, NEW r \in Responses, update(r)
    PROVE  Kind
<1>1. stage[r] = "taken" /\ stage' = [stage EXCEPT ![r] = "writing"]
      BY DEF update, Write
<1>2. Arrives  BY <1>1, MoveKind DEF InFlight
<1> QED  BY <1>2 DEF Kind, Flow

(* on_event(): what is taken was waiting. *)
LEMMA EventKind ==
    ASSUME HInv, NEW us, NEW es, NEW stages \in [Responses -> Stages], on_event(us, es, stages),
           connection # None => stages[connection] = "waiting",
           \A q \in Responses :
               stages[q] = stage[q] \/ (stage[q] = "subscribe" /\ stages[q] \in {"commands", "called_back"}),
           UNCHANGED <<interest, client>>
    PROVE  Arrives /\ Event(us, es)
<1>1. \A q \in Responses : stage'[q] = stages[q] \/ (stages[q] = "waiting" /\ stage'[q] = "taken")
      BY DEF on_event
<1>2. \A q \in Responses : InFlight(q)' => InFlight(q)  BY <1>1 DEF InFlight
<1>3. \A q \in Responses : stages[q] = "taken" <=> stage[q] = "taken"  OBVIOUS
<1>4. Event(us, es)  BY <1>3 DEF Event
<1> QED  BY <1>2, <1>4 DEF Arrives

LEMMA on_updateKind ==
    ASSUME HInv, NEW n \in Nodes, NEW to \in 1 .. MaxVersion,
           NEW stages \in [Responses -> Stages], on_update(n, to, stages),
           connection # None => stages[connection] = "waiting",
           \A q \in Responses :
               stages[q] = stage[q] \/ (stage[q] = "subscribe" /\ stages[q] \in {"commands", "called_back"}),
           UNCHANGED <<interest, client>>
    PROVE  Kind
<1>0. node_versions \in [Nodes -> 0 .. MaxVersion]  BY DEF HInv, TypeOK
<1>1. PICK from \in {0, node_versions[n]} :
           on_event(<<[node |-> n, from |-> from, to |-> to]>>, {}, stages)
      BY DEF on_update
<1>2. PICK u : u = [node |-> n, from |-> from, to |-> to]  OBVIOUS
<1>3. u \in Updates /\ u.node = n /\ u.from = from /\ u.to = to  BY <1>0, <1>2 DEF Updates
<1>4. PICK us, es : us = <<u>> /\ es = {}  OBVIOUS
<1>5. on_event(us, es, stages)  BY <1>1, <1>2, <1>4
<1>6. Arrives /\ Event(us, es)  BY <1>5, EventKind
<1>7. /\ node_versions' = [node_versions EXCEPT ![n] = to]
      /\ stale' = IF interest[n] = "yes" THEN stale ELSE stale \cup {n}
      BY DEF on_update
<1>8. Updated(u)  BY <1>1, <1>3, <1>4, <1>6, <1>7 DEF Updated
<1> QED  BY <1>3, <1>6, <1>8 DEF Kind, Flow

LEMMA RootKind ==
    ASSUME HInv, NEW n \in Nodes, root_admits(n) \/ change_data(n) \/ on_error(n)
    PROVE  Kind
<1>0. /\ stage \in [Responses -> Stages] /\ (connection # None => stage[connection] = "waiting")
      /\ version \in [Nodes -> 1 .. MaxVersion]
      BY DEF HInv, TypeOK, ConnectionWaits
<1>1. UNCHANGED <<interest, client>>  BY DEF root_admits, change_data, on_error, clientVars
<1>2. CASE root_admits(n)
  <2>1. on_update(n, version[n], stage)  BY <1>2 DEF root_admits
  <2>2. PICK to \in 1 .. MaxVersion : on_update(n, to, stage)  BY <1>0, <2>1
  <2> QED  BY <1>0, <1>1, <2>2, on_updateKind
<1>3. CASE change_data(n) /\ me \in subs[n]
  <2>1. on_update(n, version[n] + 1, stage) /\ version[n] < MaxVersion  BY <1>3 DEF change_data
  <2>2. PICK to \in 1 .. MaxVersion : on_update(n, to, stage)
    <3>1. version[n] + 1 \in 1 .. MaxVersion  BY <1>0, <2>1
    <3> QED  BY <2>1, <3>1
  <2> QED  BY <1>0, <1>1, <2>2, on_updateKind
<1>4. CASE change_data(n) /\ me \notin subs[n]
  <2>1. UNCHANGED <<updates, payload, node_versions, stage, stale>>
        BY <1>4 DEF change_data, sessionVars
  <2>2. Arrives /\ SameTaken  BY <2>1 DEF Arrives, InFlight, SameTaken
  <2> QED  BY <1>1, <2>1, <2>2 DEF Kind, Flow, Calm
<1>5. CASE on_error(n)
  <2>1. on_event(<<>>, {n}, stage) /\ UNCHANGED <<node_versions, stale>>
        BY <1>5 DEF on_error, clientVars
  <2>2. PICK us, es : us = <<>> /\ es = {n}  OBVIOUS
  <2>3. on_event(us, es, stage)  BY <2>1, <2>2
  <2>4. Arrives /\ Event(us, es)  BY <1>0, <1>1, <2>3, EventKind
  <2>5. Failed(n)  BY <2>1, <2>2, <2>4 DEF Failed
  <2> QED  BY <2>4, <2>5 DEF Kind, Flow
<1> QED  BY <1>2, <1>3, <1>4, <1>5

LEMMA root_subscribeKind ==
    ASSUME HInv, NEW r \in Responses, root_subscribe(r)
    PROVE  Kind
<1>0. /\ stage \in [Responses -> Stages] /\ (connection # None => stage[connection] = "waiting")
      /\ version \in [Nodes -> 1 .. MaxVersion] /\ connection \in Responses \cup {None}
      BY DEF HInv, TypeOK, ConnectionWaits
<1>1. PICK n \in Nodes : n = at[r] /\ stage[r] = "subscribe"
      BY DEF root_subscribe, HInv, AtNode
<1>2. UNCHANGED <<interest, client>>  BY DEF root_subscribe
<1>3. CASE /\ stage' = [stage EXCEPT ![r] = "commands"]
           /\ UNCHANGED <<sessionVars, node_versions, payload, stale>>
  <2>1. Arrives  BY <1>1, <1>3, MoveKind DEF InFlight
  <2>2. SameTaken  BY <1>0, <1>1, <1>3 DEF SameTaken
  <2>3. Calm  BY <1>2, <1>3, <2>2 DEF Calm, sessionVars
  <2> QED  BY <2>1, <2>3 DEF Kind, Flow
<1>4. ASSUME NEW to \in {"commands", "called_back"},
             on_update(n, version[n], [stage EXCEPT ![r] = to])
      PROVE  Kind
  <2>1. PICK stages : stages = [stage EXCEPT ![r] = to]  OBVIOUS
  <2>2. stages \in [Responses -> Stages]  BY <1>0, <2>1 DEF Stages
  <2>3. /\ connection # None => stages[connection] = "waiting"
        /\ \A q \in Responses : stages[q] = stage[q] \/ (stage[q] = "subscribe" /\ stages[q] = to)
        BY <1>0, <1>1, <2>1
  <2>4. PICK v \in 1 .. MaxVersion : on_update(n, v, stages)  BY <1>0, <1>4, <2>1
  <2> QED  BY <1>2, <2>2, <2>3, <2>4, on_updateKind
<1> QED  BY <1>1, <1>3, <1>4 DEF root_subscribe

LEMMA StepKind ==
    ASSUME HInv, [Next]_<<vars, patient>>
    PROVE  Kind
<1>0. CASE UNCHANGED <<vars, patient>>  BY <1>0, QuietKind
<1>1. ASSUME NEW r \in Responses, RequestStep(r) PROVE Kind
      BY <1>1, root_subscribeKind, StageKind, pending_updatesKind, wait_for_session_eventKind,
         QuietKind, updateKind DEF RequestStep
<1>2. ASSUME NEW r \in Responses,
             \/ TimerStep(r) \/ implement_hurry(r) \/ command_error(r) \/ find_or_create_session(r)
             \/ \E n \in Nodes : subscribe(r, n) \/ unsubscribe(r, n)
      PROVE  Kind
      BY <1>2, StageKind, QuietKind, subscribeKind, unsubscribeKind, find_or_create_sessionKind
         DEF TimerStep
<1>3. ASSUME NEW n \in Nodes, root_asks(n) \/ CallBack(n) \/ release(n) PROVE Kind
      BY <1>3, QuietKind, RootKind, releaseKind DEF CallBack
<1>4. ASSUME SessionTimer \/ shut_down PROVE Kind
      BY <1>4, QuietKind DEF SessionTimer
<1> QED  BY <1>0, <1>1, <1>2, <1>3, <1>4 DEF Next, Step, Poll

LEMMA VInvInit == HttpInit => VInv
<1> SUFFICES ASSUME HttpInit PROVE VInv  OBVIOUS
<1>1. OneInFlight  BY DEF HttpInit, OneInFlight, InFlight
<1>2. Forgotten  BY DEF HttpInit, Forgotten
<1>3. InStep  BY DEF HttpInit, InStep
<1> QED  BY <1>1, <1>2, <1>3 DEF VInv

LEMMA VInvStep ==
    ASSUME HInv, VInv, [Next]_<<vars, patient>>
    PROVE  VInv'
<1>0. OneInFlight /\ Forgotten /\ InStep  BY DEF VInv
<1>1. Kind  BY StepKind
<1>2. UNCHANGED patient  BY DEF Next
<1>3. OneInFlight'  BY <1>0, <1>1, <1>2 DEF Kind, Arrives, OneInFlight
<1>4. Forgotten'  BY <1>0, <1>1, <1>2, FlowForgotten DEF Kind
<1>5. InStep'  BY <1>0, <1>1, <1>2, <1>3, FlowInStep DEF Kind
<1> QED  BY <1>3, <1>4, <1>5 DEF VInv

(* connector.h: "from" is the version the updated object must have.  The   *)
(* updates that are stored or taken can be applied in their order, from    *)
(* the version that the client has up to the one in node_versions_, also   *)
(* when it left the node and subscribed again.  This does not hold for the *)
(* nodes of which the session knows a version that the client dropped      *)
(* (stale), which is what unsubscribe() should forget.                     *)
THEOREM UpdatesApply == Spec => []InStep
<1>1. HInv /\ VInv /\ [Next]_<<vars, patient>> => VInv'  BY VInvStep
<1> QED  BY <1>1, HttpInvariant, VInvInit, PTL DEF Spec, VInv
=============================================================================
