----------------------- MODULE BayeuxConnectorProofs -----------------------
(***************************************************************************)
(* The use counts of bayeux::connector protect the plain pointers of the   *)
(* responses, for any number of sessions and responses.                    *)
(***************************************************************************)
EXTENDS BayeuxConnector, FiniteSetTheorems, TLAPS

CountType ==
    /\ status \in [Sessions -> {"unborn", "live", "dead"}]
    /\ use_count \in [Sessions -> Nat]
    /\ session \in [Responses -> Sessions \cup {None}]

(* A handshake may leak a use, but no use is ever missing. *)
Counted == \A s \in Sessions : Cardinality(Holders(s)) <= use_count[s]

CountedExactly ==
    OneHandshake => \A s \in Sessions : use_count[s] = Cardinality(Holders(s))

CInv == CountType /\ PointersValid /\ Counted /\ CountedExactly

-----------------------------------------------------------------------------
(* The steps, by what they do to the use counts. *)

Take(r, s) ==
    /\ status[s] = "live" /\ session[r] = None
    /\ session' = [session EXCEPT ![r] = s]
    /\ use_count' = [use_count EXCEPT ![s] = @ + 1]
    /\ UNCHANGED status

Return(r) ==
    /\ session[r] # None
    /\ session' = [session EXCEPT ![r] = None]
    /\ use_count' = [use_count EXCEPT ![session[r]] = @ - 1]
    /\ UNCHANGED status

Born(r, s) ==
    /\ status[s] = "unborn"
    /\ OneHandshake => session[r] = None
    /\ status' = [status EXCEPT ![s] = "live"]
    /\ session' = [session EXCEPT ![r] = s]
    /\ use_count' = [use_count EXCEPT ![s] = 1]

Lose(r) ==
    /\ OneHandshake => session[r] = None
    /\ session' = [session EXCEPT ![r] = None]
    /\ UNCHANGED <<status, use_count>>

Remove(s) ==
    /\ use_count[s] = 0
    /\ status' = [status EXCEPT ![s] = "dead"]
    /\ UNCHANGED <<use_count, session>>

Skip == UNCHANGED <<status, use_count, session>>

-----------------------------------------------------------------------------
(* Holders(s) under an assignment to one session_. *)

LEMMA HoldersFinite ==
    ASSUME NEW s \in Sessions
    PROVE  /\ IsFiniteSet(Holders(s))
           /\ Cardinality(Holders(s)) \in Nat
           /\ Cardinality(Holders(s)) = 0 <=> Holders(s) = {}
<1>1. Holders(s) \subseteq Responses  BY DEF Holders
<1>2. IsFiniteSet(Holders(s))  BY <1>1, FS_Subset, ConnectorAssumption
<1> QED  BY <1>2, FS_CardinalityType, FS_EmptySet

(* A response that takes s becomes one of its holders. *)
LEMMA HoldersGrow ==
    ASSUME session \in [Responses -> Sessions \cup {None}],
           NEW r \in Responses, NEW s \in Sessions, session[r] # s,
           session' = [session EXCEPT ![r] = s]
    PROVE  Cardinality(Holders(s)') = Cardinality(Holders(s)) + 1
<1>1. Holders(s)' = Holders(s) \cup {r}  BY DEF Holders
<1>2. r \notin Holders(s)  BY DEF Holders
<1>3. IsFiniteSet(Holders(s))  BY HoldersFinite
<1>4. Cardinality(Holders(s) \cup {r}) = Cardinality(Holders(s)) + 1
      BY <1>2, <1>3, FS_AddElement
<1> QED  BY <1>1, <1>4

(* A response that gives s away for something else is none any more. *)
LEMMA HoldersShrink ==
    ASSUME session \in [Responses -> Sessions \cup {None}],
           NEW r \in Responses, NEW s \in Sessions, session[r] = s,
           NEW x, x # s,
           session' = [session EXCEPT ![r] = x]
    PROVE  Cardinality(Holders(s)') = Cardinality(Holders(s)) - 1
<1>1. Holders(s)' = Holders(s) \ {r}  BY DEF Holders
<1>2. r \in Holders(s)  BY DEF Holders
<1>3. IsFiniteSet(Holders(s))  BY HoldersFinite
<1>4. Cardinality(Holders(s) \ {r}) = Cardinality(Holders(s)) - 1
      BY <1>2, <1>3, FS_RemoveElement
<1> QED  BY <1>1, <1>4

(* Nobody else's holders change. *)
LEMMA HoldersSame ==
    ASSUME session \in [Responses -> Sessions \cup {None}],
           NEW r \in Responses, NEW s \in Sessions, session[r] # s,
           NEW x, x # s,
           session' = [session EXCEPT ![r] = x]
    PROVE  Holders(s)' = Holders(s)
BY DEF Holders

-----------------------------------------------------------------------------
LEMMA TakeKeeps ==
    ASSUME CInv, NEW r \in Responses, NEW s \in Sessions, Take(r, s)
    PROVE  CInv'
<1>1. CountType'  BY DEF CInv, CountType, Take
<1>2. PointersValid'  BY ConnectorAssumption DEF CInv, CountType, PointersValid, Take
<1>3. Cardinality(Holders(s)') = Cardinality(Holders(s)) + 1 /\ use_count'[s] = use_count[s] + 1
      BY HoldersGrow, ConnectorAssumption DEF CInv, CountType, Take
<1>4. ASSUME NEW t \in Sessions, t # s
      PROVE  Holders(t)' = Holders(t) /\ use_count'[t] = use_count[t]
      BY <1>4, HoldersSame, ConnectorAssumption DEF CInv, CountType, Take
<1>5. \A t \in Sessions : Cardinality(Holders(t)) \in Nat /\ use_count[t] \in Nat
      BY HoldersFinite DEF CInv, CountType
<1>6. Counted'  BY <1>3, <1>4, <1>5 DEF CInv, Counted
<1>7. CountedExactly'  BY <1>3, <1>4 DEF CInv, CountedExactly
<1> QED  BY <1>1, <1>2, <1>6, <1>7 DEF CInv

LEMMA ReturnKeeps ==
    ASSUME CInv, NEW r \in Responses, Return(r)
    PROVE  CInv'
<1>0. PICK s \in Sessions : s = session[r]  BY DEF CInv, CountType, Return
<1>3. Cardinality(Holders(s)') = Cardinality(Holders(s)) - 1 /\ use_count'[s] = use_count[s] - 1
      BY <1>0, HoldersShrink, ConnectorAssumption DEF CInv, CountType, Return
<1>4. ASSUME NEW t \in Sessions, t # s
      PROVE  Holders(t)' = Holders(t) /\ use_count'[t] = use_count[t]
      BY <1>0, <1>4, HoldersSame, ConnectorAssumption DEF CInv, CountType, Return
<1>5. \A t \in Sessions : Cardinality(Holders(t)) \in Nat /\ use_count[t] \in Nat
      BY HoldersFinite DEF CInv, CountType
<1>6. Holders(s) # {}  BY <1>0 DEF Holders
<1>7. use_count[s] >= 1  BY <1>0, <1>5, <1>6, HoldersFinite DEF CInv, Counted
<1>1. CountType'
  <2>1. use_count' \in [Sessions -> Nat]  BY <1>0, <1>7 DEF CInv, CountType, Return
  <2> QED  BY <2>1 DEF CInv, CountType, Return
<1>2. PointersValid'  BY ConnectorAssumption DEF CInv, CountType, PointersValid, Return
<1>8. Counted'  BY <1>0, <1>3, <1>4, <1>5 DEF CInv, Counted
<1>9. CountedExactly'  BY <1>0, <1>3, <1>4 DEF CInv, CountedExactly
<1> QED  BY <1>1, <1>2, <1>8, <1>9 DEF CInv

LEMMA BornKeeps ==
    ASSUME CInv, NEW r \in Responses, NEW s \in Sessions, Born(r, s)
    PROVE  CInv'
<1>1. CountType'  BY DEF CInv, CountType, Born
<1>2. PointersValid'  BY ConnectorAssumption DEF CInv, CountType, PointersValid, Born
<1>3. Holders(s) = {}  BY ConnectorAssumption DEF CInv, CountType, PointersValid, Born, Holders
<1>4. session[r] # s  BY <1>3 DEF Holders
<1>5. Cardinality(Holders(s)') = 1 /\ use_count'[s] = 1
  <2>1. Cardinality(Holders(s)') = Cardinality(Holders(s)) + 1
        BY <1>4, HoldersGrow DEF CInv, CountType, Born
  <2>2. Cardinality(Holders(s)) = 0  BY <1>3, FS_EmptySet
  <2> QED  BY <2>1, <2>2 DEF CInv, CountType, Born
<1>6. ASSUME NEW t \in Sessions, t # s
      PROVE  /\ use_count'[t] = use_count[t]
             /\ Cardinality(Holders(t)') <= Cardinality(Holders(t))
             /\ OneHandshake => Cardinality(Holders(t)') = Cardinality(Holders(t))
  <2>1. CASE session[r] = t
    <3>1. Cardinality(Holders(t)') = Cardinality(Holders(t)) - 1
          BY <1>6, <2>1, HoldersShrink DEF CInv, CountType, Born
    <3> QED  BY <1>6, <2>1, <3>1, HoldersFinite, ConnectorAssumption DEF CInv, CountType, Born
  <2>2. CASE session[r] # t
    <3>1. Holders(t)' = Holders(t)
          BY <1>6, <2>2, HoldersSame DEF CInv, CountType, Born
    <3> QED  BY <1>6, <3>1, HoldersFinite DEF CInv, CountType, Born
  <2> QED  BY <2>1, <2>2
<1>7. \A t \in Sessions : /\ Cardinality(Holders(t)) \in Nat /\ use_count[t] \in Nat
                          /\ Cardinality(Holders(t)') \in Nat
  <2>1. \A t \in Sessions : Cardinality(Holders(t)) \in Nat  BY HoldersFinite
  <2>2. ASSUME NEW t \in Sessions PROVE Cardinality(Holders(t)') \in Nat
    <3>1. Holders(t)' \subseteq Responses  BY DEF Holders
    <3> QED  BY <3>1, FS_Subset, FS_CardinalityType, ConnectorAssumption
  <2> QED  BY <2>1, <2>2 DEF CInv, CountType
<1>8. Counted'  BY <1>5, <1>6, <1>7 DEF CInv, Counted
<1>9. CountedExactly'  BY <1>5, <1>6 DEF CInv, CountedExactly
<1> QED  BY <1>1, <1>2, <1>8, <1>9 DEF CInv

LEMMA LoseKeeps ==
    ASSUME CInv, NEW r \in Responses, Lose(r)
    PROVE  CInv'
<1>1. CountType'  BY DEF CInv, CountType, Lose
<1>2. PointersValid'  BY DEF CInv, CountType, PointersValid, Lose
<1>3. ASSUME NEW t \in Sessions
      PROVE  /\ Cardinality(Holders(t)') <= Cardinality(Holders(t))
             /\ Cardinality(Holders(t)') \in Nat
             /\ OneHandshake => Cardinality(Holders(t)') = Cardinality(Holders(t))
  <2>1. Holders(t)' \subseteq Holders(t)
        BY ConnectorAssumption DEF CInv, CountType, Lose, Holders
  <2>2. OneHandshake => Holders(t)' = Holders(t)
        BY ConnectorAssumption DEF CInv, CountType, Lose, Holders
  <2> QED  BY <2>1, <2>2, HoldersFinite, FS_Subset, FS_CardinalityType
<1>4. \A t \in Sessions : Cardinality(Holders(t)) \in Nat /\ use_count[t] \in Nat
      BY HoldersFinite DEF CInv, CountType
<1>5. Counted'  BY <1>3, <1>4 DEF CInv, Counted, Lose
<1>6. CountedExactly'  BY <1>3 DEF CInv, CountedExactly, Lose
<1> QED  BY <1>1, <1>2, <1>5, <1>6 DEF CInv

(* A session with the use count 0 has no holder, whatever was leaked. *)
LEMMA UnusedFree ==
    ASSUME CInv, NEW s \in Sessions, use_count[s] = 0
    PROVE  Holders(s) = {}
BY HoldersFinite DEF CInv, Counted

LEMMA RemoveKeeps ==
    ASSUME CInv, NEW s \in Sessions, Remove(s)
    PROVE  CInv'
<1>1. CountType'  BY DEF CInv, CountType, Remove
<1>2. Holders(s) = {}  BY UnusedFree DEF Remove
<1>3. PointersValid'  BY <1>2 DEF CInv, CountType, PointersValid, Remove, Holders
<1>4. \A t \in Sessions : Holders(t)' = Holders(t)  BY DEF Remove, Holders
<1> QED  BY <1>1, <1>3, <1>4 DEF CInv, Counted, CountedExactly, Remove

LEMMA SkipKeeps ==
    ASSUME CInv, Skip
    PROVE  CInv'
BY DEF CInv, CountType, PointersValid, Counted, CountedExactly, Holders, Skip

-----------------------------------------------------------------------------
(* The stages of the responses. *)

FlowType ==
    /\ waiting \in [Sessions -> Responses \cup {None}]
    /\ released \in Responses \cup {None}
    /\ stage \in [Responses -> Stages]
    /\ blocking \in [Responses -> Blocking]
    /\ writes \in [Responses -> Nat]
    /\ target \in [Responses -> Sessions \cup {None}]

(* Between the two halves of check_session() a response has no session. *)
Searching ==
    \A r \in Responses : stage[r] = "finding" => session[r] = None /\ target[r] \in Sessions

(* Between a connect that blocks and the next field, the response handles  *)
(* no message.                                                             *)
BlocksLast ==
    \A r \in Responses : blocking[r] = "last" => stage[r] \in {"new", "done", "gone"}

(* A response that waits blocks, and if no other field was begun since, it *)
(* uses the session; and it is not destroyed.                              *)
WaitersBlocked ==
    \A s \in Sessions : waiting[s] # None =>
        /\ stage[waiting[s]] # "gone"
        /\ \/ blocking[waiting[s]] = "last" /\ session[waiting[s]] = s
           \/ blocking[waiting[s]] = "more"

FInv == FlowType /\ Searching /\ BlocksLast /\ WaitersBlocked

(* Every step is one of the six kinds. *)
LEMMA CountKinds ==
    ASSUME CInv, FInv, Next
    PROVE  \/ \E r \in Responses : Return(r) \/ Lose(r)
           \/ \E r \in Responses, s \in Sessions : Take(r, s) \/ Born(r, s)
           \/ \E s \in Sessions : Remove(s)
           \/ Skip
<1> USE DEF connectorVars, shutVars, formVars, responseVars
<1>1. ASSUME NEW r \in Responses, start(r) \/ connect(r) \/ finish(r) \/ null_session(r)
             \/ response_written(r)
      PROVE  Skip
      BY <1>1 DEF start, connect, finish, null_session, response_written, Skip
<1>2. ASSUME NEW r \in Responses, handshake(r)
      PROVE  Lose(r) \/ \E s \in Sessions : Born(r, s)
      BY <1>2 DEF handshake, Lose, Born
<1>3. ASSUME NEW r \in Responses, NEW s \in Sessions, check_session(r, s)
      PROVE  Return(r) \/ Skip
      BY <1>3 DEF check_session, idle_session, Return, Skip
<1>4. ASSUME NEW r \in Responses, find_session(r)
      PROVE  Skip \/ \E s \in Sessions : Take(r, s)
  <2>1. session[r] = None /\ target[r] \in Sessions
        BY <1>4 DEF FInv, Searching, find_session
  <2> QED  BY <1>4, <2>1 DEF find_session, Take, Skip
<1>5. ASSUME NEW r \in Responses, destroy(r)
      PROVE  Return(r) \/ Skip
      BY <1>5 DEF destroy, idle_session, Return, Skip
<1>6. ASSUME NEW s \in Sessions, session_timeout_reached(s) \/ drop_session(s)
      PROVE  Remove(s) \/ Skip
      BY <1>6 DEF session_timeout_reached, drop_session, Remove, Skip
<1>7. ASSUME NEW s \in Sessions, messages(s) \/ expire(s) \/ shut_down_session(s)
      PROVE  Skip
      BY <1>7 DEF messages, expire, shut_down_session, Skip
<1>8. ASSUME shut_down \/ shut_down_release \/ shut_down_end
      PROVE  Skip
      BY <1>8 DEF shut_down, shut_down_release, shut_down_end, Skip
<1> QED  BY <1>1, <1>2, <1>3, <1>4, <1>5, <1>6, <1>7, <1>8
         DEF Next, MessageStep, ResponseStep, ShutDownStep

LEMMA CountStep ==
    ASSUME CInv, FInv, [Next]_vars
    PROVE  CInv'
<1>1. CASE Next
      BY <1>1, CountKinds, TakeKeeps, ReturnKeeps, BornKeeps, LoseKeeps, RemoveKeeps, SkipKeeps
<1>2. CASE UNCHANGED vars
      BY <1>2, SkipKeeps DEF vars, connectorVars, formVars, responseVars, Skip
<1> QED  BY <1>1, <1>2

LEMMA FlowStep ==
    ASSUME CInv, FInv, [Next]_vars
    PROVE  FInv'
<1> USE ConnectorAssumption DEF connectorVars, shutVars, formVars, responseVars
<1>0. /\ waiting \in [Sessions -> Responses \cup {None}]
      /\ released \in Responses \cup {None}
      /\ stage \in [Responses -> Stages]
      /\ blocking \in [Responses -> Blocking]
      /\ writes \in [Responses -> Nat]
      /\ target \in [Responses -> Sessions \cup {None}]
      /\ session \in [Responses -> Sessions \cup {None}]
      BY DEF CInv, CountType, FInv, FlowType
<1>i. Searching /\ BlocksLast /\ WaitersBlocked  BY DEF FInv
<1>w. ASSUME NEW rs, Write(rs) PROVE writes' \in [Responses -> Nat]  BY <1>0, <1>w DEF Write
<1>e. ASSUME NEW r \in Responses, EndField(r)
      PROVE  \E next \in {"new", "done"} : stage' = [stage EXCEPT ![r] = next]
      BY <1>e DEF EndField
<1> USE DEF FInv, FlowType, Searching, BlocksLast, WaitersBlocked, Stages, Blocking
<1>1. ASSUME NEW r \in Responses, start(r)
      PROVE  FInv'
      BY <1>0, <1>i, <1>1 DEF start
<1>2. ASSUME NEW r \in Responses, handshake(r)
      PROVE  FInv'
      BY <1>0, <1>i, <1>2 DEF handshake
<1>3. ASSUME NEW r \in Responses, NEW s \in Sessions, check_session(r, s)
      PROVE  FInv'
      BY <1>0, <1>i, <1>3 DEF check_session
<1>4. ASSUME NEW r \in Responses, find_session(r)
      PROVE  FInv'
      BY <1>0, <1>i, <1>4 DEF find_session
<1>5. ASSUME NEW r \in Responses, connect(r)
      PROVE  FInv'
  <2>1. /\ stage[r] = "busy" /\ session[r] \in Sessions
        /\ waiting' = [waiting EXCEPT ![session[r]] = r]
        /\ blocking' = [blocking EXCEPT ![r] = IF @ = "more" THEN "more" ELSE "last"]
        /\ UNCHANGED <<released, session, target>>
        BY <1>0, <1>5 DEF connect
  <2>2. writes' \in [Responses -> Nat]  BY <1>w, <1>5 DEF connect
  <2>3. PICK next \in {"new", "done"} : stage' = [stage EXCEPT ![r] = next]
        BY <1>e, <1>5 DEF connect
  <2>4. blocking[r] # "last"  BY <1>i, <2>1
  <2> QED  BY <1>0, <1>i, <2>1, <2>2, <2>3, <2>4
<1>5a. ASSUME NEW r \in Responses, finish(r)
      PROVE  FInv'
  <2>1. stage[r] = "busy" /\ UNCHANGED <<waiting, released, blocking, session, target>>
        BY <1>5a DEF finish
  <2>2. writes' \in [Responses -> Nat]  BY <1>0, <1>w, <1>5a DEF finish
  <2>3. PICK next \in {"new", "done"} : stage' = [stage EXCEPT ![r] = next]
        BY <1>e, <1>5a DEF finish
  <2> QED  BY <1>0, <1>i, <2>1, <2>2, <2>3
<1>5b. ASSUME NEW r \in Responses, null_session(r)
      PROVE  FInv'
      BY <1>0, <1>i, <1>5b DEF null_session
<1>5c. ASSUME NEW r \in Responses, response_written(r)
      PROVE  FInv'
      BY <1>0, <1>i, <1>5c DEF response_written
<1>6. ASSUME NEW r \in Responses, destroy(r)
      PROVE  FInv'
      BY <1>0, <1>i, <1>6 DEF destroy, Unreferenced
<1>7. ASSUME NEW s \in Sessions, messages(s)
      PROVE  FInv'
  <2>1. writes' \in [Responses -> Nat]  BY <1>w, <1>7 DEF messages
  <2> QED  BY <1>0, <1>i, <1>7, <2>1 DEF messages
<1>8. ASSUME NEW s \in Sessions, session_timeout_reached(s)
      PROVE  FInv'
      BY <1>0, <1>i, <1>8 DEF session_timeout_reached
<1>9. ASSUME NEW s \in Sessions, expire(s) \/ drop_session(s)
      PROVE  FInv'
      BY <1>0, <1>i, <1>9 DEF expire, drop_session
<1>10. ASSUME NEW s \in Sessions, shut_down_session(s)
      PROVE  FInv'
  <2>1. writes' \in [Responses -> Nat]  BY <1>w, <1>10 DEF shut_down_session
  <2> QED  BY <1>0, <1>i, <1>10, <2>1 DEF shut_down_session
<1>11. ASSUME shut_down \/ shut_down_release \/ shut_down_end
      PROVE  FInv'
      BY <1>0, <1>i, <1>11 DEF shut_down, shut_down_release, shut_down_end
<1>12. CASE UNCHANGED vars
      BY <1>0, <1>i, <1>12 DEF vars
<1> QED  BY <1>1, <1>2, <1>3, <1>4, <1>5, <1>5a, <1>5b, <1>5c, <1>6, <1>7, <1>8, <1>9, <1>10,
            <1>11, <1>12
         DEF Next, MessageStep, ResponseStep, ShutDownStep

-----------------------------------------------------------------------------
LEMMA Inductive == Spec => [](CInv /\ FInv)
<1>1. Init => CInv
  <2> SUFFICES ASSUME Init PROVE CInv  OBVIOUS
  <2>1. \A s \in Sessions : Holders(s) = {}  BY ConnectorAssumption DEF Init, Holders
  <2>2. Counted /\ CountedExactly
        BY <2>1, FS_EmptySet DEF Init, Counted, CountedExactly
  <2> QED  BY <2>2 DEF Init, CInv, CountType, PointersValid
<1>2. Init => FInv
      BY DEF Init, FInv, FlowType, Searching, BlocksLast, WaitersBlocked, Stages, Blocking
<1> QED  BY <1>1, <1>2, CountStep, FlowStep, PTL DEF Spec

(* The session_ of a response never dangles: no order of requests, late    *)
(* timers, drop_session() and shut_down() removes a session that a         *)
(* response still points to, leaked uses included.                         *)
THEOREM NoDanglingSession == Spec => []PointersValid
BY Inductive, PTL DEF CInv

(* A session is removed, and closed, with no response waiting on it, but   *)
(* for those of forms that went on after their connect (response.h:371).   *)
THEOREM NobodyWaitsOnRemoved == Spec => []WaitersHold
<1>1. FInv => WaitersHold  BY DEF FInv, WaitersBlocked, WaitersHold
<1> QED  BY Inductive, <1>1, PTL

(* As long as a request has at most one handshake, and that as its first   *)
(* message, use_count_ is the number of the responses that use a session.  *)
THEOREM EveryUseReturned == OneHandshake /\ Spec => []ReturnedWhenUnused
<1>1. OneHandshake /\ CInv => ReturnedWhenUnused
      BY DEF CInv, CountedExactly, ReturnedWhenUnused
<1> SUFFICES ASSUME OneHandshake PROVE Spec => []ReturnedWhenUnused  OBVIOUS
<1> QED  BY Inductive, <1>1, PTL
=============================================================================
