------------------------ MODULE BayeuxSessionProofs ------------------------
(***************************************************************************)
(* What module BayeuxSession promises, proved for any number of responses, *)
(* nodes and messages.  The responses that wait: none is forgotten, none   *)
(* is answered twice in its first field, and none waits while there are    *)
(* messages.  The client that subscribes: its acknowledgement can always   *)
(* come, and, if it waits for its answers, it is handed over before the    *)
(* first update, and is true.                                              *)
(***************************************************************************)
EXTENDS BayeuxSession, TLAPS

(* The part of the state the argument is about. *)
HttpType ==
    /\ http_connection \in Responses \cup {None}
    /\ stage \in [Responses -> Stages]
    /\ fields \in [Responses -> Nat]
    /\ blocking \in SUBSET Responses /\ filled \in SUBSET Responses
    /\ evicts \in [Responses -> Responses \cup {None}]
    /\ answers \in [Responses -> Nat] /\ written \in [Responses -> Nat]

(* Nobody answers a request that has not come yet. *)
Fresh ==
    \A r \in Responses : fields[r] = 0 =>
        stage[r] = "new" /\ answers[r] = 0 /\ r \notin blocking

(* The response in http_connection_ waits for its one answer, if it is in  *)
(* its first field. *)
Connected ==
    http_connection # None =>
        /\ fields[http_connection] > 0
        /\ fields[http_connection] = 1 => answers[http_connection] = 0

(* So does a response that was replaced, as long as it has not been told,  *)
(* and it is in nobody's hands but those of the thread that replaced it.   *)
Evicted ==
    \A q \in Responses : evicts[q] # None =>
        /\ stage[q] = "entered" /\ fields[evicts[q]] > 0
        /\ fields[evicts[q]] = 1 =>
             answers[evicts[q]] = 0 /\ evicts[q] # http_connection

Distinct ==
    \A p, q \in Responses :
        evicts[p] # None /\ evicts[p] = evicts[q] /\ fields[evicts[p]] = 1 => p = q

HInv ==
    HttpType /\ Fresh /\ Connected /\ Evicted /\ Distinct /\ AnsweredOnce /\ NobodyForgotten

-----------------------------------------------------------------------------
(* The steps, by what they do to the responses. *)

ReleaseStep ==
    /\ http_connection # None
    /\ http_connection' = None
    /\ answers' = [answers EXCEPT ![http_connection] = @ + 1]
    /\ UNCHANGED <<formVars, evicts, written>>

Stutter == UNCHANGED <<http_connection, formVars, evicts, answers, written>>

(* Adding messages releases the response that waits, or touches none. *)
LEMMA NotifySteps ==
    ASSUME NEW new, add_messages_and_notify(new), UNCHANGED <<formVars, evicts, written>>
    PROVE  ReleaseStep \/ Stutter
BY DEF add_messages_and_notify, Release, ReleaseStep, Stutter

(* The messages that on_update() makes. *)
UpdateMessages(n) ==
    \E update_msg \in {<<>>, <<Msg("update", n)>>} :
        LET new == (IF held[n] = "ack" THEN <<Msg("subscribed", n)>> ELSE <<>>) \o update_msg
        IN  IF new # <<>> THEN add_messages_and_notify(new)
                          ELSE UNCHANGED <<messages, http_connection, answers, toldVars>>

LEMMA UpdateNotifies ==
    ASSUME NEW n \in Nodes, update_messages(n)
    PROVE  \/ \E new : add_messages_and_notify(new)
           \/ UNCHANGED <<messages, http_connection, answers, toldVars>>
<1>1. UpdateMessages(n)  BY DEF update_messages, UpdateMessages
<1>2. PICK update_msg \in {<<>>, <<Msg("update", n)>>} :
        LET new == (IF held[n] = "ack" THEN <<Msg("subscribed", n)>> ELSE <<>>) \o update_msg
        IN  IF new # <<>> THEN add_messages_and_notify(new)
                          ELSE UNCHANGED <<messages, http_connection, answers, toldVars>>
      BY <1>1 DEF UpdateMessages
<1> QED  BY <1>2

(* Every step is one of the eight kinds. *)
LEMMA StepKinds ==
    ASSUME Next
    PROVE  \/ \E r \in Responses :
                wait_for_events(r) \/ other_field(r) \/ second_connection_detected(r)
                \/ start_timer(r) \/ write_reponse(r)
           \/ ReleaseStep
           \/ Stutter
           \/ close
<1>1. ASSUME NEW r \in Responses, TimerStep(r) \/ implement_hurry(r)
      PROVE  ReleaseStep \/ Stutter
    BY <1>1 DEF TimerStep, expire, connection_time_out, implement_hurry, timeout, Release,
                ReleaseStep, Stutter
<1>2. ASSUME NEW n \in Nodes, answer_unsubscribe(n) PROVE ReleaseStep \/ Stutter
    BY <1>2, NotifySteps DEF answer_unsubscribe
<1>3. ASSUME NEW n \in Nodes, error_message(n) PROVE ReleaseStep \/ Stutter
    BY <1>3, NotifySteps DEF error_message
<1>4. ASSUME NEW n \in Nodes, update_messages(n) PROVE ReleaseStep \/ Stutter
    <2>1. UNCHANGED <<formVars, evicts, written>>
        BY <1>4 DEF update_messages
    <2>2. QED
        BY <1>4, <2>1, UpdateNotifies, NotifySteps DEF Stutter
<1>5. ASSUME NEW n \in Nodes,
             \/ subscribe(n) \/ unsubscribe(n) \/ root_asks(n) \/ CallBack(n)
             \/ root_subscribe(n) \/ root_unsubscribe(n) \/ collect(n)
      PROVE  Stutter
    BY <1>5 DEF subscribe, unsubscribe, root_asks, CallBack, root_answers_quietly, on_update,
                on_error, root_subscribe, root_unsubscribe, collect, httpVars, Stutter
<1>6. events => Stutter
    BY DEF events, httpVars, Stutter
<1>7. shut_down \/ shut_down_response => ReleaseStep \/ Stutter
    BY DEF shut_down, shut_down_response, httpVars, Release, ReleaseStep, Stutter
<1>8. QED
    BY <1>1, <1>2, <1>3, <1>4, <1>5, <1>6, <1>7 DEF Next, RequestStep, CallStep

-----------------------------------------------------------------------------
(* Nobody waits at the beginning. *)
LEMMA HInvInit == SessionInit => HInv
BY SessionAssumption
   DEF SessionInit, HInv, HttpType, Fresh, Connected, Evicted, Distinct, AnsweredOnce,
       NobodyForgotten, Stages

(* A field that does not wait ends. *)
LEMMA FinishKeeps ==
    ASSUME HInv, NEW r \in Responses, stage[r] = "new",
           fields' = [fields EXCEPT ![r] = @ + 1], FinishField(r),
           filled' \in {filled, filled \cup {r}}, UNCHANGED <<http_connection, evicts, blocking>>
    PROVE  HInv'
<1> USE SessionAssumption
<1>1. PICK next \in {"new", "done"} : stage' = [stage EXCEPT ![r] = next]
      BY DEF FinishField, EndField
<1>2. \/ UNCHANGED <<answers, written>> /\ r \in blocking
      \/ /\ answers' = [answers EXCEPT ![r] = @ + 1]
         /\ written' = [written EXCEPT ![r] = @ + 1]
      BY DEF FinishField
<1>3. HttpType'  BY <1>1, <1>2 DEF HInv, HttpType, Stages
<1>4. evicts[r] = None  BY DEF HInv, HttpType, Evicted
<1>5. fields[r] \in Nat /\ fields'[r] = fields[r] + 1
      /\ \A q \in Responses : q # r => fields'[q] = fields[q] /\ answers'[q] = answers[q]
                                       /\ stage'[q] = stage[q]
      BY <1>1, <1>2 DEF HInv, HttpType
<1>6. answers[r] \in Nat /\ answers'[r] \in {answers[r], answers[r] + 1}
      BY <1>2 DEF HInv, HttpType
<1>7. Fresh'  BY <1>5 DEF HInv, Fresh
<1>8. Connected'
  <2>1. http_connection # None => http_connection \in Responses /\ fields[http_connection] > 0
        BY DEF HInv, HttpType, Connected
  <2> QED  BY <1>5, <2>1 DEF HInv, Connected
<1>9. Evicted'
  <2>1. ASSUME NEW q \in Responses, evicts[q] # None
        PROVE  evicts[q] \in Responses /\ fields[evicts[q]] > 0 /\ stage[q] = "entered" /\ q # r
        BY <1>4, <2>1 DEF HInv, HttpType, Evicted
  <2> QED  BY <1>5, <2>1 DEF HInv, Evicted
<1>10. Distinct'
  <2>1. ASSUME NEW q \in Responses, evicts[q] # None
        PROVE  evicts[q] \in Responses /\ fields[evicts[q]] > 0
        BY <2>1 DEF HInv, HttpType, Evicted
  <2> QED  BY <1>5, <2>1 DEF HInv, Distinct
<1>11. AnsweredOnce'
      BY <1>5, <1>6 DEF HInv, AnsweredOnce, Fresh
<1>12. NobodyForgotten'
  <2>1. answers'[r] = 0 => r \in blocking /\ answers[r] = 0
        BY <1>2, <1>6 DEF HInv, HttpType
  <2> QED  BY <1>5, <2>1 DEF HInv, NobodyForgotten
<1> QED  BY <1>3, <1>7, <1>8, <1>9, <1>10, <1>11, <1>12 DEF HInv

(* Every step keeps the responses in exactly one pair of hands. *)
LEMMA HInvStep == HInv /\ [Next]_vars => HInv'
<1> SUFFICES ASSUME HInv, [Next]_vars PROVE HInv'
    OBVIOUS
<1> USE SessionAssumption
<1>s. CASE Stutter
    BY <1>s DEF Stutter, formVars, HInv, HttpType, Fresh, Connected, Evicted, Distinct,
                AnsweredOnce, NobodyForgotten
<1>v. CASE UNCHANGED vars
    <2>1. Stutter
        BY <1>v DEF vars, httpVars, Stutter
    <2>2. QED
        BY <2>1, <1>s
<1>r. CASE ReleaseStep
    <2>1. PICK h \in Responses : h = http_connection
        BY <1>r DEF ReleaseStep, HInv, HttpType
    <2>2. /\ http_connection' = None /\ answers' = [answers EXCEPT ![h] = answers[h] + 1]
          /\ UNCHANGED <<stage, fields, blocking, filled, evicts, written>>
        BY <1>r, <2>1 DEF ReleaseStep, formVars
    <2>3. answers[h] \in Nat /\ fields[h] \in Nat /\ fields[h] > 0 /\ h # None
          /\ (fields[h] = 1 => answers[h] = 0)
        BY <2>1 DEF HInv, HttpType, Connected
    <2>4. HttpType'
        BY <2>2, <2>3 DEF HInv, HttpType
    <2>5. Fresh' /\ Connected' /\ Distinct'
        BY <2>2, <2>3 DEF HInv, HttpType, Fresh, Connected, Distinct
    <2>6. Evicted'
        BY <2>1, <2>2, <2>3 DEF HInv, HttpType, Evicted
    <2>7. AnsweredOnce'
        BY <2>2, <2>3 DEF HInv, HttpType, AnsweredOnce
    <2>8. NobodyForgotten'
        BY <2>1, <2>2, <2>3 DEF HInv, HttpType, NobodyForgotten
    <2>9. QED
        BY <2>4, <2>5, <2>6, <2>7, <2>8 DEF HInv
<1>c. CASE close
    <2>1. http_connection = None
        BY <1>c DEF close, InUse, HInv, HttpType, Connected
    <2>2. Stutter
        BY <1>c, <2>1 DEF close, httpVars, Stutter
    <2>3. QED
        BY <2>2, <1>s
<1>w. ASSUME NEW r \in Responses, wait_for_events(r) PROVE HInv'
    <2>1. CASE messages = <<>>
        <3>1. stage[r] = "new" /\ http_connection' = r
              /\ evicts' = [evicts EXCEPT ![r] = http_connection]
              /\ stage' = [stage EXCEPT ![r] = "entered"]
              /\ fields' = [fields EXCEPT ![r] = fields[r] + 1]
              /\ UNCHANGED <<blocking, filled, answers, written>>
            BY <1>w, <2>1 DEF wait_for_events
        <3>2. HttpType'
            BY <3>1 DEF HInv, HttpType, Stages
        <3>3. evicts[r] = None /\ fields[r] \in Nat /\ r # None
            BY <3>1 DEF HInv, HttpType, Evicted
        <3>4. fields'[r] = fields[r] + 1 /\ evicts'[r] = http_connection /\ stage'[r] = "entered"
              /\ \A q \in Responses : q # r => fields'[q] = fields[q] /\ stage'[q] = stage[q]
                                               /\ evicts'[q] = evicts[q]
            BY <3>1 DEF HInv, HttpType
        <3>5. \A q \in Responses : fields[q] \in Nat /\ answers[q] \in Nat
            BY DEF HInv, HttpType
        <3>6. fields[r] = 0 => answers[r] = 0 /\ http_connection # r
                               /\ \A q \in Responses : evicts[q] # r
            BY <3>3 DEF HInv, HttpType, Fresh, Connected, Evicted
        <3>7. \A q \in Responses : evicts'[q] # None =>
                evicts'[q] \in Responses /\ fields[evicts'[q]] > 0
            BY <3>3, <3>4 DEF HInv, HttpType, Connected, Evicted
        <3>8. Fresh'
            BY <3>1, <3>3, <3>4 DEF HInv, Fresh
        <3>9. Connected'
            BY <3>1, <3>3, <3>4, <3>6 DEF HInv, HttpType, Connected
        <3>10. Evicted'
            <4> SUFFICES ASSUME NEW q \in Responses, evicts'[q] # None
                         PROVE  /\ stage'[q] = "entered" /\ fields'[evicts'[q]] > 0
                                /\ fields'[evicts'[q]] = 1 =>
                                     answers'[evicts'[q]] = 0 /\ evicts'[q] # http_connection'
                BY DEF Evicted
            <4>1. PICK e \in Responses : e = evicts'[q] /\ fields[e] > 0
                BY <3>7
            <4>2. fields'[e] > 0 /\ (fields'[e] = 1 => e # r /\ fields[e] = 1)
                BY <3>3, <3>4, <3>5, <4>1
            <4>3. CASE q = r
                BY <3>1, <3>4, <4>1, <4>2, <4>3 DEF HInv, Connected
            <4>4. CASE q # r
                BY <3>1, <3>4, <4>1, <4>2, <4>4 DEF HInv, Evicted
            <4> QED BY <4>3, <4>4
        <3>11. Distinct'
            <4> SUFFICES ASSUME NEW p \in Responses, NEW q \in Responses, evicts'[p] # None,
                                evicts'[p] = evicts'[q], fields'[evicts'[p]] = 1
                         PROVE  p = q
                BY DEF Distinct
            <4>1. PICK e \in Responses : e = evicts'[p] /\ fields[e] > 0
                BY <3>7
            <4>2. e # r /\ fields[e] = 1
                BY <3>3, <3>4, <3>5, <4>1
            <4>3. \A t \in Responses : t # r /\ evicts'[t] = e => evicts[t] = e /\ e # http_connection
                BY <3>4, <4>1, <4>2, SessionAssumption DEF HInv, Evicted
            <4> QED BY <3>4, <4>1, <4>2, <4>3, SessionAssumption DEF HInv, Distinct
        <3>12. AnsweredOnce'
            BY <3>1, <3>3, <3>4, <3>5, <3>6 DEF HInv, AnsweredOnce
        <3>13. NobodyForgotten'
            <4> SUFFICES ASSUME NEW q \in Responses, stage'[q] = "entered" \/ q \in blocking,
                                answers[q] = 0, q # r
                         PROVE  \E p \in Responses : evicts'[p] = q
                BY <3>1 DEF NobodyForgotten
            <4>1. http_connection = q \/ \E p \in Responses : evicts[p] = q
                BY <3>4 DEF HInv, NobodyForgotten
            <4> QED BY <3>3, <3>4, <4>1, SessionAssumption
        <3>14. QED
            BY <3>2, <3>8, <3>9, <3>10, <3>11, <3>12, <3>13 DEF HInv
    <2>2. CASE messages # <<>>
        BY <1>w, <2>2, FinishKeeps DEF wait_for_events
    <2>3. QED
        BY <2>1, <2>2
<1>o. ASSUME NEW r \in Responses, other_field(r) PROVE HInv'
    BY <1>o, FinishKeeps DEF other_field
<1>d. ASSUME NEW r \in Responses, second_connection_detected(r) PROVE HInv'
    <2>1. PICK e \in Responses : e = evicts[r]
        BY <1>d DEF second_connection_detected, HInv, HttpType
    <2>2. evicts' = [evicts EXCEPT ![r] = None] /\ answers' = [answers EXCEPT ![e] = answers[e] + 1]
          /\ UNCHANGED <<http_connection, stage, fields, blocking, filled, written>>
        BY <1>d, <2>1 DEF second_connection_detected, formVars
    <2>3. answers[e] \in Nat /\ fields[e] \in Nat /\ fields[e] > 0 /\ e # None
          /\ (fields[e] = 1 => answers[e] = 0 /\ e # http_connection)
        BY <2>1 DEF HInv, HttpType, Evicted
    <2>4. HttpType' /\ Fresh' /\ Connected'
        BY <2>2, <2>3 DEF HInv, HttpType, Fresh, Connected
    <2>5. Evicted' /\ Distinct'
        BY <2>1, <2>2, <2>3 DEF HInv, HttpType, Evicted, Distinct
    <2>6. AnsweredOnce'
        BY <2>2, <2>3 DEF HInv, HttpType, AnsweredOnce
    <2>7. NobodyForgotten'
        BY <2>1, <2>2, <2>3 DEF HInv, HttpType, NobodyForgotten
    <2>8. QED
        BY <2>4, <2>5, <2>6, <2>7 DEF HInv
<1>t. ASSUME NEW r \in Responses, start_timer(r) PROVE HInv'
    <2>1. PICK next \in {"new", "done"} : stage' = [stage EXCEPT ![r] = next]
        BY <1>t DEF start_timer, EndField
    <2>2. stage[r] = "entered" /\ evicts[r] = None /\ blocking' = blocking \cup {r}
          /\ UNCHANGED <<http_connection, fields, filled, evicts, answers, written>>
        BY <1>t DEF start_timer
    <2>3. QED
        BY <2>1, <2>2
           DEF HInv, HttpType, Fresh, Connected, Evicted, Distinct, AnsweredOnce,
               NobodyForgotten, Stages
<1>a. ASSUME NEW r \in Responses, write_reponse(r) PROVE HInv'
    <2>1. written' = [written EXCEPT ![r] = @ + 1] /\ filled' = filled \cup {r}
          /\ UNCHANGED <<http_connection, stage, fields, blocking, evicts, answers>>
        BY <1>a DEF write_reponse
    <2>2. QED
        BY <2>1
           DEF HInv, HttpType, Fresh, Connected, Evicted, Distinct, AnsweredOnce, NobodyForgotten
<1>q. QED
    BY <1>s, <1>v, <1>r, <1>c, <1>w, <1>o, <1>d, <1>t, <1>a, StepKinds

LEMMA HttpInvariant == Spec => []HInv
BY HInvInit, HInvStep, PTL DEF Spec

(* A response that blocks is never forgotten (session.cpp:46-62, 366-407): *)
(* it is in http_connection_ or its replacement is about to answer it.     *)
THEOREM BlockedHeld == Spec => []NobodyForgotten
BY HttpInvariant, PTL DEF HInv

(* As long as it handles its first field, the only one of most requests, a *)
(* response is answered once, whichever of the callers of session comes    *)
(* first.                                                                  *)
THEOREM OneAnswer == Spec => []AnsweredOnce
BY HttpInvariant, PTL DEF HInv

-----------------------------------------------------------------------------
(* The assertions of session.cpp:56 and 138: a response waits only while   *)
(* there are no messages, so no wake up is lost.                           *)
THEOREM NoLostWakeUp == Spec => []NoWaitWithMessages
<1>1. SessionInit => NoWaitWithMessages
    BY DEF SessionInit, NoWaitWithMessages
<1>2. NoWaitWithMessages /\ [Next]_vars => NoWaitWithMessages'
    <2> SUFFICES ASSUME NoWaitWithMessages, [Next]_vars PROVE NoWaitWithMessages'
        OBVIOUS
    <2> USE DEF NoWaitWithMessages
    <2>n. ASSUME NEW new, add_messages_and_notify(new) PROVE NoWaitWithMessages'
        BY <2>n DEF add_messages_and_notify, Release
    <2>v. CASE UNCHANGED vars
        BY <2>v DEF vars
    <2>1. ASSUME NEW r \in Responses, wait_for_events(r) PROVE NoWaitWithMessages'
        BY <2>1 DEF wait_for_events, TakeMessages
    <2>o. ASSUME NEW r \in Responses, other_field(r) PROVE NoWaitWithMessages'
        BY <2>o DEF other_field
    <2>2. ASSUME NEW r \in Responses, RequestStep(r) PROVE NoWaitWithMessages'
        BY <2>2 DEF RequestStep, second_connection_detected, start_timer, write_reponse
    <2>3. ASSUME NEW r \in Responses, TimerStep(r) \/ implement_hurry(r) PROVE NoWaitWithMessages'
        BY <2>3 DEF TimerStep, expire, connection_time_out, implement_hurry, timeout, Release
    <2>4. ASSUME NEW n \in Nodes, answer_unsubscribe(n) PROVE NoWaitWithMessages'
        BY <2>4, <2>n DEF answer_unsubscribe
    <2>5. ASSUME NEW n \in Nodes, error_message(n) PROVE NoWaitWithMessages'
        BY <2>5, <2>n DEF error_message
    <2>6. ASSUME NEW n \in Nodes, update_messages(n) PROVE NoWaitWithMessages'
        BY <2>6, <2>n, UpdateNotifies
    <2>7. ASSUME NEW n \in Nodes,
                 \/ subscribe(n) \/ unsubscribe(n) \/ root_asks(n) \/ CallBack(n)
                 \/ root_subscribe(n) \/ root_unsubscribe(n) \/ collect(n)
          PROVE  NoWaitWithMessages'
        BY <2>7 DEF subscribe, unsubscribe, root_asks, CallBack, root_answers_quietly,
                    on_update, on_error, root_subscribe, root_unsubscribe, collect, TakeMessages
    <2>8. ASSUME events \/ close \/ shut_down \/ shut_down_response PROVE NoWaitWithMessages'
        BY <2>8 DEF events, close, shut_down, shut_down_response, Release, TakeMessages
    <2>q. QED
        BY <2>v, <2>1, <2>o, <2>2, <2>3, <2>4, <2>5, <2>6, <2>7, <2>8 DEF Next, CallStep
<1>3. QED
    BY <1>1, <1>2, PTL DEF Spec

-----------------------------------------------------------------------------
(* The types of the members *)

(* The lists of root, and what it asks and owes. *)
SubType ==
    /\ subs \in [Nodes -> SUBSET Users] /\ wait \in [Nodes -> SUBSET Users]
    /\ asked \in [Nodes -> [Users -> Nat]] /\ owed \in [Nodes -> [Users -> Nat]]
    /\ told \in [Nodes -> [Users -> Notices]]

LEMMA TellType ==
    ASSUME SubType, NEW n \in Nodes, NEW us, NEW notice \in Notices, Tell(n, us, notice)
    PROVE  told' \in [Nodes -> [Users -> Notices]]
<1>1. told[n] \in [Users -> Notices]  BY DEF SubType
<1>2. [u \in Users |-> IF u \in us THEN notice ELSE told[n][u]] \in [Users -> Notices]  BY <1>1
<1>3. told' = [told EXCEPT ![n] = [u \in Users |-> IF u \in us THEN notice ELSE told[n][u]]]
      BY DEF Tell
<1> QED  BY <1>2, <1>3 DEF SubType

(* One more or one less for the session. *)
LEMMA CountType ==
    ASSUME NEW f \in [Nodes -> [Users -> Nat]], NEW n \in Nodes, NEW k \in Nat, me \in Users
    PROVE  [f EXCEPT ![n][me] = k] \in [Nodes -> [Users -> Nat]]
OBVIOUS

LEMMA AskTypes ==
    ASSUME SubType, NEW n \in Nodes,
           Ask(n, me) \/ JoinWaiting(n, me) \/ Join(n, me) \/ JoinWithData(n, me) \/ Owe(n, me)
    PROVE  SubType'
<1> USE SessionAssumption
<1>0. me \in Users /\ "none" \in Notices /\ "update" \in Notices  BY DEF Notices
<1>1. CASE Ask(n, me)  BY <1>0, <1>1, TellType DEF Ask, SubType
<1>2. CASE JoinWaiting(n, me)
  <2>1. wait' \in [Nodes -> SUBSET Users]  BY <1>0, <1>2 DEF JoinWaiting, SubType
  <2> QED  BY <1>2, <2>1 DEF JoinWaiting, SubType
<1>3. CASE Join(n, me)
  <2>1. subs' \in [Nodes -> SUBSET Users]  BY <1>0, <1>3 DEF Join, SubType
  <2> QED  BY <1>3, <2>1 DEF Join, SubType
<1>4. CASE JoinWithData(n, me)
  <2>1. subs' \in [Nodes -> SUBSET Users]  BY <1>0, <1>4 DEF JoinWithData, SubType
  <2>2. told' \in [Nodes -> [Users -> Notices]]  BY <1>0, <1>4, TellType DEF JoinWithData
  <2> QED  BY <1>4, <2>1, <2>2 DEF JoinWithData, SubType
<1>5. CASE Owe(n, me)
  <2>1. owed[n][me] + 1 \in Nat /\ owed' = [owed EXCEPT ![n][me] = owed[n][me] + 1]
        BY <1>0, <1>5 DEF Owe, SubType
  <2>2. owed' \in [Nodes -> [Users -> Nat]]  BY <1>0, <2>1, CountType DEF SubType
  <2> QED  BY <1>5, <2>2 DEF Owe, SubType
<1> QED  BY <1>1, <1>2, <1>3, <1>4, <1>5

LEMMA AnswerTypes ==
    ASSUME SubType, NEW n \in Nodes,
           AdmitNobody(n, me) \/ AdmitQuietly(n, me) \/ AdmitWithData(n, me) \/ Refuse(n, me)
    PROVE  SubType'
<1> USE SessionAssumption
<1>0. me \in Users /\ "update" \in Notices  BY DEF Notices
<1>1. asked[n][me] - 1 \in Nat /\ asked' = [asked EXCEPT ![n][me] = asked[n][me] - 1]
      BY <1>0 DEF AdmitNobody, AdmitQuietly, AdmitWithData, Refuse, SubType
<1>2. asked' \in [Nodes -> [Users -> Nat]]  BY <1>0, <1>1, CountType DEF SubType
<1>3. subs' \in [Nodes -> SUBSET Users]
  <2>1. CASE AdmitNobody(n, me)  BY <2>1 DEF AdmitNobody, SubType
  <2>2. CASE AdmitQuietly(n, me)  BY <1>0, <2>2 DEF AdmitQuietly, SubType
  <2>3. CASE AdmitWithData(n, me)  BY <1>0, <2>3 DEF AdmitWithData, SubType
  <2>4. CASE Refuse(n, me)  BY <2>4 DEF Refuse, SubType
  <2> QED  BY <2>1, <2>2, <2>3, <2>4
<1>4. wait' \in [Nodes -> SUBSET Users]
  <2>1. CASE AdmitNobody(n, me)  BY <2>1 DEF AdmitNobody, SubType
  <2>2. CASE AdmitQuietly(n, me)  BY <1>0, <2>2 DEF AdmitQuietly, SubType
  <2>3. CASE AdmitWithData(n, me)  BY <1>0, <2>3 DEF AdmitWithData, SubType
  <2>4. CASE Refuse(n, me)  BY <2>4 DEF Refuse, SubType
  <2> QED  BY <2>1, <2>2, <2>3, <2>4
<1>5. owed' \in [Nodes -> [Users -> Nat]]
  <2>1. CASE Refuse(n, me)
    <3>1. owed[n][me] + 1 \in Nat /\ owed' = [owed EXCEPT ![n][me] = owed[n][me] + 1]
          BY <1>0, <2>1 DEF Refuse, SubType
    <3> QED  BY <1>0, <3>1, CountType DEF SubType
  <2>2. CASE ~Refuse(n, me)
        BY <2>2 DEF AdmitNobody, AdmitQuietly, AdmitWithData, SubType
  <2> QED  BY <2>1, <2>2
<1>6. told' \in [Nodes -> [Users -> Notices]]
  <2>1. CASE AdmitWithData(n, me)  BY <1>0, <2>1, TellType DEF AdmitWithData
  <2>2. CASE ~AdmitWithData(n, me)
        BY <2>2 DEF AdmitNobody, AdmitQuietly, Refuse, SubType
  <2> QED  BY <2>1, <2>2
<1> QED  BY <1>2, <1>3, <1>4, <1>5, <1>6 DEF SubType

LEMMA EndTypes ==
    ASSUME SubType, NEW n \in Nodes,
           \/ AskAdapter(n, {me}) \/ TellError(n, me, "failed") \/ Update(n)
           \/ FailNode(n, "failed") \/ Leave(me, {n}) \/ Leave(me, Nodes)
    PROVE  SubType'
<1> USE SessionAssumption
<1>0. me \in Users /\ "failed" \in Notices /\ "update" \in Notices
      BY DEF Notices, Errors
<1>1. CASE AskAdapter(n, {me})
  <2>1. asked[n] \in [Users -> Nat]  BY DEF SubType
  <2>2. [u \in Users |-> IF u \in {me} THEN asked[n][u] + 1 ELSE asked[n][u]] \in [Users -> Nat]
        BY <2>1
  <2>3. asked' \in [Nodes -> [Users -> Nat]]  BY <1>1, <2>2 DEF AskAdapter, SubType
  <2> QED  BY <1>1, <2>3 DEF AskAdapter, SubType
<1>2. CASE TellError(n, me, "failed")
  <2>1. owed[n][me] - 1 \in Nat /\ owed' = [owed EXCEPT ![n][me] = owed[n][me] - 1]
        BY <1>0, <1>2 DEF TellError, SubType
  <2>2. owed' \in [Nodes -> [Users -> Nat]]  BY <1>0, <2>1, CountType DEF SubType
  <2>3. told' \in [Nodes -> [Users -> Notices]]
    <3>1. PICK us : Tell(n, us, "failed")  BY <1>2 DEF TellError
    <3> QED  BY <1>0, <3>1, TellType
  <2> QED  BY <1>2, <2>2, <2>3 DEF TellError, SubType
<1>3. CASE Update(n)
  <2>1. PICK us : Tell(n, us, "update")  BY <1>3 DEF Update
  <2>2. told' \in [Nodes -> [Users -> Notices]]  BY <1>0, <2>1, TellType
  <2> QED  BY <1>3, <2>2 DEF Update, SubType
<1>4. CASE FailNode(n, "failed")
  <2>1. PICK us : Tell(n, us, "failed")  BY <1>4 DEF FailNode
  <2>2. told' \in [Nodes -> [Users -> Notices]]  BY <1>0, <2>1, TellType
  <2>3. subs' \in [Nodes -> SUBSET Users] /\ wait' \in [Nodes -> SUBSET Users]
        BY <1>4 DEF FailNode, SubType
  <2> QED  BY <1>4, <2>2, <2>3 DEF FailNode, SubType
<1>5. ASSUME NEW S, Leave(me, S) PROVE SubType'
  <2>1. subs' \in [Nodes -> SUBSET Users]  BY <1>5 DEF Leave, SubType
  <2>2. wait' \in [Nodes -> SUBSET Users]  BY <1>5 DEF Leave, SubType
  <2> QED  BY <1>5, <2>1, <2>2 DEF Leave, SubType
<1> QED  BY <1>1, <1>2, <1>3, <1>4, <1>5

LEMMA SubTypeStep ==
    ASSUME SubType, [Next]_vars
    PROVE  SubType'
<1>1. CASE UNCHANGED subVars  BY <1>1 DEF subVars, SubType
<1>2. ASSUME NEW n \in Nodes,
             \/ subscribe(n) \/ unsubscribe(n) \/ CallStep(n)
             \/ root_asks(n) \/ CallBack(n) \/ update_messages(n) \/ error_message(n)
      PROVE  SubType'
      BY <1>1, <1>2, AskTypes, AnswerTypes, EndTypes
         DEF subscribe, unsubscribe, CallStep, root_subscribe, root_unsubscribe, answer_unsubscribe,
             collect, root_asks, CallBack, root_answers_quietly, on_update, on_error,
             update_messages, error_message
<1>3. ASSUME NEW r \in Responses,
             \/ wait_for_events(r) \/ other_field(r)
             \/ RequestStep(r) \/ TimerStep(r) \/ implement_hurry(r)
      PROVE  SubType'
      BY <1>1, <1>3 DEF wait_for_events, other_field, RequestStep, TimerStep, implement_hurry,
             second_connection_detected, start_timer, write_reponse, expire, connection_time_out
<1>4. CASE events \/ shut_down_response  BY <1>1, <1>4 DEF events, shut_down_response
<1>5. CASE close \/ shut_down
  <2>1. Leave(me, Nodes)  BY <1>5 DEF close, shut_down
  <2>2. subs' \in [Nodes -> SUBSET Users]  BY <2>1 DEF Leave, SubType
  <2>3. wait' \in [Nodes -> SUBSET Users]  BY <2>1 DEF Leave, SubType
  <2> QED  BY <2>1, <2>2, <2>3 DEF Leave, SubType
<1> QED  BY <1>1, <1>2, <1>3, <1>4, <1>5 DEF Next, vars

(* Whatever is added at once, what does not fit is dropped. *)
LEMMA TrimmedType ==
    ASSUME NEW ms \in Seq(Messages), NEW k, Trimmed(ms, k)
    PROVE  k \in 0 .. Len(ms) /\ Drop(ms, k) \in Seq(Messages) /\ Len(Drop(ms, k)) <= MaxMessages
<1>1. k \in 0 .. Len(ms) /\ Fits(Drop(ms, k))  BY DEF Trimmed
<1>2. SubSeq(ms, k + 1, Len(ms)) \in Seq(Messages)  BY <1>1
<1> QED  BY <1>1, <1>2 DEF Fits, Drop

MessageType == messages \in Seq(Messages) /\ Len(messages) <= MaxMessages

LEMMA NotifyType ==
    ASSUME MessageType, NEW new \in Seq(Messages), add_messages_and_notify(new)
    PROVE  MessageType'
<1> USE SessionAssumption
<1>1. CASE http_connection # None
  <2>1. messages' = <<>>  BY <1>1 DEF add_messages_and_notify
  <2> QED  BY <2>1 DEF MessageType
<1>2. CASE http_connection = None
  <2>1. PICK ms : ms = messages \o new  OBVIOUS
  <2>2. ms \in Seq(Messages)  BY <2>1 DEF MessageType
  <2>3. PICK k \in 0 .. Len(ms) : Trimmed(ms, k) /\ messages' = Drop(ms, k)
        BY <1>2, <2>1 DEF add_messages_and_notify
  <2> QED  BY <2>2, <2>3, TrimmedType DEF MessageType
<1> QED  BY <1>1, <1>2

LEMMA MessageTypeStep ==
    ASSUME MessageType, [Next]_vars
    PROVE  MessageType'
<1> USE SessionAssumption
<1>0. \A k \in Kinds, n \in Nodes :
         Msg(k, n) \in Messages /\ <<Msg(k, n)>> \in Seq(Messages) /\ <<>> \in Seq(Messages)
      BY DEF Msg, Messages
<1>1. CASE UNCHANGED messages  BY <1>1 DEF MessageType
<1>2. CASE messages' = <<>>  BY <1>2 DEF MessageType
<1>3. ASSUME NEW r \in Responses,
             \/ wait_for_events(r) \/ other_field(r)
             \/ RequestStep(r) \/ TimerStep(r) \/ implement_hurry(r)
      PROVE  MessageType'
      BY <1>1, <1>2, <1>3 DEF wait_for_events, other_field, RequestStep, TimerStep, implement_hurry,
             second_connection_detected, start_timer, write_reponse, expire, connection_time_out, TakeMessages
<1>4. ASSUME NEW n \in Nodes,
             \/ subscribe(n) \/ unsubscribe(n) \/ root_asks(n) \/ CallBack(n)
             \/ root_subscribe(n) \/ root_unsubscribe(n) \/ collect(n)
      PROVE  MessageType'
      BY <1>1, <1>2, <1>4 DEF subscribe, unsubscribe, root_asks, CallBack, root_answers_quietly,
             on_update, on_error, root_subscribe, root_unsubscribe, collect, TakeMessages
<1>5. ASSUME NEW n \in Nodes, answer_unsubscribe(n) PROVE MessageType'
  <2> DEFINE kind == IF call[n] \in {"left", "left_ack"} THEN "unsubscribed" ELSE "not_subscribed"
             ack == IF call[n] \in {"left_ack", "not_left_ack"} THEN <<Msg("subscribed", n)>> ELSE <<>>
  <2>1. kind \in Kinds  BY DEF Kinds
  <2>2. ack \in Seq(Messages)  BY <1>0 DEF Kinds
  <2>3. add_messages_and_notify(Append(ack, Msg(kind, n)))  BY <1>5 DEF answer_unsubscribe
  <2> HIDE DEF kind, ack
  <2>4. PICK new : new = Append(ack, Msg(kind, n))  OBVIOUS
  <2>5. new \in Seq(Messages)  BY <1>0, <2>1, <2>2, <2>4
  <2> QED  BY <2>3, <2>4, <2>5, NotifyType
<1>6. ASSUME NEW n \in Nodes, error_message(n) PROVE MessageType'
  <2>1. PICK new : new = <<Msg("refused", n)>>  OBVIOUS
  <2>2. new \in Seq(Messages)  BY <1>0, <2>1 DEF Kinds
  <2>3. add_messages_and_notify(new)  BY <1>6, <2>1 DEF error_message
  <2> QED  BY <2>2, <2>3, NotifyType
<1>7. ASSUME NEW n \in Nodes, update_messages(n) PROVE MessageType'
  <2>1. PICK update_msg \in {<<>>, <<Msg("update", n)>>} :
          LET new == (IF held[n] = "ack" THEN <<Msg("subscribed", n)>> ELSE <<>>) \o update_msg
          IN  IF new # <<>> THEN add_messages_and_notify(new)
                            ELSE UNCHANGED <<messages, http_connection, answers, toldVars>>
        BY <1>7 DEF update_messages
  <2>2. update_msg \in Seq(Messages)  BY <1>0 DEF Kinds
  <2>3. PICK ack \in Seq(Messages) :
             ack = IF held[n] = "ack" THEN <<Msg("subscribed", n)>> ELSE <<>>
        BY <1>0 DEF Kinds
  <2>4. PICK new : new = ack \o update_msg  OBVIOUS
  <2>5. new \in Seq(Messages)  BY <2>2, <2>3, <2>4
  <2>6. add_messages_and_notify(new) \/ UNCHANGED messages  BY <2>1, <2>3, <2>4
  <2> QED  BY <1>1, <2>5, <2>6, NotifyType
<1>8. CASE events \/ close \/ shut_down \/ shut_down_response
      BY <1>1, <1>2, <1>8 DEF events, close, shut_down, shut_down_response, TakeMessages
<1> QED  BY <1>1, <1>3, <1>4, <1>5, <1>6, <1>7, <1>8 DEF Next, CallStep, vars

(* The other members, and what the client was told *)
RestType ==
    /\ ids \in [Nodes -> Nat] /\ doubled \in SUBSET Nodes
    /\ call \in [Nodes -> Calls]
    /\ held \in [Nodes -> Held]
    /\ refusals \in [Nodes -> Nat]
    /\ timer \in [Responses -> BOOLEAN] /\ queued \in [Responses -> Nat]
    /\ hurried \in SUBSET Responses
    /\ shut \in {"no", "left", "done"} /\ closed \in BOOLEAN /\ broken \in BOOLEAN
    /\ known \in [Nodes -> Known] /\ early \in SUBSET Nodes

ToldType == known \in [Nodes -> Known] /\ early \in SUBSET Nodes

LEMMA HandOverType ==
    ASSUME ToldType, NEW before \in [Nodes -> Known], NEW ms, HandOver(before, ms)
    PROVE  ToldType'
<1>1. \A n \in Nodes : Learned(before, ms, n, Len(ms)) \in Known  BY DEF Learned, Known
<1>2. EarlyIn(before, ms) \subseteq Nodes  BY DEF EarlyIn
<1> QED  BY <1>1, <1>2 DEF HandOver, ToldType, toldVars

LEMMA NotifyToldType ==
    ASSUME ToldType, NEW new, add_messages_and_notify(new)
    PROVE  ToldType'
<1>1. PICK ms : ms = messages \o new  OBVIOUS
<1>2. PICK k \in 0 .. Len(ms) :
        \/ HandOver(Lost(ms, k), Drop(ms, k))
        \/ known' = Lost(ms, k) /\ UNCHANGED early
      BY <1>1 DEF add_messages_and_notify
<1>3. Lost(ms, k) \in [Nodes -> Known]  BY DEF Lost, ToldType, Known
<1> QED  BY <1>2, <1>3, HandOverType DEF ToldType

LEMMA ToldTypeStep ==
    ASSUME ToldType, [Next]_vars
    PROVE  ToldType'
<1>1. CASE UNCHANGED toldVars  BY <1>1 DEF toldVars, ToldType
<1>2. CASE TakeMessages  BY <1>2, HandOverType DEF TakeMessages, ToldType
<1>3. ASSUME NEW r \in Responses,
             \/ wait_for_events(r) \/ other_field(r)
             \/ RequestStep(r) \/ TimerStep(r) \/ implement_hurry(r)
      PROVE  ToldType'
  <2>1. UNCHANGED toldVars \/ TakeMessages
        BY <1>3 DEF wait_for_events, other_field, RequestStep, TimerStep, implement_hurry,
             second_connection_detected, start_timer, write_reponse, expire, connection_time_out
  <2> QED  BY <1>1, <1>2, <2>1
<1>4. ASSUME NEW n \in Nodes,
             \/ subscribe(n) \/ unsubscribe(n) \/ root_asks(n) \/ CallBack(n)
             \/ root_subscribe(n) \/ root_unsubscribe(n) \/ collect(n)
      PROVE  ToldType'
  <2>1. UNCHANGED toldVars \/ TakeMessages
        BY <1>4 DEF subscribe, unsubscribe, root_asks, CallBack, root_answers_quietly,
             on_update, on_error, root_subscribe, root_unsubscribe, collect
  <2> QED  BY <1>1, <1>2, <2>1
<1>5. ASSUME NEW n \in Nodes, answer_unsubscribe(n) \/ error_message(n) PROVE ToldType'
      BY <1>5, NotifyToldType DEF answer_unsubscribe, error_message
<1>6. ASSUME NEW n \in Nodes, update_messages(n) PROVE ToldType'
      BY <1>1, <1>6, UpdateNotifies, NotifyToldType
<1>7. CASE events \/ close \/ shut_down \/ shut_down_response
      BY <1>1, <1>2, <1>7 DEF events, close, shut_down, shut_down_response
<1> QED  BY <1>1, <1>3, <1>4, <1>5, <1>6, <1>7 DEF Next, CallStep, vars

LEMMA TakeEntryType ==
    ASSUME RestType, NEW n \in Nodes, TakeEntry(n)
    PROVE  ids' \in [Nodes -> Nat] /\ doubled' \in SUBSET Nodes
<1>1. (IF ids[n] > 0 THEN ids[n] - 1 ELSE ids[n]) \in Nat  BY DEF RestType
<1> QED  BY <1>1 DEF TakeEntry, RestType

LEMMA RestTypeStep ==
    ASSUME RestType, [Next]_vars
    PROVE  RestType'
<1>0. ToldType'  BY ToldTypeStep DEF RestType, ToldType
<1>1. CASE UNCHANGED <<clientVars, timer, queued, hurried, endVars, doubled>>
      BY <1>0, <1>1 DEF clientVars, endVars, RestType, ToldType
<1>2. ASSUME NEW r \in Responses,
             \/ wait_for_events(r) \/ other_field(r)
             \/ RequestStep(r) \/ TimerStep(r) \/ implement_hurry(r)
      PROVE  RestType'
  <2>1. UNCHANGED <<ids, doubled, call, held, refusals, shut, closed, broken>>
        BY <1>2 DEF wait_for_events, other_field, RequestStep, TimerStep, implement_hurry,
             second_connection_detected, start_timer, write_reponse, expire, connection_time_out,
             clientVars, endVars
  <2>2. hurried' \in SUBSET Responses
        BY <1>2 DEF wait_for_events, other_field, RequestStep, TimerStep, implement_hurry,
             second_connection_detected, start_timer, write_reponse, expire, connection_time_out,
             RestType
  <2>3. timer' \in [Responses -> BOOLEAN]
    <3>1. \/ UNCHANGED timer
          \/ \E x \in BOOLEAN : timer' = [timer EXCEPT ![r] = x]
          BY <1>2 DEF wait_for_events, other_field, FinishField, RequestStep, TimerStep,
             implement_hurry, second_connection_detected, start_timer, write_reponse, expire,
             connection_time_out
    <3> QED  BY <3>1 DEF RestType
  <2>4. queued' \in [Responses -> Nat]
    <3>1. \/ UNCHANGED queued
          \/ queued' = [queued EXCEPT ![r] = @ + 1]
          \/ queued[r] > 0 /\ queued' = [queued EXCEPT ![r] = @ - 1]
          BY <1>2 DEF wait_for_events, other_field, RequestStep, TimerStep, implement_hurry,
             second_connection_detected, start_timer, write_reponse, expire, connection_time_out
    <3> QED  BY <3>1 DEF RestType
  <2> QED  BY <1>0, <2>1, <2>2, <2>3, <2>4 DEF RestType, ToldType
<1>3. CASE events \/ close \/ shut_down \/ shut_down_response
  <2>1. UNCHANGED <<clientVars, timer, queued, hurried, doubled>>
        BY <1>3 DEF events, close, shut_down, shut_down_response, httpVars
  <2>2. shut' \in {"no", "left", "done"} /\ closed' \in BOOLEAN /\ broken' \in BOOLEAN
        BY <1>3 DEF events, close, shut_down, shut_down_response, endVars, RestType
  <2> QED  BY <1>0, <2>1, <2>2 DEF clientVars, RestType, ToldType
<1>4. ASSUME NEW n \in Nodes,
             \/ subscribe(n) \/ unsubscribe(n) \/ CallStep(n)
             \/ root_asks(n) \/ CallBack(n) \/ update_messages(n) \/ error_message(n)
      PROVE  RestType'
  <2>1. UNCHANGED <<timer, queued, hurried, shut, closed>>
        BY <1>4 DEF subscribe, unsubscribe, CallStep, root_subscribe, root_unsubscribe,
             answer_unsubscribe, collect, root_asks, CallBack, root_answers_quietly, on_update,
             on_error, update_messages, error_message, httpVars, endVars
  <2>2. ids' \in [Nodes -> Nat] /\ doubled' \in SUBSET Nodes
    <3>1. \/ UNCHANGED <<ids, doubled>>
          \/ TakeEntry(n)
          \/ /\ ids' = [ids EXCEPT ![n] = @ + 1]
             /\ doubled' = IF ids[n] > 0 THEN doubled \cup {n} ELSE doubled
          BY <1>4 DEF subscribe, unsubscribe, CallStep, root_subscribe, root_unsubscribe,
             answer_unsubscribe, collect, root_asks, CallBack, root_answers_quietly, on_update,
             on_error, update_messages, error_message, clientVars, BeginUpdate, TakeId
    <3> QED  BY <3>1, TakeEntryType DEF RestType
  <2>4. broken' \in BOOLEAN
        BY <1>4 DEF subscribe, unsubscribe, CallStep, root_subscribe, root_unsubscribe,
             answer_unsubscribe, collect, root_asks, CallBack, root_answers_quietly, on_update,
             on_error, update_messages, error_message, endVars, TakeId, RestType
  <2>5. held' \in [Nodes -> Held]
        BY <1>4 DEF subscribe, unsubscribe, CallStep, root_subscribe, root_unsubscribe,
             answer_unsubscribe, collect, root_asks, CallBack, root_answers_quietly, on_update,
             on_error, update_messages, error_message, clientVars, BeginUpdate, RestType, Held
  <2>6. call' \in [Nodes -> Calls]
    <3>1. UNCHANGED call \/ \E x \in Calls : call' = [call EXCEPT ![n] = x]
      <4>0. call \in [Nodes -> Calls]  BY DEF RestType
      <4>1. CASE \/ subscribe(n) \/ root_subscribe(n) \/ answer_unsubscribe(n) \/ collect(n)
            BY <4>1 DEF subscribe, root_subscribe, answer_unsubscribe, collect, Calls
      <4>2. CASE unsubscribe(n)  BY <4>2 DEF unsubscribe, Calls
      <4>3. CASE root_unsubscribe(n)  BY <4>3 DEF root_unsubscribe, Calls
      <4>4. CASE update_messages(n)  BY <4>0, <4>4 DEF update_messages, Calls
      <4>5. CASE root_asks(n) \/ CallBack(n) \/ error_message(n)
            BY <4>5 DEF root_asks, CallBack, root_answers_quietly, on_update, on_error,
                        error_message, clientVars
      <4> QED  BY <1>4, <4>1, <4>2, <4>3, <4>4, <4>5 DEF CallStep
    <3> QED  BY <3>1 DEF RestType
  <2>7. refusals' \in [Nodes -> Nat]
    <3>1. refusals \in [Nodes -> Nat]  BY DEF RestType
    <3>2. CASE on_error(n)  BY <3>1, <3>2 DEF on_error
    <3>3. CASE error_message(n)  BY <3>1, <3>3 DEF error_message
    <3>4. CASE ~on_error(n) /\ ~error_message(n)
          BY <1>4, <3>1, <3>4 DEF subscribe, unsubscribe, CallStep, root_subscribe,
             root_unsubscribe, answer_unsubscribe, collect, root_asks, CallBack,
             root_answers_quietly, on_update, update_messages, clientVars
    <3> QED  BY <3>2, <3>3, <3>4
  <2> QED  BY <1>0, <2>1, <2>2, <2>4, <2>5, <2>6, <2>7 DEF RestType, ToldType
<1> QED  BY <1>1, <1>2, <1>3, <1>4 DEF Next, vars, httpVars

TInv == HInv /\ SubType /\ MessageType /\ RestType

LEMMA SessionInvariant == Spec => []TInv
<1> USE SessionAssumption
<1>1. SessionInit => SubType /\ MessageType /\ RestType
  <2> SUFFICES ASSUME SessionInit PROVE SubType /\ MessageType /\ RestType  OBVIOUS
  <2>1. SubType  BY DEF SessionInit, SubInit, SubType, Notices
  <2>2. MessageType  BY DEF SessionInit, MessageType
  <2>3. RestType  BY DEF SessionInit, RestType, Calls, Held, Known
  <2> QED  BY <2>1, <2>2, <2>3
<1>2. TInv /\ [Next]_vars => TInv'
      BY HInvStep, SubTypeStep, MessageTypeStep, RestTypeStep DEF TInv
<1> QED  BY <1>1, <1>2, HInvInit, PTL DEF Spec, TInv

(* The types of session's members, and those of its responses; the buffer  *)
(* of messages never exceeds max_messages_per_client (session.cpp:357-364).*)
THEOREM SessionTypes == Spec => []TypeOK
<1>1. TInv => TypeOK
      BY DEF TInv, HInv, HttpType, SubType, MessageType, RestType, TypeOK
<1> QED  BY <1>1, SessionInvariant, PTL

-----------------------------------------------------------------------------
(* Steps about one node *)

NodeStep(n) ==
    \/ subscribe(n) \/ unsubscribe(n) \/ CallStep(n)
    \/ root_asks(n) \/ CallBack(n) \/ update_messages(n) \/ error_message(n)

(* The session was closed or shut down, or the behaviour is undefined. *)
Over == shut # "no" \/ closed \/ broken

SameAt(n) ==
    /\ subs'[n] = subs[n] /\ wait'[n] = wait[n]
    /\ asked'[n][me] = asked[n][me] /\ owed'[n][me] = owed[n][me]
    /\ call'[n] = call[n] /\ held'[n] = held[n] /\ refusals'[n] = refusals[n]
    /\ ids'[n] = ids[n] /\ (n \in doubled' <=> n \in doubled)

(* close() and shut_down() *)
EndStep ==
    /\ Over' /\ UNCHANGED <<clientVars, doubled, asked, owed>>
    /\ \/ Leave(me, Nodes) /\ \A n \in Nodes : held[n] = "no"
       \/ UNCHANGED <<subs, wait>>

(* A step is about one node, or about none, or the end. *)
LEMMA NodeSteps ==
    ASSUME TInv, [Next]_vars
    PROVE  \/ \E n \in Nodes : NodeStep(n)
           \/ (\A n \in Nodes : SameAt(n)) /\ (Over => Over') /\ (Over' => Over)
           \/ EndStep
<1>1. CASE UNCHANGED <<subVars, clientVars, endVars, doubled>>
      BY <1>1 DEF subVars, clientVars, endVars, SameAt, Over
<1>2. CASE UNCHANGED vars  BY <1>1, <1>2 DEF vars
<1>3. ASSUME NEW r \in Responses,
             \/ wait_for_events(r) \/ other_field(r)
             \/ RequestStep(r) \/ TimerStep(r) \/ implement_hurry(r)
      PROVE  UNCHANGED <<subVars, clientVars, endVars, doubled>>
      BY <1>3 DEF wait_for_events, other_field, RequestStep, TimerStep, implement_hurry,
             second_connection_detected, start_timer, write_reponse, expire, connection_time_out
<1>4. CASE events  BY <1>1, <1>4 DEF events
<1>5. CASE close \/ shut_down \/ shut_down_response
      BY <1>5 DEF close, shut_down, shut_down_response, Leave, subVars, EndStep, Over
<1> QED  BY <1>1, <1>2, <1>3, <1>4, <1>5 DEF Next, NodeStep

LEMMA OtherNodes ==
    ASSUME TInv, NEW n \in Nodes, NEW m \in Nodes, m # n, NodeStep(n)
    PROVE  SameAt(m)
<1> USE SessionAssumption
<1>0. /\ subs \in [Nodes -> SUBSET Users] /\ wait \in [Nodes -> SUBSET Users]
      /\ asked \in [Nodes -> [Users -> Nat]] /\ owed \in [Nodes -> [Users -> Nat]]
      /\ call \in [Nodes -> Calls] /\ held \in [Nodes -> Held] /\ refusals \in [Nodes -> Nat]
      /\ ids \in [Nodes -> Nat]
      BY DEF TInv, SubType, RestType
<1> USE DEF NodeStep, subscribe, unsubscribe, CallStep, root_subscribe, root_unsubscribe,
            answer_unsubscribe, collect, root_asks, CallBack, root_answers_quietly, on_update,
            on_error, update_messages, error_message
<1>1. subs'[m] = subs[m]
      BY <1>0 DEF subVars, Ask, JoinWaiting, Join, JoinWithData, Owe, AskAdapter, AdmitNobody,
             AdmitQuietly, AdmitWithData, Refuse, TellError, Update, FailNode, Leave
<1>2. wait'[m] = wait[m]
      BY <1>0 DEF subVars, Ask, JoinWaiting, Join, JoinWithData, Owe, AskAdapter, AdmitNobody,
             AdmitQuietly, AdmitWithData, Refuse, TellError, Update, FailNode, Leave
<1>3. asked'[m] = asked[m]
      BY <1>0 DEF subVars, Ask, JoinWaiting, Join, JoinWithData, Owe, AskAdapter, AdmitNobody,
             AdmitQuietly, AdmitWithData, Refuse, TellError, Update, FailNode, Leave
<1>4. owed'[m] = owed[m]
      BY <1>0 DEF subVars, Ask, JoinWaiting, Join, JoinWithData, Owe, AskAdapter, AdmitNobody,
             AdmitQuietly, AdmitWithData, Refuse, TellError, Update, FailNode, Leave
<1>5. call'[m] = call[m]  BY <1>0 DEF clientVars
<1>6. held'[m] = held[m]  BY <1>0 DEF clientVars, BeginUpdate
<1>7. refusals'[m] = refusals[m]  BY <1>0 DEF clientVars
<1>8. ids'[m] = ids[m]  BY <1>0 DEF clientVars, BeginUpdate, TakeEntry, TakeId
<1>9. m \in doubled' <=> m \in doubled  BY DEF clientVars, BeginUpdate, TakeEntry, TakeId
<1> QED  BY <1>1, <1>2, <1>3, <1>4, <1>5, <1>6, <1>7, <1>8, <1>9 DEF SameAt

(* An acknowledgement that was asked for is not lost. *)
Expected(n) ==
    ids[n] > 0 /\ n \notin doubled =>
        call[n] = "subscribe" \/ me \in subs[n] \cup wait[n] \/ owed[n][me] > 0

(* There is one entry of a node, if the client does not subscribe again. *)
Single(n) == n \notin doubled => ids[n] <= 1

(* Who is about to leave a node does not wait for its acknowledgement. *)
NotAwaited(n) ==
    call[n] \in {"unsubscribe", "unsubscribe_ack"} => ids[n] = 0 \/ n \in doubled

AInv == \A n \in Nodes : Single(n) /\ NotAwaited(n) /\ (Over \/ Expected(n))

(* The one entry is taken, or another stays. *)
LEMMA TakeOne ==
    ASSUME RestType, NEW n \in Nodes, Single(n), TakeEntry(n)
    PROVE  Single(n)' /\ (ids'[n] = 0 \/ n \in doubled')
<1>1. ids[n] \in Nat /\ ids'[n] = IF ids[n] > 0 THEN ids[n] - 1 ELSE ids[n]
      BY DEF TakeEntry, RestType
<1>2. CASE ids[n] <= 1  BY <1>1, <1>2 DEF Single
<1>3. CASE ids[n] > 1
  <2>1. n \in doubled /\ doubled' = doubled  BY <1>1, <1>3 DEF Single, TakeEntry
  <2> QED  BY <2>1 DEF Single
<1> QED  BY <1>1, <1>2, <1>3

LEMMA SingleStep ==
    ASSUME RestType, NEW n \in Nodes, NodeStep(n), Single(n)
    PROVE  Single(n)'
<1>1. \/ UNCHANGED <<ids, doubled>>
      \/ TakeEntry(n)
      \/ /\ ids' = [ids EXCEPT ![n] = @ + 1]
         /\ doubled' = IF ids[n] > 0 THEN doubled \cup {n} ELSE doubled
      BY DEF NodeStep, subscribe, unsubscribe, CallStep, root_subscribe, root_unsubscribe,
             answer_unsubscribe, collect, root_asks, CallBack, root_answers_quietly, on_update,
             on_error, update_messages, error_message, clientVars, BeginUpdate, TakeId
<1>2. CASE UNCHANGED <<ids, doubled>>  BY <1>2 DEF Single
<1>3. CASE TakeEntry(n)  BY <1>3, TakeOne
<1>4. CASE /\ ids' = [ids EXCEPT ![n] = @ + 1]
           /\ doubled' = IF ids[n] > 0 THEN doubled \cup {n} ELSE doubled
      BY <1>4 DEF Single, RestType
<1> QED  BY <1>1, <1>2, <1>3, <1>4

LEMMA AckStep ==
    ASSUME TInv, NEW n \in Nodes, NodeStep(n), Single(n), NotAwaited(n), Expected(n)
    PROVE  NotAwaited(n)' /\ Expected(n)'
<1> USE SessionAssumption
<1>a. /\ subs \in [Nodes -> SUBSET Users] /\ wait \in [Nodes -> SUBSET Users] /\ me \in Users
      /\ asked \in [Nodes -> [Users -> Nat]] /\ owed \in [Nodes -> [Users -> Nat]]
      /\ call \in [Nodes -> Calls]
      BY DEF TInv, SubType, RestType
<1>b. owed[n][me] \in Nat  BY <1>a
<1>0. /\ subs \in [Nodes -> SUBSET Users] /\ wait \in [Nodes -> SUBSET Users] /\ me \in Users
      /\ asked \in [Nodes -> [Users -> Nat]] /\ owed \in [Nodes -> [Users -> Nat]]
      /\ call \in [Nodes -> Calls] /\ owed[n][me] \in Nat
      BY <1>a, <1>b
<1> USE DEF NotAwaited, Expected
<1>1. CASE subscribe(n)  BY <1>0, <1>1 DEF subscribe, Ask
<1>t. TakeEntry(n) => ids'[n] = 0 \/ n \in doubled'  BY TakeOne DEF TInv
<1>2. CASE unsubscribe(n)  BY <1>0, <1>2, <1>t DEF unsubscribe, subVars
<1>3. CASE root_subscribe(n)
  <2>1. CASE JoinWithData(n, me)  BY <1>0, <1>3, <1>t, <2>1 DEF root_subscribe, BeginUpdate, JoinWithData
  <2>2. CASE Owe(n, me)
    <3>1. owed'[n][me] > 0  BY <1>0, <2>2 DEF Owe
    <3>2. call'[n] \notin {"unsubscribe", "unsubscribe_ack"}  BY <1>0, <1>3 DEF root_subscribe
    <3> QED  BY <3>1, <3>2
  <2>3. CASE JoinWaiting(n, me) \/ Join(n, me)
    <3>1. me \in subs'[n] \cup wait'[n]  BY <1>0, <2>3 DEF JoinWaiting, Join
    <3>2. call'[n] \notin {"unsubscribe", "unsubscribe_ack"}  BY <1>0, <1>3 DEF root_subscribe
    <3> QED  BY <3>1, <3>2
  <2> QED  BY <1>3, <2>1, <2>2, <2>3 DEF root_subscribe
<1>4. CASE root_unsubscribe(n)  BY <1>0, <1>4 DEF root_unsubscribe
<1>5. CASE answer_unsubscribe(n)  BY <1>0, <1>5 DEF answer_unsubscribe, subVars
<1>6. CASE collect(n)  BY <1>0, <1>6 DEF collect, subVars
<1>7. CASE root_asks(n)  BY <1>7 DEF root_asks, clientVars, AskAdapter
<1>8. CASE root_answers_quietly(n)
  <2>1. UNCHANGED <<call, ids, doubled>>  BY <1>8 DEF root_answers_quietly, clientVars
  <2>2. CASE AdmitNobody(n, me)  BY <2>1, <2>2 DEF AdmitNobody
  <2>3. CASE AdmitQuietly(n, me)
    <3>1. me \in subs'[n]  BY <1>0, <2>3 DEF AdmitQuietly
    <3> QED  BY <2>1, <3>1
  <2>4. CASE Refuse(n, me)
    <3>1. owed'[n][me] > 0  BY <1>0, <2>4 DEF Refuse
    <3> QED  BY <2>1, <3>1
  <2> QED  BY <1>8, <2>2, <2>3, <2>4 DEF root_answers_quietly
<1>9. CASE on_update(n)  BY <1>9, <1>t DEF on_update, BeginUpdate
<1>10. CASE on_error(n)  BY <1>10, <1>t DEF on_error, TakeId
<1>11. CASE update_messages(n)  BY <1>0, <1>11 DEF update_messages, subVars
<1>12. CASE error_message(n)  BY <1>12 DEF error_message, subVars
<1> QED  BY <1>1, <1>2, <1>3, <1>4, <1>5, <1>6, <1>7, <1>8, <1>9, <1>10, <1>11, <1>12
         DEF NodeStep, CallStep, CallBack

(* A step about a node ends nothing but by undefined behaviour, and begins *)
(* nothing anew.                                                           *)
LEMMA NotOver ==
    ASSUME NEW n \in Nodes, NodeStep(n), ~Over'
    PROVE  ~Over \/ broken
BY DEF Over, NodeStep, subscribe, unsubscribe, CallStep, root_subscribe, root_unsubscribe,
       answer_unsubscribe, collect, root_asks, CallBack, root_answers_quietly, on_update,
       on_error, update_messages, error_message, endVars

LEMMA AInvStep ==
    ASSUME TInv, AInv, [Next]_vars
    PROVE  AInv'
<1>1. ASSUME NEW n \in Nodes, NodeStep(n), Next PROVE AInv'
  <2>0. ~broken  BY <1>1 DEF Next
  <2> SUFFICES ASSUME NEW m \in Nodes PROVE Single(m)' /\ NotAwaited(m)' /\ (Over' \/ Expected(m)')  BY DEF AInv
  <2>1. Over' \/ ~Over  BY <1>1, <2>0, NotOver
  <2>2. CASE m # n
    <3>1. SameAt(m)  BY <1>1, <2>2, OtherNodes
    <3> QED  BY <2>1, <3>1 DEF AInv, Single, NotAwaited, Expected, SameAt
  <2>3. CASE m = n
    <3>s. Single(n)'  BY <1>1, SingleStep DEF TInv, AInv
    <3>1. CASE ~Over  BY <1>1, <2>3, <3>s, <3>1, AckStep DEF AInv
    <3>2. CASE Over
      <4>1. NotAwaited(n)'
        <5>1. call \in [Nodes -> Calls] /\ NotAwaited(n)  BY DEF TInv, RestType, AInv
        <5>2. TakeEntry(n) => ids'[n] = 0 \/ n \in doubled'  BY TakeOne DEF TInv, AInv
        <5> QED  BY <1>1, <5>1, <5>2
               DEF NotAwaited, NodeStep, subscribe, unsubscribe, CallStep, root_subscribe,
                   root_unsubscribe, answer_unsubscribe, collect, root_asks, CallBack,
                   root_answers_quietly, on_update, on_error, update_messages, error_message,
                   clientVars, BeginUpdate, TakeId
      <4> QED  BY <2>1, <2>3, <3>s, <3>2, <4>1
    <3> QED  BY <3>1, <3>2
  <2> QED  BY <2>2, <2>3
<1>2. CASE (\A n \in Nodes : SameAt(n)) /\ (Over => Over')
      BY <1>2 DEF AInv, Single, NotAwaited, Expected, SameAt
<1>3. CASE EndStep  BY <1>3 DEF EndStep, clientVars, AInv, Single, NotAwaited
<1>4. CASE UNCHANGED vars
      BY <1>4 DEF vars, subVars, clientVars, endVars, AInv, Single, NotAwaited, Expected, Over
<1> QED  BY <1>1, <1>2, <1>3, <1>4, NodeSteps

(* subscription_ids_ (session.cpp:79-127): the acknowledgement that the    *)
(* client waits for can still come, whatever root and the client's other   *)
(* requests do meanwhile.  Of a client that subscribes again before it     *)
(* came it is not said: each call back takes one entry of the multimap     *)
(* (session.cpp:354), and one may stay that nothing takes.                 *)
THEOREM AckIsExpected == Spec => []AckCanCome
<1>1. SessionInit => AInv
  <2> SUFFICES ASSUME SessionInit, NEW n \in Nodes
               PROVE  Single(n) /\ NotAwaited(n) /\ Expected(n)
      BY DEF AInv
  <2>1. ids[n] = 0  BY DEF SessionInit
  <2> QED  BY <2>1 DEF Single, NotAwaited, Expected
<1>2. TInv /\ AInv /\ [Next]_vars => AInv'  BY AInvStep
<1>3. TInv /\ AInv => AckCanCome
  <2> SUFFICES ASSUME TInv, AInv, NEW n \in Nodes, ids[n] # 0, n \notin doubled, ~Over
               PROVE  call[n] = "subscribe" \/ me \in subs[n] \cup wait[n] \/ owed[n][me] > 0
      BY DEF Over, AckCanCome
  <2>1. ids[n] > 0  BY DEF TInv, RestType
  <2>2. Expected(n)  BY DEF AInv
  <2> QED  BY <2>1, <2>2 DEF Expected
<1> QED  BY <1>1, <1>2, <1>3, SessionInvariant, PTL DEF Spec

-----------------------------------------------------------------------------
(* What the client is told by the messages that were handed over and those *)
(* that are stored.                                                        *)

Told(n) == Learned(known, messages, n, Len(messages))

NoneEarly == early = {} /\ EarlyIn(known, messages) = {}

(* One message more, by what it does to the client that knew t of n. *)
After(t, a, n) ==
    IF IsAnswer(a, n) THEN (IF a.kind = "subscribed" THEN "yes" ELSE "no") ELSE t

Extends(all, ms, a) ==
    /\ ms \in Seq(Messages) /\ all \in Seq(Messages)
    /\ Len(all) = Len(ms) + 1
    /\ all[Len(ms) + 1] = a
    /\ \A i \in 1 .. Len(ms) : all[i] = ms[i]

LEMMA ExtendedByOne ==
    ASSUME NEW ms \in Seq(Messages), NEW a \in Messages
    PROVE  Extends(ms \o <<a>>, ms, a)
BY DEF Extends

LEMMA Joined ==
    ASSUME NEW ms \in Seq(Messages), NEW new \in Seq(Messages)
    PROVE  /\ ms \o new \in Seq(Messages) /\ Len(ms \o new) = Len(ms) + Len(new)
           /\ \A i \in 1 .. Len(ms) : (ms \o new)[i] = ms[i]
           /\ \A i \in 1 .. Len(new) : (ms \o new)[Len(ms) + i] = new[i]
<1>1. Len(ms \o new) = Len(ms) + Len(new)  OBVIOUS
<1>2. ASSUME NEW i \in 1 .. Len(ms) PROVE (ms \o new)[i] = ms[i]  BY <1>2
<1>3. ASSUME NEW i \in 1 .. Len(new) PROVE (ms \o new)[Len(ms) + i] = new[i]  BY <1>3
<1>4. ms \o new \in Seq(Messages)  OBVIOUS
<1> QED  BY <1>1, <1>2, <1>3, <1>4

LEMMA ExtendedByTwo ==
    ASSUME NEW ms \in Seq(Messages), NEW a \in Messages, NEW b \in Messages,
           NEW new \in Seq(Messages), Len(new) = 2, new[1] = a, new[2] = b
    PROVE  Extends(ms \o new, ms \o <<a>>, b)
<1>1. PICK mid, all : mid = ms \o <<a>> /\ all = ms \o new  OBVIOUS
<1>2. /\ mid \in Seq(Messages) /\ Len(mid) = Len(ms) + 1 /\ mid[Len(ms) + 1] = a
      /\ \A i \in 1 .. Len(ms) : mid[i] = ms[i]
      BY <1>1
<1>3. all \in Seq(Messages) /\ Len(all) = Len(ms) + 2
      /\ (\A i \in 1 .. Len(ms) : all[i] = ms[i])
      /\ all[Len(ms) + 1] = a /\ all[Len(ms) + 2] = b
  <2>1. all = ms \o new  BY <1>1
  <2>2. /\ all \in Seq(Messages) /\ Len(all) = Len(ms) + Len(new)
        /\ \A i \in 1 .. Len(ms) : all[i] = ms[i]
        /\ \A i \in 1 .. Len(new) : all[Len(ms) + i] = new[i]
        BY <2>1, Joined, Zenon
  <2>3. 1 \in 1 .. Len(new) /\ 2 \in 1 .. Len(new)  OBVIOUS
  <2> QED  BY <2>2, <2>3
<1>6. Len(ms) \in Nat  OBVIOUS
<1>7. Extends(all, mid, b)
  <2>1. \A i \in 1 .. Len(mid) : i \in 1 .. Len(ms) \/ i = Len(ms) + 1  BY <1>2, <1>6
  <2>2. \A i \in 1 .. Len(mid) : all[i] = mid[i]  BY <1>2, <1>3, <2>1
  <2>3. Len(all) = Len(mid) + 1 /\ Len(mid) + 1 = Len(ms) + 2  BY <1>2, <1>3, <1>6
  <2> QED  BY <1>2, <1>3, <2>2, <2>3 DEF Extends
<1> QED  BY <1>1, <1>7

LEMMA LearnedBefore ==
    ASSUME NEW all, NEW ms, NEW a, Extends(all, ms, a), NEW before, NEW n,
           NEW i \in 0 .. Len(ms)
    PROVE  Learned(before, all, n, i) = Learned(before, ms, n, i)
<1>1. \A j \in 1 .. i : all[j] = ms[j]  BY DEF Extends
<1>2. AnswersIn(all, n, i) = AnswersIn(ms, n, i)  BY <1>1 DEF AnswersIn
<1>3. \A j \in AnswersIn(ms, n, i) : all[j] = ms[j]  BY <1>1 DEF AnswersIn
<1> QED  BY <1>2, <1>3 DEF Learned

LEMMA LearnedAfter ==
    ASSUME NEW all, NEW ms, NEW a, Extends(all, ms, a), NEW before, NEW n
    PROVE  Learned(before, all, n, Len(all)) = After(Learned(before, ms, n, Len(ms)), a, n)
<1> DEFINE L == Len(ms)
<1>0. L \in Nat /\ Len(all) = L + 1 /\ all[L + 1] = a  BY DEF Extends
<1>1. CASE IsAnswer(a, n)
  <2>1. L + 1 \in AnswersIn(all, n, L + 1)  BY <1>0, <1>1 DEF AnswersIn
  <2>2. \A j \in AnswersIn(all, n, L + 1) : j \in Nat /\ j <= L + 1  BY <1>0 DEF AnswersIn
  <2>3. \A j \in AnswersIn(all, n, L + 1) :
           (\A k \in AnswersIn(all, n, L + 1) : k <= j) <=> j = L + 1
        BY <1>0, <2>1, <2>2
  <2>4. (\E j \in AnswersIn(all, n, L + 1) :
            all[j].kind = "subscribed" /\ \A k \in AnswersIn(all, n, L + 1) : k <= j)
        <=> a.kind = "subscribed"
        BY <1>0, <2>1, <2>3
  <2> QED  BY <1>0, <1>1, <2>1, <2>4 DEF Learned, After
<1>2. CASE ~IsAnswer(a, n)
  <2>1. AnswersIn(all, n, L + 1) = AnswersIn(all, n, L)  BY <1>0, <1>2 DEF AnswersIn
  <2>2. Learned(before, all, n, L + 1) = Learned(before, all, n, L)  BY <2>1 DEF Learned
  <2>3. Learned(before, all, n, L) = Learned(before, ms, n, L)  BY <1>0, LearnedBefore
  <2> QED  BY <1>0, <1>2, <2>2, <2>3 DEF After
<1> QED  BY <1>1, <1>2

LEMMA EarlyAfter ==
    ASSUME NEW all, NEW ms, NEW a, Extends(all, ms, a), NEW before,
           EarlyIn(before, ms) = {},
           \A n \in Nodes : a = Msg("update", n) => Learned(before, ms, n, Len(ms)) # "no"
    PROVE  EarlyIn(before, all) = {}
<1> SUFFICES ASSUME NEW n \in Nodes, NEW i \in 1 .. Len(all), all[i] = Msg("update", n),
                    Learned(before, all, n, i) = "no"
             PROVE  FALSE
    BY DEF EarlyIn
<1>0. Len(ms) \in Nat /\ Len(all) = Len(ms) + 1 /\ all[Len(ms) + 1] = a  BY DEF Extends
<1>1. CASE i \in 1 .. Len(ms)
  <2>1. ms[i] = Msg("update", n)  BY <1>1 DEF Extends
  <2>2. Learned(before, ms, n, i) = "no"  BY <1>0, <1>1, LearnedBefore
  <2> QED  BY <1>1, <2>1, <2>2 DEF EarlyIn
<1>2. CASE i = Len(ms) + 1
  <2>1. a = Msg("update", n)  BY <1>0, <1>2
  <2>2. Learned(before, all, n, Len(all)) = After(Learned(before, ms, n, Len(ms)), a, n)
        BY LearnedAfter
  <2>3. ~IsAnswer(a, n)  BY <2>1 DEF IsAnswer, Msg
  <2> QED  BY <1>0, <1>2, <2>1, <2>2, <2>3 DEF After
<1> QED  BY <1>0, <1>1, <1>2

LEMMA DropLength ==
    ASSUME NEW ms \in Seq(Messages), NEW k \in 0 .. Len(ms)
    PROVE  Len(Drop(ms, k)) \in Nat /\ Len(Drop(ms, k)) + k = Len(ms)
BY DEF Drop

(* The first k messages are dropped: the client knows what all of them     *)
(* would have told, or is not followed any more.                           *)
LEMMA LearnedDropped ==
    ASSUME Patient, NEW ms \in Seq(Messages), NEW k \in 0 .. Len(ms), NEW d, d = Drop(ms, k),
           NEW n \in Nodes, NEW i \in 0 .. Len(d)
    PROVE  Learned(Lost(ms, k), d, n, i) \in {"lost", Learned(known, ms, n, i + k)}
<1>0. Len(d) = Len(ms) - k /\ \A j \in 1 .. Len(d) : d[j] = ms[j + k]  BY DEF Drop
<1>1. k \in Nat /\ i \in Nat /\ Len(ms) \in Nat /\ i + k <= Len(ms)  BY <1>0
<1> DEFINE D == AnswersIn(d, n, i)
           A == AnswersIn(ms, n, i + k)
<1>2. \A j \in D : j \in Nat /\ j + k \in A /\ d[j] = ms[j + k]  BY <1>0, <1>1 DEF AnswersIn
<1>3. \A j \in A : j \in Nat /\ (j > k => j - k \in D) /\ (j <= k => j \in AnswersIn(ms, n, k))
      BY <1>0, <1>1 DEF AnswersIn
<1>4. CASE D # {}
  <2>1. A # {}  BY <1>2, <1>4
  <2> HIDE DEF D, A
  <2>2. ASSUME NEW j \in D, \A l \in D : l <= j PROVE \A l \in A : l <= j + k
    <3> TAKE l \in A
    <3>1. CASE l > k
      <4>1. l - k \in D /\ l \in Nat /\ j \in Nat  BY <1>2, <1>3, <3>1
      <4>2. l - k <= j  BY <2>2, <4>1
      <4> QED  BY <1>1, <4>1, <4>2
    <3>2. CASE l <= k  BY <1>1, <1>2, <1>3, <3>2
    <3> QED  BY <1>1, <1>3, <3>1, <3>2
  <2>3. ASSUME NEW j \in A, \A l \in A : l <= j PROVE j > k /\ j - k \in D /\ \A l \in D : l <= j - k
    <3>1. PICK l \in D : TRUE  BY <1>4
    <3>2. l \in Nat /\ l + k <= j /\ l > 0  BY <1>2, <2>3 DEF D, AnswersIn
    <3>3. j > k  BY <1>1, <1>3, <3>2
    <3>4. \A h \in D : h \in Nat /\ h + k <= j  BY <1>2, <2>3
    <3> QED  BY <1>1, <1>3, <3>3, <3>4
  <2>4. (\E j \in D : d[j].kind = "subscribed" /\ \A l \in D : l <= j)
        <=> (\E j \in A : ms[j].kind = "subscribed" /\ \A l \in A : l <= j)
    <3>1. ASSUME NEW j \in D, d[j].kind = "subscribed", \A l \in D : l <= j
          PROVE  \E h \in A : ms[h].kind = "subscribed" /\ \A l \in A : l <= h
          BY <1>2, <2>2, <3>1
    <3>2. ASSUME NEW j \in A, ms[j].kind = "subscribed", \A l \in A : l <= j
          PROVE  \E h \in D : d[h].kind = "subscribed" /\ \A l \in D : l <= h
      <4>1. j > k /\ j - k \in D /\ \A l \in D : l <= j - k  BY <2>3, <3>2
      <4>2. d[j - k] = ms[j]  BY <1>1, <1>2, <1>3, <4>1
      <4> QED  BY <3>2, <4>1, <4>2
    <3> QED  BY <3>1, <3>2
  <2> QED  BY <1>4, <2>1, <2>4 DEF Learned, D, A
<1>5. CASE D = {}
  <2>1. Learned(Lost(ms, k), d, n, i) = Lost(ms, k)[n]  BY <1>5 DEF Learned
  <2>2. CASE AnswersIn(ms, n, k) # {}  BY <2>1, <2>2 DEF Lost
  <2>3. CASE AnswersIn(ms, n, k) = {}
    <3>1. A = {}  BY <1>1, <1>3, <1>5, <2>3
    <3>2. Learned(known, ms, n, i + k) = known[n]  BY <3>1 DEF Learned
    <3> QED  BY <2>1, <2>3, <3>2 DEF Lost
  <2> QED  BY <2>2, <2>3
<1> QED  BY <1>4, <1>5

LEMMA EarlyDropped ==
    ASSUME Patient, NEW ms \in Seq(Messages), NEW k \in 0 .. Len(ms), NEW d, d = Drop(ms, k),
           EarlyIn(known, ms) = {}
    PROVE  EarlyIn(Lost(ms, k), d) = {}
<1>0. Len(d) = Len(ms) - k /\ \A j \in 1 .. Len(d) : d[j] = ms[j + k]  BY DEF Drop
<1> SUFFICES ASSUME NEW n \in Nodes, NEW i \in 1 .. Len(d), d[i] = Msg("update", n),
                    Learned(Lost(ms, k), d, n, i) = "no"
             PROVE  FALSE
    BY DEF EarlyIn
<1>1. i \in 0 .. Len(d) /\ i + k \in 1 .. Len(ms) /\ ms[i + k] = Msg("update", n)  BY <1>0
<1>2. Learned(known, ms, n, i + k) = "no"  BY <1>1, LearnedDropped
<1> QED  BY <1>1, <1>2 DEF EarlyIn

LEMMA NothingStored ==
    ASSUME NEW before, NEW n
    PROVE  Learned(before, <<>>, n, 0) = before[n] /\ EarlyIn(before, <<>>) = {}
<1>1. AnswersIn(<<>>, n, 0) = {}  BY DEF AnswersIn
<1>2. Len(<<>>) = 0  OBVIOUS
<1> QED  BY <1>1, <1>2 DEF Learned, EarlyIn

(* What is stored is handed over, and means the same. *)
LEMMA TakeTells ==
    ASSUME Patient, TakeMessages
    PROVE  /\ \A n \in Nodes : Told(n)' = Told(n)
           /\ NoneEarly => NoneEarly'
<1>1. messages' = <<>> /\ known' = [n \in Nodes |-> Told(n)]
      /\ early' = early \cup EarlyIn(known, messages)
      BY DEF TakeMessages, HandOver, Told
<1>2. Len(<<>>) = 0  OBVIOUS
<1>3. \A n \in Nodes : Learned(known', <<>>, n, 0) = known'[n]  BY NothingStored
<1>4. EarlyIn(known', <<>>) = {}  BY NothingStored
<1>5. ASSUME NEW n \in Nodes PROVE Told(n)' = Told(n)
  <2>1. Told(n)' = Learned(known', <<>>, n, 0)  BY <1>1, <1>2 DEF Told
  <2> QED  BY <1>1, <1>3, <2>1
<1> QED  BY <1>1, <1>4, <1>5 DEF NoneEarly

(* So is what is added, unless something is dropped. *)
LEMMA NotifyTells ==
    ASSUME Patient, NEW new, NEW all \in Seq(Messages), all = messages \o new,
           add_messages_and_notify(new)
    PROVE  /\ \A n \in Nodes : Told(n)' \in {"lost", Learned(known, all, n, Len(all))}
           /\ early = {} /\ EarlyIn(known, all) = {} => NoneEarly'
<1>1. PICK k \in 0 .. Len(all) :
        \/ http_connection # None /\ messages' = <<>> /\ HandOver(Lost(all, k), Drop(all, k))
        \/ http_connection = None /\ messages' = Drop(all, k) /\ known' = Lost(all, k)
           /\ UNCHANGED early
      BY DEF add_messages_and_notify
<1>2. PICK d : d = Drop(all, k)  OBVIOUS
<1>k. k \in 0 .. Len(all)  BY <1>1
<1>3. Len(d) \in Nat /\ Len(d) + k = Len(all)  BY <1>k, <1>2, DropLength
<1>4. \A n \in Nodes : Learned(Lost(all, k), d, n, Len(d)) \in {"lost", Learned(known, all, n, Len(all))}
  <2> TAKE n \in Nodes
  <2>1. Len(d) \in 0 .. Len(d)  BY <1>3
  <2>2. Learned(Lost(all, k), d, n, Len(d)) \in {"lost", Learned(known, all, n, Len(d) + k)}
        BY <1>2, <2>1, LearnedDropped
  <2> QED  BY <1>3, <2>2
<1>5. EarlyIn(known, all) = {} => EarlyIn(Lost(all, k), d) = {}  BY <1>2, EarlyDropped
<1>6. CASE messages' = d /\ known' = Lost(all, k) /\ UNCHANGED early
  <2>1. \A n \in Nodes : Told(n)' = Learned(Lost(all, k), d, n, Len(d))  BY <1>6 DEF Told
  <2>2. NoneEarly' <=> (early = {} /\ EarlyIn(Lost(all, k), d) = {})  BY <1>6 DEF NoneEarly
  <2> QED  BY <1>4, <1>5, <2>1, <2>2
<1>7. CASE messages' = <<>> /\ HandOver(Lost(all, k), d)
  <2>1. /\ known' = [n \in Nodes |-> Learned(Lost(all, k), d, n, Len(d))]
        /\ early' = early \cup EarlyIn(Lost(all, k), d)
        BY <1>7 DEF HandOver
  <2>2. Len(<<>>) = 0  OBVIOUS
  <2>3. ASSUME NEW n \in Nodes PROVE Told(n)' = Learned(Lost(all, k), d, n, Len(d))
    <3>1. Told(n)' = Learned(known', <<>>, n, 0)  BY <1>7, <2>2 DEF Told
    <3>2. Learned(known', <<>>, n, 0) = known'[n]  BY NothingStored
    <3> QED  BY <2>1, <3>1, <3>2
  <2>4. EarlyIn(known', <<>>) = {}  BY NothingStored
  <2>5. NoneEarly' <=> (early \cup EarlyIn(Lost(all, k), d) = {})
        BY <1>7, <2>1, <2>4 DEF NoneEarly
  <2> QED  BY <1>4, <1>5, <2>3, <2>5
<1> QED  BY <1>1, <1>2, <1>6, <1>7

LEMMA OneTold ==
    ASSUME Patient, MessageType, NEW a \in Messages, add_messages_and_notify(<<a>>)
    PROVE  /\ \A n \in Nodes : Told(n)' \in {"lost", After(Told(n), a, n)}
           /\ NoneEarly /\ (\A n \in Nodes : a = Msg("update", n) => Told(n) # "no") => NoneEarly'
<1>0. messages \in Seq(Messages)  BY DEF MessageType
<1>1. PICK all : all = messages \o <<a>>  OBVIOUS
<1>2. Extends(all, messages, a)  BY <1>0, <1>1, ExtendedByOne
<1>3. all \in Seq(Messages)  BY <1>2 DEF Extends
<1>4. \A n \in Nodes : Learned(known, all, n, Len(all)) = After(Told(n), a, n)
      BY <1>2, LearnedAfter DEF Told
<1>5. NoneEarly /\ (\A n \in Nodes : a = Msg("update", n) => Told(n) # "no")
        => EarlyIn(known, all) = {}
      BY <1>2, EarlyAfter DEF NoneEarly, Told
<1>6. /\ \A n \in Nodes : Told(n)' \in {"lost", Learned(known, all, n, Len(all))}
      /\ early = {} /\ EarlyIn(known, all) = {} => NoneEarly'
      BY <1>1, <1>3, NotifyTells
<1> QED  BY <1>4, <1>5, <1>6 DEF NoneEarly

LEMMA TwoTold ==
    ASSUME Patient, MessageType, NEW a \in Messages, NEW b \in Messages,
           NEW new \in Seq(Messages), Len(new) = 2, new[1] = a, new[2] = b,
           add_messages_and_notify(new), a.kind # "update"
    PROVE  /\ \A n \in Nodes : Told(n)' \in {"lost", After(After(Told(n), a, n), b, n)}
           /\ NoneEarly
              /\ (\A n \in Nodes : b = Msg("update", n) => After(Told(n), a, n) # "no")
              => NoneEarly'
<1>0. messages \in Seq(Messages)  BY DEF MessageType
<1>1. PICK mid : mid = messages \o <<a>>  OBVIOUS
<1>2. PICK all : all = messages \o new  OBVIOUS
<1>3. Extends(mid, messages, a)  BY <1>0, <1>1, ExtendedByOne
<1>4. Extends(all, mid, b)  BY <1>0, <1>1, <1>2, ExtendedByTwo
<1>5. all \in Seq(Messages)  BY <1>4 DEF Extends
<1>6. \A n \in Nodes : Learned(known, mid, n, Len(mid)) = After(Told(n), a, n)
      BY <1>3, LearnedAfter DEF Told
<1>7. \A n \in Nodes : Learned(known, all, n, Len(all)) = After(After(Told(n), a, n), b, n)
  <2> TAKE n \in Nodes
  <2>1. Learned(known, all, n, Len(all)) = After(Learned(known, mid, n, Len(mid)), b, n)
        BY <1>4, LearnedAfter
  <2> QED  BY <1>6, <2>1
<1>8. NoneEarly => EarlyIn(known, mid) = {}
  <2>1. \A n \in Nodes : a # Msg("update", n)  BY DEF Msg
  <2> QED  BY <1>3, <2>1, EarlyAfter DEF NoneEarly
<1>9. NoneEarly /\ (\A n \in Nodes : b = Msg("update", n) => After(Told(n), a, n) # "no")
        => EarlyIn(known, all) = {}
      BY <1>4, <1>6, <1>8, EarlyAfter
<1>10. /\ \A n \in Nodes : Told(n)' \in {"lost", Learned(known, all, n, Len(all))}
       /\ early = {} /\ EarlyIn(known, all) = {} => NoneEarly'
      BY <1>2, <1>5, NotifyTells
<1> QED  BY <1>7, <1>9, <1>10 DEF NoneEarly

-----------------------------------------------------------------------------
(* Which messages are added by the steps about a node *)

(* Another node is not affected, or an answer about it is dropped. *)
OthersTold(n) == \A m \in Nodes : m # n => Told(m)' \in {"lost", Told(m)}

LEMMA AnswerTells ==
    ASSUME Patient, MessageType, NEW n \in Nodes, answer_unsubscribe(n)
    PROVE  OthersTold(n) /\ Told(n)' \in {"lost", "no"} /\ (NoneEarly => NoneEarly')
<1>0. \A k \in Kinds : Msg(k, n) \in Messages  BY DEF Msg, Messages
<1>1. PICK a \in {Msg("unsubscribed", n), Msg("not_subscribed", n)} :
        \/ add_messages_and_notify(Append(<<>>, a))
        \/ add_messages_and_notify(Append(<<Msg("subscribed", n)>>, a))
      BY DEF answer_unsubscribe
<1>2. a \in Messages /\ Msg("subscribed", n) \in Messages  BY <1>0 DEF Kinds
<1>3. /\ a.node = n /\ a.kind \in {"unsubscribed", "not_subscribed"}
      /\ Msg("subscribed", n).kind # "update" /\ Msg("subscribed", n).node = n
      BY DEF Msg
<1>4. Append(<<>>, a) = <<a>>  OBVIOUS
<1>5. \A m \in Nodes : a # Msg("update", m)  BY <1>3 DEF Msg
<1>6. CASE add_messages_and_notify(<<a>>)
  <2>1. /\ \A m \in Nodes : Told(m)' \in {"lost", After(Told(m), a, m)}
        /\ NoneEarly => NoneEarly'
        BY <1>2, <1>5, <1>6, OneTold
  <2> QED  BY <1>3, <2>1 DEF After, IsAnswer, OthersTold
<1>7. CASE add_messages_and_notify(Append(<<Msg("subscribed", n)>>, a))
  <2>0. PICK s \in Messages : s = Msg("subscribed", n)  BY <1>2
  <2>n. PICK new : new = Append(<<s>>, a)  OBVIOUS
  <2>l. new \in Seq(Messages) /\ Len(new) = 2 /\ new[1] = s /\ new[2] = a  BY <1>2, <2>n
  <2>m. add_messages_and_notify(new)  BY <1>7, <2>0, <2>n
  <2>1. /\ \A m \in Nodes : Told(m)' \in {"lost", After(After(Told(m), s, m), a, m)}
        /\ NoneEarly => NoneEarly'
        BY <1>2, <1>3, <1>5, <2>0, <2>l, <2>m, TwoTold
  <2> QED  BY <1>3, <2>0, <2>1 DEF After, IsAnswer, OthersTold
<1> QED  BY <1>1, <1>4, <1>6, <1>7

LEMMA ErrorTells ==
    ASSUME Patient, MessageType, NEW n \in Nodes, error_message(n)
    PROVE  OthersTold(n) /\ Told(n)' \in {"lost", "no"} /\ (NoneEarly => NoneEarly')
<1>1. PICK a : a = Msg("refused", n)  OBVIOUS
<1>2. a \in Messages /\ a.node = n /\ a.kind = "refused"
      BY <1>1 DEF Msg, Messages, Kinds
<1>3. add_messages_and_notify(<<a>>)  BY <1>1 DEF error_message
<1>4. \A m \in Nodes : a # Msg("update", m)  BY <1>2 DEF Msg
<1>5. /\ \A m \in Nodes : Told(m)' \in {"lost", After(Told(m), a, m)}
      /\ NoneEarly => NoneEarly'
      BY <1>2, <1>3, <1>4, OneTold
<1> QED  BY <1>2, <1>5 DEF After, IsAnswer, OthersTold

(* The first update brings the acknowledgement; a later one changes        *)
(* nothing, and the client must have been acknowledged.                    *)
LEMMA UpdateTells ==
    ASSUME Patient, MessageType, NEW n \in Nodes, update_messages(n)
    PROVE  /\ OthersTold(n)
           /\ held[n] = "ack" => Told(n)' \in {"lost", "yes"}
           /\ held[n] # "ack" => Told(n)' \in {"lost", Told(n)}
           /\ NoneEarly /\ (held[n] # "ack" => Told(n) # "no") => NoneEarly'
<1>1. PICK s, u : s = Msg("subscribed", n) /\ u = Msg("update", n)  OBVIOUS
<1>2. /\ s \in Messages /\ s.node = n /\ s.kind = "subscribed"
      /\ u \in Messages /\ u.node = n /\ u.kind = "update"
      BY <1>1 DEF Msg, Messages, Kinds
<1>3. \/ held[n] = "ack" /\ add_messages_and_notify(<<s>>)
      \/ held[n] = "ack" /\ add_messages_and_notify(<<s>> \o <<u>>)
      \/ held[n] # "ack" /\ add_messages_and_notify(<<u>>)
      \/ held[n] # "ack" /\ UNCHANGED <<messages, toldVars>>
  <2>1. PICK update_msg \in {<<>>, <<u>>} :
          LET new == (IF held[n] = "ack" THEN <<s>> ELSE <<>>) \o update_msg
          IN  IF new # <<>> THEN add_messages_and_notify(new)
                            ELSE UNCHANGED <<messages, http_connection, answers, toldVars>>
        BY <1>1 DEF update_messages
  <2>2. /\ <<s>> \o <<>> = <<s>> /\ <<>> \o <<u>> = <<u>> /\ <<>> \o <<>> = <<>>
        /\ <<s>> # <<>> /\ <<u>> # <<>>
        BY <1>2
  <2>7. <<s>> \o <<u>> # <<>>
    <3>1. Len(<<s>> \o <<u>>) = 2 /\ Len(<<>>) = 0  BY <1>2
    <3> QED  BY <3>1
  <2>3. CASE held[n] = "ack" /\ update_msg = <<>>  BY <2>1, <2>2, <2>3, Zenon
  <2>4. CASE held[n] = "ack" /\ update_msg = <<u>>  BY <2>1, <2>2, <2>4, <2>7, Zenon
  <2>5. CASE held[n] # "ack" /\ update_msg = <<u>>  BY <2>1, <2>2, <2>5, Zenon
  <2>6. CASE held[n] # "ack" /\ update_msg = <<>>
    <3>1. UNCHANGED <<messages, http_connection, answers, toldVars>>  BY <2>1, <2>2, <2>6, Zenon
    <3> QED  BY <2>6, <3>1
  <2> QED  BY <2>1, <2>3, <2>4, <2>5, <2>6
<1>4. \A m \in Nodes : s # Msg("update", m)  BY <1>2 DEF Msg
<1>5. \A m \in Nodes : u = Msg("update", m) => m = n  BY <1>1 DEF Msg
<1>6. CASE held[n] = "ack" /\ add_messages_and_notify(<<s>>)
  <2>1. /\ \A m \in Nodes : Told(m)' \in {"lost", After(Told(m), s, m)}
        /\ NoneEarly => NoneEarly'
        BY <1>2, <1>4, <1>6, OneTold
  <2> QED  BY <1>2, <1>6, <2>1 DEF After, IsAnswer, OthersTold
<1>7. CASE held[n] = "ack" /\ add_messages_and_notify(<<s>> \o <<u>>)
  <2>n. PICK new : new = <<s>> \o <<u>>  OBVIOUS
  <2>l. new \in Seq(Messages) /\ Len(new) = 2 /\ new[1] = s /\ new[2] = u  BY <1>2, <2>n
  <2>m. add_messages_and_notify(new)  BY <1>7, <2>n
  <2>1. /\ \A m \in Nodes : Told(m)' \in {"lost", After(After(Told(m), s, m), u, m)}
        /\ NoneEarly /\ (\A m \in Nodes : u = Msg("update", m) => After(Told(m), s, m) # "no")
             => NoneEarly'
        BY <1>2, <2>l, <2>m, TwoTold
  <2>2. After(Told(n), s, n) = "yes"  BY <1>2 DEF After, IsAnswer
  <2> QED  BY <1>2, <1>5, <1>7, <2>1, <2>2 DEF After, IsAnswer, OthersTold
<1>8. CASE held[n] # "ack" /\ add_messages_and_notify(<<u>>)
  <2>1. /\ \A m \in Nodes : Told(m)' \in {"lost", After(Told(m), u, m)}
        /\ NoneEarly /\ (\A m \in Nodes : u = Msg("update", m) => Told(m) # "no") => NoneEarly'
        BY <1>2, <1>8, OneTold
  <2> QED  BY <1>2, <1>5, <1>8, <2>1 DEF After, IsAnswer, OthersTold
<1>9. CASE held[n] # "ack" /\ UNCHANGED <<messages, toldVars>>
      BY <1>9 DEF toldVars, Told, NoneEarly, OthersTold
<1> QED  BY <1>3, <1>6, <1>7, <1>8, <1>9

(* All other steps add nothing. *)
Quiet == (\A n \in Nodes : Told(n)' = Told(n)) /\ (NoneEarly => NoneEarly')

LEMMA QuietTells ==
    ASSUME Patient, [Next]_vars
    PROVE  \/ \E n \in Nodes : answer_unsubscribe(n) \/ update_messages(n) \/ error_message(n)
           \/ Quiet
<1>1. CASE UNCHANGED <<messages, toldVars>>  BY <1>1 DEF toldVars, Told, NoneEarly, Quiet
<1>2. CASE TakeMessages  BY <1>2, TakeTells DEF Quiet
<1>3. ASSUME NEW r \in Responses,
             \/ wait_for_events(r) \/ other_field(r)
             \/ RequestStep(r) \/ TimerStep(r) \/ implement_hurry(r)
      PROVE  UNCHANGED <<messages, toldVars>> \/ TakeMessages
      BY <1>3 DEF wait_for_events, other_field, RequestStep, TimerStep, implement_hurry,
             second_connection_detected, start_timer, write_reponse, expire, connection_time_out
<1>4. ASSUME NEW n \in Nodes,
             \/ subscribe(n) \/ unsubscribe(n) \/ root_asks(n) \/ CallBack(n)
             \/ root_subscribe(n) \/ root_unsubscribe(n) \/ collect(n)
      PROVE  UNCHANGED <<messages, toldVars>> \/ TakeMessages
      BY <1>4 DEF subscribe, unsubscribe, root_asks, CallBack, root_answers_quietly,
             on_update, on_error, root_subscribe, root_unsubscribe, collect
<1>5. CASE events \/ close \/ shut_down \/ shut_down_response
  <2>1. UNCHANGED <<messages, toldVars>> \/ TakeMessages
        BY <1>5 DEF events, close, shut_down, shut_down_response
  <2> QED  BY <1>1, <1>2, <2>1
<1>6. CASE UNCHANGED vars  BY <1>1, <1>6 DEF vars
<1> QED  BY <1>1, <1>2, <1>3, <1>4, <1>5, <1>6 DEF Next, CallStep

LEMMA NodeQuiet ==
    ASSUME Patient, NEW n \in Nodes,
           \/ subscribe(n) \/ unsubscribe(n) \/ root_asks(n) \/ CallBack(n)
           \/ root_subscribe(n) \/ root_unsubscribe(n) \/ collect(n)
    PROVE  Told(n)' = Told(n)
<1>1. UNCHANGED <<messages, toldVars>> \/ TakeMessages
      BY DEF subscribe, unsubscribe, root_asks, CallBack, root_answers_quietly,
             on_update, on_error, root_subscribe, root_unsubscribe, collect
<1>2. CASE UNCHANGED <<messages, toldVars>>  BY <1>2 DEF toldVars, Told
<1> QED  BY <1>1, <1>2, TakeTells

LEMMA SameTold ==
    ASSUME Patient, MessageType, [Next]_vars, NEW m \in Nodes,
           ~answer_unsubscribe(m) /\ ~update_messages(m) /\ ~error_message(m)
    PROVE  Told(m)' \in {"lost", Told(m)}
<1>1. ASSUME NEW n \in Nodes, answer_unsubscribe(n) \/ update_messages(n) \/ error_message(n)
      PROVE  Told(m)' \in {"lost", Told(m)}
  <2>1. m # n  BY <1>1
  <2>2. OthersTold(n)  BY <1>1, AnswerTells, UpdateTells, ErrorTells
  <2> QED  BY <2>1, <2>2 DEF OthersTold
<1>2. CASE Quiet  BY <1>2 DEF Quiet
<1> QED  BY <1>1, <1>2, QuietTells

-----------------------------------------------------------------------------
(* A patient client *)

(* At most one question to the adapter, or error call back, is open about  *)
(* a node, and none when the client subscribes to it.                      *)
Open(n) ==
    asked[n][me] + owed[n][me] + refusals[n] + (IF call[n] = "subscribe" THEN 1 ELSE 0)

OneOpen == \A n \in Nodes : Open(n) <= 1

Leaving == {"left", "left_ack", "not_left", "not_left_ack"}

(* The client has not been answered yet. *)
Awaited(n) ==
    ids[n] > 0 =>
        /\ ids[n] = 1
        /\ held[n] = "no" /\ refusals[n] = 0 /\ Told(n) # "yes"
        /\ call[n] \in {"subscribe", "collect", "idle"}

Calling(n) == call[n] = "subscribe" => ids[n] > 0 /\ me \notin subs[n] \cup wait[n]

(* Who is subscribed is, is being or will be acknowledged. *)
Subscribed(n) ==
    me \in subs[n] =>
        /\ me \notin wait[n]
        /\ asked[n][me] = 0 /\ owed[n][me] = 0 /\ refusals[n] = 0
        /\ call[n] \notin Leaving
        /\ ids[n] > 0 \/ held[n] = "ack" \/ Told(n) # "no"

Waiting(n) == me \in wait[n] => ids[n] > 0 /\ owed[n][me] = 0

Updating(n) ==
    /\ held[n] = "update" => me \in subs[n] /\ Told(n) # "no"
    /\ held[n] = "ack" => me \in subs[n]
    /\ held[n] = "error" => me \notin subs[n]

(* Who was acknowledged is subscribed, until it leaves. *)
Acknowledged(n) == Told(n) = "yes" => me \in subs[n] \/ call[n] \in Leaving

Agrees(n) ==
    /\ Awaited(n) /\ Calling(n) /\ Subscribed(n) /\ Waiting(n) /\ Updating(n)
    /\ Over \/ Acknowledged(n)

PInv == NoneEarly /\ \A n \in Nodes : Agrees(n)

LEMMA AgreesStep ==
    ASSUME Patient, TInv, NEW n \in Nodes, NodeStep(n), ~broken, Open(n) <= 1, Agrees(n)
    PROVE  Agrees(n)'
<1> USE SessionAssumption
<1>a. /\ subs \in [Nodes -> SUBSET Users] /\ wait \in [Nodes -> SUBSET Users] /\ me \in Users
      /\ asked \in [Nodes -> [Users -> Nat]] /\ owed \in [Nodes -> [Users -> Nat]]
      /\ call \in [Nodes -> Calls] /\ held \in [Nodes -> Held] /\ refusals \in [Nodes -> Nat]
      /\ ids \in [Nodes -> Nat] /\ known \in [Nodes -> Known]
      BY DEF TInv, SubType, RestType
<1>b. asked[n][me] \in Nat /\ owed[n][me] \in Nat /\ refusals[n] \in Nat  BY <1>a
<1>i. ids[n] \in Nat  BY <1>a
<1>m. MessageType  BY DEF TInv
<1>t. TakeEntry(n) /\ (ids[n] > 0 => ids[n] = 1) => ids'[n] = 0  BY <1>a, <1>i DEF TakeEntry
<1>c. /\ asked[n][me] <= 1
      /\ asked[n][me] = 1 => owed[n][me] = 0 /\ refusals[n] = 0
      /\ call[n] = "subscribe" => asked[n][me] = 0 /\ owed[n][me] = 0 /\ refusals[n] = 0
  <2>1. CASE call[n] = "subscribe"  BY <1>b, <2>1 DEF Open
  <2>2. CASE call[n] # "subscribe"  BY <1>b, <2>2 DEF Open
  <2> QED  BY <2>1, <2>2
<1>d. /\ Awaited(n) /\ Calling(n) /\ Subscribed(n) /\ Waiting(n) /\ Updating(n)
      /\ Over \/ Acknowledged(n)
      BY DEF Agrees
<1> USE DEF Awaited, Calling, Subscribed, Waiting, Updating, Acknowledged, Leaving
<1>1. CASE subscribe(n)
  <2>1. /\ held[n] = "no" /\ refusals[n] = 0 /\ ids[n] = 0 /\ call[n] = "idle"
        /\ AnswersIn(messages, n, Len(messages)) = {} /\ known[n] # "lost" /\ known[n] # "yes"
        /\ ids' = [ids EXCEPT ![n] = @ + 1] /\ call' = [call EXCEPT ![n] = "subscribe"]
        /\ UNCHANGED <<subs, wait, asked, owed, held, refusals>>
        BY <1>1 DEF subscribe, Ready, Answered, Ask
  <2>2. Told(n) = known[n]  BY <2>1 DEF Told, Learned
  <2>3. Told(n) = "no" /\ Told(n)' = "no"  BY <1>1, <1>a, <2>1, <2>2, NodeQuiet DEF Known
  <2>4. call'[n] = "subscribe" /\ ids'[n] = 1 /\ me \notin subs[n] \cup wait[n]
        BY <1>a, <1>d, <2>1, <2>3
  <2> QED  BY <2>1, <2>3, <2>4 DEF Agrees
<1>2. CASE unsubscribe(n)
  <2>1. /\ ids[n] = 0 /\ call[n] = "idle" /\ ids' = ids
        /\ call' = [call EXCEPT ![n] = "unsubscribe"]
        /\ UNCHANGED <<subs, wait, asked, owed, held, refusals, shut, closed, broken>>
        BY <1>2, <1>a DEF unsubscribe, Ready, Answered, TakeEntry, subVars, endVars
  <2>2. call'[n] = "unsubscribe"  BY <1>a, <2>1
  <2>3. Told(n)' = Told(n)  BY <1>2, NodeQuiet
  <2> QED  BY <1>d, <2>1, <2>2, <2>3 DEF Agrees, Over
<1>3. CASE root_subscribe(n)
  <2>1. /\ call[n] = "subscribe" /\ held[n] = "no" /\ ids[n] = 1 /\ me \notin subs[n] \cup wait[n]
        /\ Told(n) # "yes" /\ Told(n)' = Told(n)
        /\ UNCHANGED refusals
        BY <1>3, <1>d, NodeQuiet DEF root_subscribe
  <2>2. CASE /\ JoinWaiting(n, me) \/ Join(n, me) \/ Owe(n, me)
             /\ call' = [call EXCEPT ![n] = "collect"] /\ UNCHANGED <<ids, held>>
    <3>1. call'[n] = "collect"  BY <1>a, <2>2
    <3>2. CASE JoinWaiting(n, me)
      <4>1. /\ wait' = [wait EXCEPT ![n] = @ \cup {me}] /\ UNCHANGED <<subs, asked, owed>>
            BY <3>2 DEF JoinWaiting
      <4> QED  BY <1>c, <1>d, <2>1, <2>2, <3>1, <4>1 DEF Agrees
    <3>3. CASE Join(n, me) \/ Owe(n, me)
      <4>1. /\ UNCHANGED <<wait, asked>>
            /\ \/ subs' = [subs EXCEPT ![n] = @ \cup {me}] /\ UNCHANGED owed
               \/ UNCHANGED subs
            BY <3>3 DEF Join, Owe
      <4> QED  BY <1>a, <1>c, <1>d, <2>1, <2>2, <3>1, <4>1 DEF Agrees
    <3> QED  BY <2>2, <3>2, <3>3
  <2>3. CASE /\ JoinWithData(n, me) /\ BeginUpdate(n)
             /\ call' = [call EXCEPT ![n] = "on_update"]
    <3>1. call'[n] = "on_update" /\ held'[n] = "ack" /\ me \in subs'[n]
          /\ UNCHANGED <<wait, asked, owed>>
          BY <1>a, <2>1, <2>3 DEF BeginUpdate, JoinWithData
    <3>2. ids'[n] = 0  BY <1>t, <2>1, <2>3 DEF BeginUpdate
    <3> QED  BY <1>c, <1>d, <2>1, <3>1, <3>2 DEF Agrees
  <2> QED  BY <1>3, <2>2, <2>3 DEF root_subscribe
<1>4. CASE root_unsubscribe(n)
  <2>1. /\ call[n] \in {"unsubscribe", "unsubscribe_ack"} /\ held[n] = "no"
        /\ UNCHANGED <<ids, held, refusals, asked, owed>>
        /\ me \notin subs'[n] \cup wait'[n]
        BY <1>4 DEF root_unsubscribe, Leave
  <2>2. call'[n] \in Leaving  BY <1>a, <1>4, <2>1 DEF root_unsubscribe
  <2>3. Told(n)' = Told(n)  BY <1>4, NodeQuiet
  <2> QED  BY <1>d, <2>1, <2>2, <2>3 DEF Agrees
<1>5. CASE answer_unsubscribe(n)
  <2>1. /\ call[n] \in Leaving /\ UNCHANGED <<subs, wait, asked, owed, ids, held, refusals>>
        /\ call' = [call EXCEPT ![n] = "collect"]
        BY <1>5 DEF answer_unsubscribe, subVars
  <2>2. call'[n] = "collect"  BY <1>a, <2>1
  <2>3. Told(n)' \in {"lost", "no"}  BY <1>5, <1>m, AnswerTells
  <2> QED  BY <1>i, <1>d, <2>1, <2>2, <2>3 DEF Agrees
<1>6. CASE collect(n)
  <2>1. /\ call[n] = "collect" /\ call' = [call EXCEPT ![n] = "idle"]
        /\ UNCHANGED <<subs, wait, asked, owed, ids, held, refusals, shut, closed, broken>>
        BY <1>6 DEF collect, subVars, endVars
  <2>2. call'[n] = "idle"  BY <1>a, <2>1
  <2>3. Told(n)' = Told(n)  BY <1>6, NodeQuiet
  <2> QED  BY <1>d, <2>1, <2>2, <2>3 DEF Agrees, Over
<1>7. CASE root_asks(n)
  <2>1. /\ me \in wait[n]
        /\ UNCHANGED <<subs, wait, owed, call, ids, held, refusals, shut, closed, broken>>
        BY <1>7 DEF root_asks, AskAdapter, clientVars, endVars
  <2>2. Told(n)' = Told(n)  BY <1>7, NodeQuiet
  <2> QED  BY <1>d, <2>1, <2>2 DEF Agrees, Over
<1>8. CASE root_answers_quietly(n)
  <2>1. UNCHANGED <<call, ids, held, refusals, shut, closed, broken>> /\ held[n] = "no"
        BY <1>8 DEF root_answers_quietly, clientVars, endVars
  <2>t. Told(n)' = Told(n)  BY <1>8, NodeQuiet DEF CallBack
  <2>2. asked[n][me] = 1 /\ asked'[n][me] = 0 /\ me \notin subs[n]
    <3>1. asked[n][me] > 0 /\ asked' = [asked EXCEPT ![n][me] = @ - 1]
          BY <1>8 DEF root_answers_quietly, AdmitNobody, AdmitQuietly, Refuse
    <3>2. asked[n][me] = 1  BY <1>b, <1>c, <3>1
    <3>3. asked'[n][me] = 0  BY <1>a, <3>1, <3>2
    <3> QED  BY <1>d, <3>2, <3>3
  <2>3. CASE AdmitNobody(n, me)
        BY <1>d, <2>1, <2>t, <2>2, <2>3 DEF AdmitNobody, Agrees, Over
  <2>4. CASE AdmitQuietly(n, me)
    <3>1. me \in wait[n] /\ me \notin wait'[n] /\ me \in subs'[n] /\ UNCHANGED owed
          BY <1>a, <2>4 DEF AdmitQuietly
    <3> QED  BY <1>c, <1>d, <2>1, <2>t, <2>2, <3>1 DEF Agrees, Over
  <2>5. CASE Refuse(n, me)
    <3>1. me \notin wait'[n] /\ UNCHANGED subs  BY <1>a, <2>5 DEF Refuse
    <3> QED  BY <1>d, <2>1, <2>t, <2>2, <3>1 DEF Agrees, Over
  <2> QED  BY <1>8, <2>3, <2>4, <2>5 DEF root_answers_quietly
<1>9. CASE on_update(n)
  <2>1. UNCHANGED <<call, refusals, owed, shut, closed, broken>> /\ held[n] = "no"
        BY <1>9 DEF on_update, AdmitWithData, Update, endVars
  <2>t. Told(n)' = Told(n)  BY <1>9, NodeQuiet DEF CallBack
  <2>2. ids'[n] = 0 /\ held'[n] = IF ids[n] > 0 THEN "ack" ELSE "update"
        BY <1>a, <1>d, <1>t, <1>9 DEF on_update, BeginUpdate
  <2>3. me \in subs'[n] /\ me \notin wait'[n] /\ asked'[n][me] = 0 /\ owed[n][me] = 0
        /\ refusals[n] = 0 /\ call[n] \notin Leaving /\ call[n] # "subscribe"
        /\ (ids[n] > 0 \/ Told(n) # "no")
    <3>1. CASE AdmitWithData(n, me)
      <4>1. asked[n][me] > 0 /\ me \in wait[n] /\ asked' = [asked EXCEPT ![n][me] = @ - 1]
            /\ me \in subs'[n] /\ me \notin wait'[n]
            BY <1>a, <3>1 DEF AdmitWithData
      <4>2. asked[n][me] = 1  BY <1>b, <1>c, <4>1
      <4>3. asked'[n][me] = 0  BY <1>a, <4>1, <4>2
      <4> QED  BY <1>c, <1>d, <4>1, <4>2, <4>3
    <3>2. CASE me \in subs[n] /\ Update(n)
          BY <1>d, <2>1, <3>2 DEF Update
    <3> QED  BY <1>9, <3>1, <3>2 DEF on_update
  <2> QED  BY <1>i, <1>d, <2>1, <2>t, <2>2, <2>3 DEF Agrees, Over
<1>10. CASE on_error(n)
  <2>1. /\ UNCHANGED <<call, asked>> /\ broken' = (ids[n] = 0)
        BY <1>10 DEF on_error, TakeId, TellError, FailNode
  <2>2. ids'[n] = 0  BY <1>d, <1>t, <1>10 DEF on_error, TakeId
  <2>3. Told(n)' = Told(n)  BY <1>10, NodeQuiet DEF CallBack
  <2>4. Over' \/ Told(n)' # "yes"
    <3>1. CASE ids[n] = 0
      <4>1. broken'  BY <2>1, <3>1, Zenon
      <4> QED  BY <4>1 DEF Over
    <3>2. CASE ids[n] > 0  BY <1>d, <2>3, <3>2
    <3> QED  BY <1>i, <3>1, <3>2
  <2>5. CASE TellError(n, me, "failed") /\ UNCHANGED held
    <3>1. owed[n][me] > 0 /\ UNCHANGED <<subs, wait>>  BY <2>5 DEF TellError
    <3>2. me \notin subs[n] \cup wait[n] /\ call[n] # "subscribe"  BY <1>b, <1>c, <1>d, <3>1
    <3> QED  BY <1>d, <2>1, <2>2, <2>3, <2>4, <2>5, <3>1, <3>2 DEF Agrees
  <2>6. CASE /\ me \in subs[n] \cup wait[n] /\ held[n] = "no" /\ FailNode(n, "failed")
             /\ held' = [held EXCEPT ![n] = "error"]
    <3>1. me \notin subs'[n] \cup wait'[n] /\ held'[n] = "error"
          BY <1>a, <2>6 DEF FailNode
    <3>2. call[n] # "subscribe"  BY <1>d, <2>6
    <3> QED  BY <1>d, <2>1, <2>2, <2>3, <2>4, <3>1, <3>2 DEF Agrees
  <2> QED  BY <1>10, <2>5, <2>6 DEF on_error
<1>11. CASE update_messages(n)
  <2>1. /\ held[n] \in {"update", "ack"} /\ me \in subs[n]
        /\ UNCHANGED <<subs, wait, asked, owed, ids, refusals>>
        BY <1>11, <1>d DEF update_messages, subVars
  <2>2. ids[n] = 0  BY <1>b, <1>i, <1>d, <2>1
  <2>3. held'[n] = "no"  BY <1>a, <1>11, <2>1 DEF update_messages
  <2>4. call'[n] = IF call[n] = "on_update" THEN "collect" ELSE call[n]
        BY <1>a, <1>11 DEF update_messages
  <2>5. Told(n)' # "no"
    <3>1. /\ held[n] = "ack" => Told(n)' \in {"lost", "yes"}
          /\ held[n] # "ack" => Told(n)' \in {"lost", Told(n)}
          BY <1>11, <1>m, UpdateTells
    <3> QED  BY <1>d, <2>1, <3>1
  <2> QED  BY <1>d, <2>1, <2>2, <2>3, <2>4, <2>5 DEF Agrees
<1>12. CASE error_message(n)
  <2>1. /\ held[n] = "error" \/ refusals[n] > 0
        /\ UNCHANGED <<subs, wait, asked, owed, ids, call>>
        BY <1>12 DEF error_message, subVars
  <2>2. ids[n] = 0  BY <1>b, <1>i, <1>d, <2>1
  <2>3. \/ held[n] = "error" /\ held'[n] = "no" /\ refusals'[n] = refusals[n]
        \/ refusals[n] > 0 /\ held'[n] = held[n]
        BY <1>a, <1>12 DEF error_message
  <2>4. me \notin subs[n]
        BY <1>b, <1>d, <2>1, <2>2
  <2>5. Told(n)' \in {"lost", "no"}  BY <1>12, <1>m, ErrorTells
  <2>6. held'[n] \notin {"update", "ack"}  BY <1>d, <2>3, <2>4
  <2>7. me \notin wait[n] /\ call[n] # "subscribe"  BY <1>d, <2>2
  <2> QED  BY <1>d, <2>1, <2>2, <2>3, <2>4, <2>5, <2>6, <2>7 DEF Agrees
<1> QED  BY <1>1, <1>2, <1>3, <1>4, <1>5, <1>6, <1>7, <1>8, <1>9, <1>10, <1>11, <1>12
         DEF NodeStep, CallStep, CallBack

(* A step that leaves a node alone may hand over what is stored about it,  *)
(* or drop it.                                                             *)
LEMMA AgreesStays ==
    ASSUME NEW m \in Nodes, SameAt(m), Over => Over', Told(m)' \in {"lost", Told(m)}, Agrees(m)
    PROVE  Agrees(m)'
BY DEF SameAt, Agrees, Awaited, Calling, Subscribed, Waiting, Updating, Acknowledged

LEMMA EarlyStep ==
    ASSUME Patient, TInv, PInv, [Next]_vars
    PROVE  NoneEarly'
<1>0. MessageType /\ NoneEarly  BY DEF TInv, PInv
<1>1. ASSUME NEW n \in Nodes, answer_unsubscribe(n) PROVE NoneEarly'
      BY <1>0, <1>1, AnswerTells
<1>2. ASSUME NEW n \in Nodes, error_message(n) PROVE NoneEarly'
      BY <1>0, <1>2, ErrorTells
<1>3. ASSUME NEW n \in Nodes, update_messages(n) PROVE NoneEarly'
  <2>1. held[n] \in {"update", "ack"}  BY <1>3 DEF update_messages
  <2>2. held[n] # "ack" => Told(n) # "no"  BY <2>1 DEF PInv, Agrees, Updating
  <2> QED  BY <1>0, <1>3, <2>2, UpdateTells
<1>4. CASE Quiet  BY <1>0, <1>4 DEF Quiet
<1> QED  BY <1>1, <1>2, <1>3, <1>4, QuietTells

LEMMA PInvStep ==
    ASSUME Patient, TInv, PInv, OneOpen, [Next]_vars
    PROVE  PInv'
<1>0. NoneEarly'  BY EarlyStep
<1> SUFFICES ASSUME NEW m \in Nodes PROVE Agrees(m)'  BY <1>0 DEF PInv
<1>1. Agrees(m) /\ Open(m) <= 1 /\ MessageType  BY DEF PInv, OneOpen, TInv
<1>2. ASSUME NEW n \in Nodes, NodeStep(n), Next PROVE Agrees(m)'
  <2>1. ~broken /\ (Over => Over')
    <3>1. ~broken  BY <1>2 DEF Next
    <3>2. ~Over' => ~Over  BY <1>2, <3>1, NotOver
    <3> QED  BY <3>1, <3>2
  <2>2. CASE m = n  BY <1>1, <1>2, <2>1, <2>2, AgreesStep
  <2>3. CASE m # n
    <3>1. SameAt(m)  BY <1>2, <2>3, OtherNodes
    <3>2. Told(m)' \in {"lost", Told(m)}
      <4>1. CASE answer_unsubscribe(n) \/ update_messages(n) \/ error_message(n)
        <5>1. OthersTold(n)  BY <1>1, <4>1, AnswerTells, UpdateTells, ErrorTells
        <5> QED  BY <2>3, <5>1 DEF OthersTold
      <4>2. CASE ~answer_unsubscribe(n) /\ ~update_messages(n) /\ ~error_message(n)
        <5>1. \/ subscribe(n) \/ unsubscribe(n) \/ root_asks(n) \/ CallBack(n)
              \/ root_subscribe(n) \/ root_unsubscribe(n) \/ collect(n)
              BY <1>2, <4>2 DEF NodeStep, CallStep
        <5>2. UNCHANGED <<messages, toldVars>> \/ TakeMessages
              BY <5>1 DEF subscribe, unsubscribe, root_asks, CallBack, root_answers_quietly,
                 on_update, on_error, root_subscribe, root_unsubscribe, collect
        <5>3. CASE UNCHANGED <<messages, toldVars>>  BY <5>3 DEF toldVars, Told
        <5>4. CASE TakeMessages  BY <5>4, TakeTells
        <5> QED  BY <5>2, <5>3, <5>4
      <4> QED  BY <4>1, <4>2
    <3> QED  BY <1>1, <2>1, <3>1, <3>2, AgreesStays
  <2> QED  BY <2>2, <2>3
<1>3. ASSUME ~\E n \in Nodes : NodeStep(n) PROVE Told(m)' = Told(m)
  <2>1. ~\E n \in Nodes : answer_unsubscribe(n) \/ update_messages(n) \/ error_message(n)
        BY <1>3 DEF NodeStep, CallStep
  <2> QED  BY <2>1, QuietTells DEF Quiet
<1>4. CASE EndStep /\ ~\E n \in Nodes : NodeStep(n)
  <2>1. Over' /\ UNCHANGED <<ids, call, held, refusals, asked, owed>> /\ Told(m)' = Told(m)
        BY <1>3, <1>4 DEF EndStep, clientVars
  <2>2. CASE UNCHANGED <<subs, wait>>
        BY <1>1, <2>1, <2>2
           DEF Agrees, Awaited, Calling, Subscribed, Waiting, Updating
  <2>3. CASE Leave(me, Nodes) /\ \A n \in Nodes : held[n] = "no"
    <3>1. me \notin subs'[m] \cup wait'[m]  BY <2>3 DEF Leave
    <3> QED  BY <1>1, <2>1, <2>3, <3>1
           DEF Agrees, Awaited, Calling, Subscribed, Waiting, Updating
  <2> QED  BY <1>4, <2>2, <2>3 DEF EndStep
<1>5. CASE /\ \A n \in Nodes : SameAt(n)
           /\ Over => Over'
           /\ ~\E n \in Nodes : NodeStep(n)
  <2>1. SameAt(m) /\ Told(m)' \in {"lost", Told(m)}  BY <1>3, <1>5
  <2> QED  BY <1>1, <1>5, <2>1, AgreesStays
<1>6. CASE UNCHANGED vars
  <2>1. SameAt(m) /\ (Over => Over') /\ Told(m)' \in {"lost", Told(m)}
        BY <1>6 DEF vars, subVars, clientVars, endVars, toldVars, SameAt, Over, Told
  <2> QED  BY <1>1, <2>1, AgreesStays
<1> QED  BY <1>2, <1>4, <1>5, <1>6, NodeSteps

LEMMA PatientInit == SessionInit => PInv
<1> SUFFICES ASSUME SessionInit PROVE PInv  OBVIOUS
<1>0. messages = <<>> /\ early = {}  BY DEF SessionInit
<1>1. NoneEarly
  <2>1. EarlyIn(known, <<>>) = {}  BY NothingStored
  <2> QED  BY <1>0, <2>1 DEF NoneEarly
<1>2. ASSUME NEW n \in Nodes PROVE Agrees(n)
  <2>1. /\ ids[n] = 0 /\ known[n] = "no" /\ call[n] = "idle" /\ held[n] = "no"
        /\ me \notin subs[n] /\ me \notin wait[n]
        BY DEF SessionInit, SubInit
  <2>2. Told(n) = "no"
    <3>1. Learned(known, <<>>, n, 0) = known[n] /\ Len(<<>>) = 0  BY NothingStored
    <3> QED  BY <1>0, <2>1, <3>1 DEF Told
  <2> QED  BY <2>1, <2>2
       DEF Agrees, Awaited, Calling, Subscribed, Waiting, Updating, Acknowledged
<1> QED  BY <1>1, <1>2 DEF PInv

LEMMA PatientInvariant ==
    ASSUME Patient
    PROVE  Spec /\ []OneOpen => []PInv
<1>1. SessionInit => PInv  BY PatientInit
<1>2. TInv /\ PInv /\ OneOpen /\ [Next]_vars => PInv'  BY PInvStep
<1> QED  BY <1>1, <1>2, SessionInvariant, PTL DEF Spec

(* on_update() (session.cpp:188-220): if a client waits for its answers    *)
(* and root has one thing to say about a node at a time, no response is    *)
(* handed an update of a node unless the last answer about it among the    *)
(* messages before was that it is subscribed, or a later one was dropped   *)
(* from the buffer (session.cpp:357-364).                                  *)
THEOREM AckComesFirst ==
    ASSUME Patient
    PROVE  Spec /\ []OneOpen => []AckedBeforeUpdate
<1>1. PInv => AckedBeforeUpdate  BY DEF PInv, NoneEarly, AckedBeforeUpdate
<1> QED  BY <1>1, PatientInvariant, PTL

(* With nothing in flight, the last answer about a node that was handed to *)
(* a response tells such a client whether root has it subscribed, unless a *)
(* later one was dropped from the buffer.                                  *)
THEOREM ClientKnows ==
    ASSUME Patient
    PROVE  Spec /\ []OneOpen => []ClientAgrees
<1>1. TInv /\ PInv => ClientAgrees
  <2> SUFFICES ASSUME TInv, PInv PROVE ClientAgrees  OBVIOUS
  <2>1. ASSUME NEW n \in Nodes, ~Over, call[n] = "idle", ~(ids[n] > 0), held[n] = "no",
               AnswersIn(messages, n, Len(messages)) = {}, known[n] # "lost"
        PROVE  known[n] = "yes" <=> me \in subs[n]
    <3>1. Told(n) = known[n] /\ known[n] \in {"yes", "no"}
          BY <2>1 DEF Told, Learned, TInv, RestType, Known
    <3>2. Subscribed(n) /\ Acknowledged(n)  BY <2>1 DEF PInv, Agrees
    <3> QED  BY <2>1, <3>1, <3>2 DEF Subscribed, Acknowledged, Leaving
  <2> QED  BY <2>1 DEF Over, ClientAgrees
<1> QED  BY <1>1, SessionInvariant, PatientInvariant, PTL

(* What is open about a node is counted; only a question that was not open *)
(* before adds to it.                                                      *)
LEMMA OpenStep ==
    ASSUME MaxOpen <= 1, TInv, NEW n \in Nodes, NodeStep(n), Calling(n), Open(n) <= 1
    PROVE  (Open(n) <= 1)'
<1> USE SessionAssumption
<1>a. /\ asked \in [Nodes -> [Users -> Nat]] /\ owed \in [Nodes -> [Users -> Nat]]
      /\ call \in [Nodes -> Calls] /\ refusals \in [Nodes -> Nat] /\ me \in Users
      BY DEF TInv, SubType, RestType
<1>b. asked[n][me] \in Nat /\ owed[n][me] \in Nat /\ refusals[n] \in Nat /\ MaxOpen \in Nat
      BY <1>a
<1>1. CASE subscribe(n)
  <2>1. /\ asked[n][me] + owed[n][me] + refusals[n] < MaxOpen
        /\ UNCHANGED <<asked, owed, refusals>>
        BY <1>1 DEF subscribe, Ask
  <2>2. call'[n] = "subscribe"  BY <1>a, <1>1 DEF subscribe
  <2> QED  BY <1>b, <2>1, <2>2 DEF Open
<1>2. CASE unsubscribe(n)
  <2>1. UNCHANGED <<asked, owed, refusals>> /\ call'[n] # "subscribe"
        BY <1>a, <1>2 DEF unsubscribe, subVars
  <2> QED  BY <1>b, <2>1 DEF Open
<1>3. CASE root_subscribe(n)
  <2>1. call[n] = "subscribe" /\ call'[n] # "subscribe" /\ UNCHANGED <<refusals, asked>>
        BY <1>a, <1>3 DEF root_subscribe, JoinWaiting, Join, Owe, JoinWithData
  <2>2. owed'[n][me] <= owed[n][me] + 1
        BY <1>a, <1>b, <1>3 DEF root_subscribe, JoinWaiting, Join, Owe, JoinWithData
  <2>3. owed'[n][me] \in Nat
        BY <1>a, <1>b, <1>3 DEF root_subscribe, JoinWaiting, Join, Owe, JoinWithData
  <2> QED  BY <1>b, <2>1, <2>2, <2>3 DEF Open
<1>4. CASE root_unsubscribe(n)
  <2>1. UNCHANGED <<asked, owed, refusals>> /\ call'[n] # "subscribe"
        BY <1>a, <1>4 DEF root_unsubscribe, Leave
  <2> QED  BY <1>b, <2>1 DEF Open
<1>5. CASE answer_unsubscribe(n) \/ collect(n)
  <2>1. UNCHANGED <<asked, owed, refusals>> /\ call'[n] # "subscribe"
        BY <1>a, <1>5 DEF answer_unsubscribe, collect, subVars
  <2> QED  BY <1>b, <2>1 DEF Open
<1>6. CASE root_asks(n)
  <2>1. /\ asked[n][me] + owed[n][me] + refusals[n] < MaxOpen
        /\ me \in wait[n] /\ UNCHANGED <<owed, refusals, call>>
        BY <1>6 DEF root_asks, AskAdapter, clientVars
  <2>2. asked'[n][me] = asked[n][me] + 1  BY <1>a, <1>6 DEF root_asks, AskAdapter
  <2>3. call[n] # "subscribe"  BY <2>1 DEF Calling
  <2> QED  BY <1>b, <2>1, <2>2, <2>3 DEF Open
<1>7. CASE root_answers_quietly(n)
  <2>1. UNCHANGED <<refusals, call>> /\ asked[n][me] > 0
        BY <1>7 DEF root_answers_quietly, clientVars, AdmitNobody, AdmitQuietly, Refuse
  <2>2. asked'[n][me] = asked[n][me] - 1
        BY <1>a, <1>7 DEF root_answers_quietly, AdmitNobody, AdmitQuietly, Refuse
  <2>3. owed'[n][me] = owed[n][me] \/ owed'[n][me] = owed[n][me] + 1
        BY <1>a, <1>7 DEF root_answers_quietly, AdmitNobody, AdmitQuietly, Refuse
  <2> QED  BY <1>b, <2>1, <2>2, <2>3 DEF Open
<1>8. CASE on_update(n)
  <2>1. UNCHANGED <<refusals, call, owed>>  BY <1>8 DEF on_update, AdmitWithData, Update
  <2>2. \/ asked'[n][me] = asked[n][me]
        \/ asked[n][me] > 0 /\ asked'[n][me] = asked[n][me] - 1
        BY <1>a, <1>8 DEF on_update, AdmitWithData, Update
  <2> QED  BY <1>b, <2>1, <2>2 DEF Open
<1>9. CASE on_error(n)
  <2>1. UNCHANGED <<asked, call>>  BY <1>9 DEF on_error, TellError, FailNode
  <2>2. \/ /\ owed[n][me] > 0 /\ owed'[n][me] = owed[n][me] - 1
           /\ refusals'[n] = refusals[n] + 1
        \/ UNCHANGED <<owed, refusals>>
        BY <1>a, <1>9 DEF on_error, TellError, FailNode
  <2> QED  BY <1>b, <2>1, <2>2 DEF Open
<1>10. CASE update_messages(n)
  <2>1. UNCHANGED <<asked, owed, refusals>> /\ (call'[n] = "subscribe" => call[n] = "subscribe")
        BY <1>a, <1>10 DEF update_messages, subVars
  <2> QED  BY <1>b, <2>1 DEF Open
<1>11. CASE error_message(n)
  <2>1. UNCHANGED <<asked, owed, call>>  BY <1>11 DEF error_message, subVars
  <2>2. \/ refusals'[n] = refusals[n]
        \/ refusals[n] > 0 /\ refusals'[n] = refusals[n] - 1
        BY <1>a, <1>11 DEF error_message
  <2> QED  BY <1>b, <2>1, <2>2 DEF Open
<1> QED  BY <1>1, <1>2, <1>3, <1>4, <1>5, <1>6, <1>7, <1>8, <1>9, <1>10, <1>11
         DEF NodeStep, CallStep, CallBack

LEMMA OneOpenStep ==
    ASSUME MaxOpen <= 1, TInv, PInv, OneOpen, [Next]_vars
    PROVE  OneOpen'
<1> SUFFICES ASSUME NEW m \in Nodes PROVE (Open(m) <= 1)'  BY DEF OneOpen
<1>0. Open(m) <= 1 /\ Calling(m)  BY DEF PInv, Agrees, OneOpen
<1>1. ASSUME SameAt(m) PROVE (Open(m) <= 1)'  BY <1>0, <1>1 DEF SameAt, Open
<1>2. ASSUME NEW n \in Nodes, NodeStep(n) PROVE (Open(m) <= 1)'
  <2>1. CASE m = n  BY <1>0, <1>2, <2>1, OpenStep
  <2>2. CASE m # n  BY <1>1, <1>2, <2>2, OtherNodes
  <2> QED  BY <2>1, <2>2
<1>3. CASE EndStep  BY <1>0, <1>3 DEF EndStep, clientVars, Open
<1> QED  BY <1>1, <1>2, <1>3, NodeSteps

(* The client's order and root's: with MaxOpen = 1, as in the run, a       *)
(* patient client has at most one thing open with root about a node, from  *)
(* its subscribe() (session.cpp:79) to the last error call back.           *)
THEOREM OneThingOpen ==
    ASSUME Patient, MaxOpen <= 1
    PROVE  Spec => []OneOpen
<1>1. SessionInit => OneOpen
  <2> SUFFICES ASSUME SessionInit, NEW n \in Nodes PROVE Open(n) <= 1  BY DEF OneOpen
  <2>1. asked[n][me] = 0 /\ owed[n][me] = 0 /\ refusals[n] = 0 /\ call[n] = "idle"
        BY SessionAssumption DEF SessionInit, SubInit
  <2> QED  BY <2>1 DEF Open
<1>2. SessionInit => PInv  BY PatientInit
<1>3. TInv /\ PInv /\ OneOpen /\ [Next]_vars => PInv'  BY PInvStep
<1>4. TInv /\ PInv /\ OneOpen /\ [Next]_vars => OneOpen'  BY OneOpenStep
<1> QED  BY <1>1, <1>2, <1>3, <1>4, SessionInvariant, PTL DEF Spec
=============================================================================
