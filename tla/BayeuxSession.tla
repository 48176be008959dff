--------------------------- MODULE BayeuxSession ---------------------------
(***************************************************************************)
(* bayeux::session with the HTTP responses that wait on it, on top of      *)
(* pubsub::root (module Subscriptions).  The session buffers messages for  *)
(* a client, or holds the one response that waits for them.  It is called  *)
(* by requests of the client, by root's call backs and by timers, from any *)
(* thread; each locked section is one action, and a response is answered   *)
(* after the lock was released.  The messages of a form come in several    *)
(* fields, and each of them may wait; they are all for this session        *)
(* (module BayeuxConnector has requests for more than one).                *)
(***************************************************************************)
EXTENDS Subscriptions, Sequences

CONSTANTS
    me,             \* the session
    Responses,      \* the responses to the client's blocking connects
    Forms,          \* those to forms, which may have several 'message' fields
    None,           \* no response
    Large,          \* kinds of messages that are larger than the message buffer
    MaxMessages,    \* max_messages_per_client
    Patient,        \* BOOLEAN, the client waits for answers, see Ready
    MayShutDown,    \* BOOLEAN, shut_down() may be called
    MaxOpen,        \* bound: root's questions and errors that are open about a node
    MaxIds,         \* bound: subscribe messages of a node that are not answered
    MaxFields       \* bound: 'message' fields of one form

ASSUME SessionAssumption ==
    /\ Users = {me}
    /\ None \notin Responses /\ Forms \subseteq Responses
    /\ MaxMessages \in Nat \ {0}
    /\ Patient \in BOOLEAN /\ MayShutDown \in BOOLEAN
    /\ MaxOpen \in Nat /\ MaxIds \in Nat \ {0} /\ MaxFields \in Nat \ {0}

VARIABLES
    messages,   \* Seq(Messages), messages_
    http_connection,    \* Responses or None, http_connection_
    ids,        \* [Nodes -> Nat], entries of the node in the multimap subscription_ids_
    call,       \* [Nodes -> Calls], the client's (un)subscribe() in progress
    held,       \* [Nodes -> Held], a call back under the node's mutex_ is in progress
    refusals,   \* [Nodes -> Nat], other error call backs in progress
    stage,      \* [Responses -> Stages], how far the request's thread is
    fields,     \* [Responses -> Nat], fields of the request that were begun
    blocking,   \* SUBSET Responses, blocking_connect_ is set
    filled,     \* SUBSET Responses, bayeux_response_ is not empty
    evicts,     \* [Responses -> Responses or None], who is to be told by the thread
    answers,    \* [Responses -> Nat], how often some thread set out to answer it
    written,    \* [Responses -> Nat], and how often it did
    timer,      \* [Responses -> BOOLEAN], the response's timer_ is running
    queued,     \* [Responses -> Nat], its handlers that wait to run
    hurried,    \* SUBSET Responses, hurry() was called
    shut,       \* {"no", "left", "done"}, how far shut_down() is
    closed,     \* BOOLEAN, close() was called
    broken,     \* BOOLEAN, undefined behaviour: the missing entry was used
    known,      \* [Nodes -> Known], history: what the client was told of a node
    early,      \* SUBSET Nodes, history: an update came without an acknowledgement
    doubled     \* SUBSET Nodes, history: subscribed again while an id was stored

formVars == <<stage, fields, blocking, filled>>
httpVars == <<formVars, evicts, answers, written, timer, queued, hurried>>
clientVars == <<ids, call, held, refusals>>
endVars == <<shut, closed, broken>>
toldVars == <<known, early>>
vars == <<subVars, messages, http_connection, clientVars, httpVars, endVars, toldVars, doubled>>

Kinds == {"subscribed", "refused", "unsubscribed", "not_subscribed", "update"}
Messages == [kind : Kinds, node : Nodes]
Msg(k, n) == [kind |-> k, node |-> n]

Calls == {"idle", "subscribe",              \* before root_.subscribe()
          "on_update", "collect",           \* called back by it, before events()
          "unsubscribe", "unsubscribe_ack", \* before root_.unsubscribe()
          "left", "left_ack", "not_left", "not_left_ack"} \* and before the messages

(* What the call back has in hand, between its two locked sections. *)
Held == {"no", "update", "ack", "error"}

(* Before a field; waiting, in handle_connect(); and after the last field. *)
Stages == {"new", "entered", "done"}

(* The last answer about a node that was handed to a response said that it *)
(* is subscribed or that it is not, or a later one was dropped.            *)
Known == {"yes", "no", "lost"}

-----------------------------------------------------------------------------
SessionInit ==
    /\ SubInit
    /\ messages = <<>>
    /\ http_connection = None
    /\ ids = [n \in Nodes |-> 0]
    /\ call = [n \in Nodes |-> "idle"]
    /\ held = [n \in Nodes |-> "no"]
    /\ refusals = [n \in Nodes |-> 0]
    /\ stage = [r \in Responses |-> "new"]
    /\ fields = [r \in Responses |-> 0]
    /\ blocking = {}
    /\ filled = {}
    /\ evicts = [r \in Responses |-> None]
    /\ answers = [r \in Responses |-> 0]
    /\ written = [r \in Responses |-> 0]
    /\ timer = [r \in Responses |-> FALSE]
    /\ queued = [r \in Responses |-> 0]
    /\ hurried = {}
    /\ shut = "no"
    /\ closed = FALSE
    /\ broken = FALSE
    /\ known = [n \in Nodes |-> "no"]
    /\ early = {}
    /\ doubled = {}

-----------------------------------------------------------------------------
(* What the client learns. *)

IsAnswer(m, n) == m.node = n /\ m.kind # "update"

AnswersIn(ms, n, i) == {j \in 1 .. i : IsAnswer(ms[j], n)}

(* What a client that knew before has been told of n with the first i of   *)
(* the messages.                                                           *)
Learned(before, ms, n, i) ==
    LET as == AnswersIn(ms, n, i) IN
    IF as = {} THEN before[n]
    ELSE IF \E j \in as : ms[j].kind = "subscribed" /\ \A k \in as : k <= j
           THEN "yes" ELSE "no"

EarlyIn(before, ms) ==
    {n \in Nodes : \E i \in 1 .. Len(ms) :
        ms[i] = Msg("update", n) /\ Learned(before, ms, n, i) = "no"}

(* The messages ms are handed to a response.  What a client makes of them  *)
(* is followed if it is patient.                                           *)
HandOver(before, ms) ==
    IF Patient
      THEN /\ known' = [n \in Nodes |-> Learned(before, ms, n, Len(ms))]
           /\ early' = early \cup EarlyIn(before, ms)
      ELSE UNCHANGED toldVars

(* So are all that are stored, messages_.swap(). *)
TakeMessages == messages' = <<>> /\ HandOver(known, messages)

-----------------------------------------------------------------------------
(* The buffer *)

(* Under the limits of the configuration. *)
Fits(ms) == Len(ms) <= MaxMessages /\ \A i \in 1 .. Len(ms) : ms[i].kind \notin Large

Drop(ms, k) == SubSeq(ms, k + 1, Len(ms))

(* Mutant: one message too many is kept. *)
Trimmed_late(ms, k) ==
    /\ k \in 0 .. Len(ms)
    /\ k = Len(ms) \/ Fits(Drop(ms, k + 1))
    /\ \A j \in 0 .. (k - 1) : ~Fits(Drop(ms, j + 1))

(* add_message_impl(): the k oldest messages are dropped until the rest    *)
(* fits.  That two messages are added one after the other makes no         *)
(* difference.                                                             *)
Trimmed(ms, k) ==
    /\ k \in 0 .. Len(ms)
    /\ Fits(Drop(ms, k))
    /\ \A j \in 0 .. (k - 1) : ~Fits(Drop(ms, j))

(* The client will not be told what the first k messages say. *)
Lost(ms, k) ==
    [n \in Nodes |-> IF Patient /\ AnswersIn(ms, n, k) # {} THEN "lost" ELSE known[n]]

(* Takes the response off http_connection_, to be answered. *)
Release ==
    /\ http_connection' = None
    /\ answers' = [answers EXCEPT ![http_connection] = @ + 1]

(* add_message_and_notify() and add_messages_and_notify(): what fits goes  *)
(* to the response that waits, or stays in the buffer.                     *)
add_messages_and_notify(new) ==
    \E k \in 0 .. Len(messages \o new) :
        /\ Trimmed(messages \o new, k)
        /\ IF http_connection # None
             THEN /\ Release
                  /\ messages' = <<>>
                  /\ HandOver(Lost(messages \o new, k), Drop(messages \o new, k))
             ELSE /\ messages' = Drop(messages \o new, k)
                  /\ known' = Lost(messages \o new, k)
                  /\ UNCHANGED <<http_connection, answers, early>>

-----------------------------------------------------------------------------
(* The HTTP side: handle_requests() for every field of the request. *)

(* The field ends, and another one follows or not. *)
EndField(r) ==
    \E next \in {"new", "done"} :
        /\ next = "new" => r \in Forms /\ fields'[r] < MaxFields
        /\ stage' = [stage EXCEPT ![r] = next]

(* At the end of a field that does not wait, the response is written, or,  *)
(* if one before does, its timer is started again.                         *)
FinishField(r) ==
    /\ EndField(r)
    /\ IF r \in blocking
         THEN timer' = [timer EXCEPT ![r] = TRUE] /\ UNCHANGED <<answers, written>>
         ELSE /\ answers' = [answers EXCEPT ![r] = @ + 1]
              /\ written' = [written EXCEPT ![r] = @ + 1]
              /\ UNCHANGED timer

(* Mutant: the messages are not looked at before waiting. *)
wait_for_events_blind(r) ==
    /\ stage[r] = "new" /\ r \notin filled /\ ~closed
    /\ fields' = [fields EXCEPT ![r] = @ + 1]
    /\ http_connection' = r
    /\ evicts' = [evicts EXCEPT ![r] = http_connection]
    /\ stage' = [stage EXCEPT ![r] = "entered"]
    /\ UNCHANGED <<subVars, messages, clientVars, blocking, filled, answers, written, timer,
                   queued, hurried, endVars, toldVars, doubled>>

(* A field that ends with a connect: it waits when nothing is to be sent,  *)
(* wait_for_events().                                                      *)
wait_for_events(r) ==
    /\ stage[r] = "new" /\ r \notin filled /\ ~closed
    /\ fields' = [fields EXCEPT ![r] = @ + 1]
    /\ \/ /\ messages = <<>>
          /\ http_connection' = r
          /\ evicts' = [evicts EXCEPT ![r] = http_connection]
          /\ stage' = [stage EXCEPT ![r] = "entered"]
          /\ UNCHANGED <<messages, filled, answers, written, timer, toldVars>>
       \/ /\ messages # <<>>
          /\ TakeMessages
          /\ filled' = filled \cup {r}
          /\ FinishField(r)
          /\ UNCHANGED <<http_connection, evicts>>
    /\ UNCHANGED <<subVars, clientVars, blocking, queued, hurried, endVars, doubled>>

(* A field of a form that does not wait.  Its messages are the other       *)
(* actions; their answers, if any, are in bayeux_response_.                *)
other_field(r) ==
    /\ r \in Forms /\ stage[r] = "new" /\ ~closed
    /\ fields' = [fields EXCEPT ![r] = @ + 1]
    /\ filled' \in {filled, filled \cup {r}}
    /\ FinishField(r)
    /\ UNCHANGED <<subVars, messages, http_connection, clientVars, blocking, evicts, queued,
                   hurried, endVars, toldVars, doubled>>

(* Mutant: the connection that was replaced is forgotten. *)
second_connection_detected_never(r) ==
    /\ stage[r] = "entered" /\ evicts[r] # None
    /\ evicts' = [evicts EXCEPT ![r] = None]
    /\ UNCHANGED <<subVars, messages, http_connection, clientVars, formVars, answers, written,
                   timer, queued, hurried, endVars, toldVars, doubled>>

(* old_connection->second_connection_detected() *)
second_connection_detected(r) ==
    /\ stage[r] = "entered" /\ evicts[r] # None
    /\ evicts' = [evicts EXCEPT ![r] = None]
    /\ answers' = [answers EXCEPT ![evicts[r]] = @ + 1]
    /\ UNCHANGED <<subVars, messages, http_connection, clientVars, formVars, written, timer,
                   queued, hurried, endVars, toldVars, doubled>>

(* Mutant: the response waits without a timer. *)
start_timer_forgotten(r) ==
    /\ stage[r] = "entered" /\ evicts[r] = None
    /\ blocking' = blocking \cup {r}
    /\ UNCHANGED fields
    /\ EndField(r)
    /\ UNCHANGED <<subVars, messages, http_connection, clientVars, filled, evicts, answers,
                   written, timer, queued, hurried, endVars, toldVars, doubled>>

(* blocking_connect_ is set and the timer started, also when the response  *)
(* was answered meanwhile.                                                 *)
start_timer(r) ==
    /\ stage[r] = "entered" /\ evicts[r] = None
    /\ blocking' = blocking \cup {r}
    /\ timer' = [timer EXCEPT ![r] = TRUE]
    /\ UNCHANGED fields
    /\ EndField(r)
    /\ UNCHANGED <<subVars, messages, http_connection, clientVars, filled, evicts, answers,
                   written, queued, hurried, endVars, toldVars, doubled>>

(* A connect that does not block takes what there is: events(). *)
events ==
    /\ messages # <<>> /\ ~closed
    /\ TakeMessages
    /\ UNCHANGED <<subVars, http_connection, clientVars, httpVars, endVars, doubled>>

(* Mutant: the response stays in http_connection_. *)
timeout_keeps ==
    /\ UNCHANGED http_connection
    /\ answers' = [r \in Responses |->
                     IF r = http_connection THEN answers[r] + 1 ELSE answers[r]]

(* session::timeout() *)
timeout == IF http_connection # None THEN Release ELSE UNCHANGED <<http_connection, answers>>

(* The timer expires: its handler is queued and can not be cancelled. *)
expire(r) ==
    /\ timer[r]
    /\ timer' = [timer EXCEPT ![r] = FALSE]
    /\ queued' = [queued EXCEPT ![r] = @ + 1]
    /\ UNCHANGED <<subVars, messages, http_connection, clientVars, formVars, evicts, answers,
                   written, hurried, endVars, toldVars, doubled>>

connection_time_out(r) ==
    /\ queued[r] > 0
    /\ queued' = [queued EXCEPT ![r] = @ - 1]
    /\ timeout
    /\ UNCHANGED <<subVars, messages, clientVars, formVars, evicts, written, timer, hurried,
                   endVars, toldVars, doubled>>

(* A later request on the same connection; hurry() acts once per response. *)
implement_hurry(r) ==
    /\ fields[r] > 0 /\ written[r] = 0
    /\ r \notin hurried
    /\ hurried' = hurried \cup {r}
    /\ IF r \in blocking THEN timeout ELSE UNCHANGED <<http_connection, answers>>
    /\ UNCHANGED <<subVars, messages, clientVars, formVars, evicts, written, timer, queued,
                   endVars, toldVars, doubled>>

(* messages() and write_reponse(): the timer is cancelled. *)
write_reponse(r) ==
    /\ written[r] < answers[r]
    /\ written' = [written EXCEPT ![r] = @ + 1]
    /\ filled' = filled \cup {r}
    /\ timer' = [timer EXCEPT ![r] = FALSE]
    /\ UNCHANGED <<subVars, messages, http_connection, clientVars, stage, fields, blocking,
                   evicts, answers, queued, hurried, endVars, toldVars, doubled>>

-----------------------------------------------------------------------------
(* The client's requests about a node.  They come one after the other; a   *)
(* patient client has, before it sends the next one, been told the answer  *)
(* to the last, and it does not subscribe twice.                           *)

Answered(n) ==
    /\ ids[n] = 0 /\ held[n] = "no" /\ refusals[n] = 0
    /\ AnswersIn(messages, n, Len(messages)) = {} /\ known[n] # "lost"

Ready(n) == ~closed /\ call[n] = "idle" /\ (Patient => Answered(n))

(* One entry of the node is taken, if there is one. *)
TakeEntry(n) ==
    /\ ids' = [ids EXCEPT ![n] = IF @ > 0 THEN @ - 1 ELSE @]
    /\ doubled' = IF ids[n] <= 1 THEN doubled \ {n} ELSE doubled

(* Mutant: the id of the subscription is not stored. *)
subscribe_forgets(n) ==
    /\ Ready(n) /\ (Patient => known[n] # "yes")
    /\ asked[n][me] + owed[n][me] + refusals[n] < MaxOpen
    /\ Ask(n, me)
    /\ call' = [call EXCEPT ![n] = "subscribe"]
    /\ UNCHANGED <<messages, http_connection, ids, held, refusals, httpVars, endVars, toldVars,
                   doubled>>

(* session::subscribe(): the id is stored, ... *)
subscribe(n) ==
    /\ Ready(n) /\ (Patient => known[n] # "yes")
    /\ asked[n][me] + owed[n][me] + refusals[n] < MaxOpen
    /\ ids[n] < MaxIds
    /\ Ask(n, me)
    /\ ids' = [ids EXCEPT ![n] = @ + 1]
    /\ doubled' = IF ids[n] > 0 THEN doubled \cup {n} ELSE doubled
    /\ call' = [call EXCEPT ![n] = "subscribe"]
    /\ UNCHANGED <<messages, http_connection, held, refusals, httpVars, endVars, toldVars>>

(* on_update(), first section: the first update acknowledges. *)
BeginUpdate(n) ==
    /\ held' = [held EXCEPT ![n] = IF ids[n] > 0 THEN "ack" ELSE "update"]
    /\ TakeEntry(n)

(* ... root is called, which may call back at once, ... *)
root_subscribe(n) ==
    /\ call[n] = "subscribe" /\ held[n] = "no"
    /\ \/ /\ JoinWaiting(n, me) \/ Join(n, me) \/ Owe(n, me)
          /\ call' = [call EXCEPT ![n] = "collect"]
          /\ UNCHANGED <<ids, held, doubled>>
       \/ /\ JoinWithData(n, me)
          /\ call' = [call EXCEPT ![n] = "on_update"]
          /\ BeginUpdate(n)
    /\ UNCHANGED <<messages, http_connection, refusals, httpVars, endVars, toldVars>>

(* ... and handle_subscribe() sends with its response what there is. *)
collect(n) ==
    /\ call[n] = "collect"
    /\ call' = [call EXCEPT ![n] = "idle"]
    /\ TakeMessages
    /\ UNCHANGED <<subVars, http_connection, ids, held, refusals, httpVars, endVars, doubled>>

(* Mutant: the outstanding answer is not taken. *)
unsubscribe_keeps_id(n) ==
    /\ Ready(n)
    /\ call' = [call EXCEPT ![n] = "unsubscribe"]
    /\ UNCHANGED <<subVars, messages, http_connection, ids, held, refusals, httpVars, endVars,
                   toldVars, doubled>>

(* session::unsubscribe(): an outstanding answer is taken, ... *)
unsubscribe(n) ==
    /\ Ready(n)
    /\ call' = [call EXCEPT ![n] = IF ids[n] > 0 THEN "unsubscribe_ack" ELSE "unsubscribe"]
    /\ TakeEntry(n)
    /\ UNCHANGED <<subVars, messages, http_connection, held, refusals, httpVars, endVars, toldVars>>

(* Mutant: root is not called. *)
root_unsubscribe_skipped(n) ==
    /\ call[n] \in {"unsubscribe", "unsubscribe_ack"} /\ held[n] = "no"
    /\ call' = [call EXCEPT ![n] = IF @ = "unsubscribe" THEN "left" ELSE "left_ack"]
    /\ UNCHANGED <<subVars, messages, http_connection, ids, held, refusals, httpVars, endVars,
                   toldVars, doubled>>

(* ... root is called, ... *)
root_unsubscribe(n) ==
    /\ call[n] \in {"unsubscribe", "unsubscribe_ack"} /\ held[n] = "no"
    /\ call' = [call EXCEPT ![n] =
         IF me \in subs[n] \cup wait[n]
           THEN (IF @ = "unsubscribe" THEN "left" ELSE "left_ack")
           ELSE (IF @ = "unsubscribe" THEN "not_left" ELSE "not_left_ack")]
    /\ Leave(me, {n})
    /\ UNCHANGED <<messages, http_connection, ids, held, refusals, httpVars, endVars, toldVars,
                   doubled>>

(* ... the answers are queued, and then collected. *)
answer_unsubscribe(n) ==
    /\ call[n] \in {"left", "left_ack", "not_left", "not_left_ack"}
    /\ LET kind == IF call[n] \in {"left", "left_ack"} THEN "unsubscribed" ELSE "not_subscribed"
           ack == IF call[n] \in {"left_ack", "not_left_ack"} THEN <<Msg("subscribed", n)>> ELSE <<>>
       IN  add_messages_and_notify(Append(ack, Msg(kind, n)))
    /\ call' = [call EXCEPT ![n] = "collect"]
    /\ UNCHANGED <<subVars, ids, held, refusals, formVars, evicts, written, timer, queued,
                   hurried, endVars, doubled>>

-----------------------------------------------------------------------------
(* Root's call backs.  on_update() and the errors of a failing node come   *)
(* under the node's mutex_, the other errors under no lock.                *)

(* Not a call back: root asks the adapter about the waiting client. *)
root_asks(n) ==
    /\ me \in wait[n]
    /\ asked[n][me] + owed[n][me] + refusals[n] < MaxOpen
    /\ AskAdapter(n, {me})
    /\ UNCHANGED <<messages, http_connection, clientVars, httpVars, endVars, toldVars, doubled>>

root_answers_quietly(n) ==
    /\ held[n] = "no"
    /\ AdmitNobody(n, me) \/ AdmitQuietly(n, me) \/ Refuse(n, me)
    /\ UNCHANGED <<messages, http_connection, clientVars, httpVars, endVars, toldVars, doubled>>

on_update(n) ==
    /\ held[n] = "no"
    /\ AdmitWithData(n, me) \/ (me \in subs[n] /\ Update(n))
    /\ BeginUpdate(n)
    /\ UNCHANGED <<messages, http_connection, call, refusals, httpVars, endVars, toldVars>>

(* on_update(), second section; data without a 'data' field is not sent. *)
update_messages(n) ==
    /\ held[n] \in {"update", "ack"}
    /\ held' = [held EXCEPT ![n] = "no"]
    /\ \E update_msg \in {<<>>, <<Msg("update", n)>>} :
         LET new == (IF held[n] = "ack" THEN <<Msg("subscribed", n)>> ELSE <<>>) \o update_msg
         IN  IF new # <<>> THEN add_messages_and_notify(new)
                           ELSE UNCHANGED <<messages, http_connection, answers, toldVars>>
    /\ call' = [call EXCEPT ![n] = IF @ = "on_update" THEN "collect" ELSE @]
    /\ UNCHANGED <<subVars, ids, refusals, formVars, evicts, written, timer, queued, hurried,
                   endVars, doubled>>

(* add_subscription_id_if_exists(): the missing entry is used in a build   *)
(* without assertions.                                                     *)
TakeId(n) == TakeEntry(n) /\ broken' = (ids[n] = 0)

(* on_invalid_..., on_unauthorized_... and on_failed_node_subscription()   *)
(* differ only in the text of the message.                                 *)
on_error(n) ==
    /\ \/ /\ TellError(n, me, "failed")
          /\ refusals' = [refusals EXCEPT ![n] = @ + 1]
          /\ UNCHANGED held
       \/ /\ me \in subs[n] \cup wait[n] /\ held[n] = "no"
          /\ FailNode(n, "failed")
          /\ held' = [held EXCEPT ![n] = "error"]
          /\ UNCHANGED refusals
    /\ TakeId(n)
    /\ UNCHANGED <<messages, http_connection, call, httpVars, shut, closed, toldVars>>

error_message(n) ==
    /\ \/ held[n] = "error" /\ held' = [held EXCEPT ![n] = "no"] /\ UNCHANGED refusals
       \/ refusals[n] > 0 /\ refusals' = [refusals EXCEPT ![n] = @ - 1] /\ UNCHANGED held
    /\ add_messages_and_notify(<<Msg("refused", n)>>)
    /\ UNCHANGED <<subVars, ids, call, formVars, evicts, written, timer, queued, hurried,
                   endVars, doubled>>

-----------------------------------------------------------------------------
(* The connector's calls. *)

InUse(r) ==
    /\ fields[r] > 0
    /\ stage[r] # "done" \/ written[r] < answers[r] \/ http_connection = r

(* session::close(): the session timed out, nothing uses it any more. *)
close ==
    /\ ~closed /\ shut # "left"
    /\ \A r \in Responses : ~InUse(r)
    /\ \A n \in Nodes : call[n] = "idle" /\ held[n] = "no"
    /\ Leave(me, Nodes)
    /\ http_connection' = None
    /\ closed' = TRUE
    /\ UNCHANGED <<messages, clientVars, httpVars, shut, broken, toldVars, doubled>>

(* session::shut_down(): root is called, ... *)
shut_down ==
    /\ MayShutDown /\ shut = "no" /\ ~closed
    /\ \A n \in Nodes : held[n] = "no"
    /\ shut' = "left"
    /\ Leave(me, Nodes)
    /\ UNCHANGED <<messages, http_connection, clientVars, httpVars, closed, broken, toldVars,
                   doubled>>

(* ... and the response that waits is answered. *)
shut_down_response ==
    /\ shut = "left"
    /\ shut' = "done"
    /\ IF http_connection # None
         THEN Release /\ TakeMessages
         ELSE UNCHANGED <<http_connection, answers, messages, toldVars>>
    /\ UNCHANGED <<subVars, clientVars, formVars, evicts, written, timer, queued, hurried,
                   closed, broken, doubled>>

-----------------------------------------------------------------------------
RequestStep(r) == second_connection_detected(r) \/ start_timer(r) \/ write_reponse(r)

TimerStep(r) == expire(r) \/ connection_time_out(r)

CallStep(n) ==
    root_subscribe(n) \/ root_unsubscribe(n) \/ answer_unsubscribe(n) \/ collect(n)

CallBack(n) == root_answers_quietly(n) \/ on_update(n) \/ on_error(n)

Next ==
    /\ ~broken
    /\ \/ \E r \in Responses :
            \/ wait_for_events(r) \/ other_field(r)
            \/ RequestStep(r) \/ TimerStep(r) \/ implement_hurry(r)
       \/ \E n \in Nodes :
            \/ subscribe(n) \/ unsubscribe(n) \/ CallStep(n)
            \/ root_asks(n) \/ CallBack(n) \/ update_messages(n) \/ error_message(n)
       \/ events \/ close \/ shut_down \/ shut_down_response

Spec == SessionInit /\ [][Next]_vars

(* The threads of the requests go on, and timers expire. *)
FairSpec ==
    /\ Spec
    /\ \A r \in Responses : WF_vars(RequestStep(r)) /\ WF_vars(TimerStep(r))

-----------------------------------------------------------------------------
(* Properties *)

(* The types of session's members; messages_ never holds more than         *)
(* max_messages_per_client, whatever was added at once.                    *)
TypeOK ==
    /\ subs \in [Nodes -> SUBSET Users] /\ wait \in [Nodes -> SUBSET Users]
    /\ asked \in [Nodes -> [Users -> Nat]] /\ owed \in [Nodes -> [Users -> Nat]]
    /\ told \in [Nodes -> [Users -> Notices]]
    /\ messages \in Seq(Messages) /\ Len(messages) <= MaxMessages
    /\ http_connection \in Responses \cup {None}
    /\ ids \in [Nodes -> Nat]
    /\ call \in [Nodes -> Calls]
    /\ held \in [Nodes -> Held]
    /\ refusals \in [Nodes -> Nat]
    /\ stage \in [Responses -> Stages]
    /\ fields \in [Responses -> Nat]
    /\ blocking \in SUBSET Responses /\ filled \in SUBSET Responses
    /\ evicts \in [Responses -> Responses \cup {None}]
    /\ answers \in [Responses -> Nat] /\ written \in [Responses -> Nat]
    /\ timer \in [Responses -> BOOLEAN]
    /\ queued \in [Responses -> Nat]
    /\ hurried \in SUBSET Responses
    /\ shut \in {"no", "left", "done"} /\ closed \in BOOLEAN /\ broken \in BOOLEAN
    /\ known \in [Nodes -> Known]
    /\ early \in SUBSET Nodes /\ doubled \in SUBSET Nodes

(* No lost wake up: a response never waits while there are messages for    *)
(* the client, whoever adds them at the same time (the assertions of       *)
(* wait_for_events() and timeout()).                                       *)
NoWaitWithMessages == http_connection # None => messages = <<>>

(* A response that blocks is never forgotten: until somebody sets out to   *)
(* answer it, it is the one in http_connection_, or the thread that        *)
(* replaced it is about to answer it.                                      *)
NobodyForgotten ==
    \A r \in Responses : (stage[r] = "entered" \/ r \in blocking) /\ answers[r] = 0 =>
        http_connection = r \/ \E q \in Responses : evicts[q] = r

(* A response is answered once, although new messages, the timer, hurry(), *)
(* a second connection and shut_down() all race for it.  Not said of a     *)
(* form whose second field was begun: each of its fields may wait, or be   *)
(* answered of its own (response.h:340-377).                               *)
AnsweredOnce == \A r \in Responses : fields[r] <= 1 => answers[r] <= 1

(* Every response that blocks is answered, at the latest by its timer.     *)
WaiterAnswered ==
    \A r \in Responses : (stage[r] = "entered") ~> (written[r] > 0 \/ broken)

(* No response is handed an update of a node whose last answer, among all  *)
(* the messages handed over before it, is not that the node is subscribed; *)
(* unless a later answer was dropped from the buffer.                      *)
AckedBeforeUpdate == early = {}

(* An acknowledgement that the client waits for can still come: root has   *)
(* the client on a list, or owes it an error, or is about to be called.    *)
(* Not said when the client has subscribed again before the answer: one    *)
(* call back takes one of the ids, and another may stay for ever.          *)
AckCanCome ==
    \A n \in Nodes : ids[n] = 0 \/ n \in doubled \/ shut # "no" \/ closed \/ broken
        \/ call[n] = "subscribe" \/ me \in subs[n] \cup wait[n] \/ owed[n][me] > 0

(* With nothing in flight, the last answer about a node that was handed to *)
(* a response tells whether root has it subscribed; unless a later answer  *)
(* was dropped from the buffer.                                            *)
ClientAgrees ==
    \A n \in Nodes :
        shut # "no" \/ closed \/ broken \/ call[n] # "idle" \/ ids[n] > 0
        \/ held[n] # "no" \/ refusals[n] > 0 \/ AnswersIn(messages, n, Len(messages)) # {}
        \/ known[n] = "lost" \/ (known[n] = "yes" <=> me \in subs[n])
=============================================================================
