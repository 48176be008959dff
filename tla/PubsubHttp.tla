----------------------------- MODULE PubsubHttp -----------------------------
(***************************************************************************)
(* pubsub::http: one session, the list of sessions that owns it, and the   *)
(* HTTP responses that use it, on top of pubsub::root (Subscriptions).     *)
(* The session sends a node as data when it does not know which version    *)
(* the client has, and else as an update from that version.  Each locked   *)
(* section is one action; the mutex_ of sessions and the node's mutex_ are *)
(* held across several (mutex, held).  Sections under one lock between     *)
(* which nobody can see a difference are one action.                       *)
(***************************************************************************)
EXTENDS Subscriptions, Sequences, FiniteSets

CONSTANTS
    me,             \* the session
    Responses,      \* response objects, one for every request at a time
    None,           \* no response
    MaxVersion,     \* bound: versions of a node
    MaxPending,     \* bound: updates that the session stores
    MaxReturns,     \* bound: how often an impatient (FALSE) or patient client subscribes again
    MaxOpen         \* bound: root's questions and errors that are open about a node

ASSUME HttpAssumption ==
    /\ Users = {me}
    /\ IsFiniteSet(Responses) /\ None \notin Responses
    /\ MaxVersion \in Nat \ {0} /\ MaxPending \in Nat
    /\ MaxReturns \in [BOOLEAN -> Nat] /\ MaxOpen \in Nat

VARIABLES
    version,        \* [Nodes -> 1 .. MaxVersion], the version of the node's data
    status,         \* {"unborn", "live", "dead"}, live: in sessions_
    use_counter,    \* Nat, use_counter_
    idle_timer,     \* BOOLEAN, the session's timer_ is running
    expired,        \* BOOLEAN, it expired and its handler did not run yet
    mutex,          \* Responses or None, the request whose thread has sessions' mutex_
    connection,     \* Responses or None, connection_
    updates,        \* Seq(Updates), updates_
    errors,         \* SUBSET Nodes, responds_
    node_versions,  \* [Nodes -> 0 .. MaxVersion], node_versions_, 0 if there is none
    held,           \* [Nodes -> Responses or None], what a call back has in its hands
    stage,          \* [Responses -> Stages]
    at,             \* [Responses -> Nodes or None], the node of the command
    reply,          \* [Responses -> BOOLEAN], the request has to be answered at once
    second,         \* [Responses -> Responses or None], the response it replaced
    payload,        \* [Responses -> Seq(Updates)], the updates it will write
    refuse,         \* [Responses -> SUBSET Nodes], and the errors
    timer,          \* [Responses -> {"off", "on", "expired"}], long_poll_timer_
    hurried,        \* SUBSET Responses, hurry() was called
    interest,       \* [Nodes -> Interests], the client's subscriptions
    client,         \* [Nodes -> 0 .. MaxVersion], the version that the client has
    returns,        \* Nat, how often the client subscribed again
    stale,          \* SUBSET Nodes, the session may know a version that the client dropped
    patient         \* BOOLEAN, the client has one request at a time, and no invalid names

listVars == <<status, use_counter, idle_timer, expired>>
sessionVars == <<connection, updates, errors>>
responseVars == <<stage, at, reply, second, payload, refuse, timer, hurried>>
clientVars == <<interest, client, returns, stale>>
vars == <<subVars, version, listVars, mutex, sessionVars, node_versions, held, responseVars,
          clientVars>>

(* from = 0: the data itself. *)
Updates == [node : Nodes, from : 0 .. MaxVersion, to : 1 .. MaxVersion]

(* The request is read and its commands are executed; it starts its timer; *)
(* it is in connection_, or should be; somebody took it from there to call *)
(* update(), or posted the call; it is written; it was written.            *)
Stages == {"free", "commands", "subscribe", "called_back", "unsubscribe", "armed",
           "waiting", "taken", "writing", "written"}

(* Never asked for; subscribed; left or refused; to be subscribed again,   *)
(* since an update did not fit.                                            *)
Interests == {"new", "yes", "no", "mismatch"}

HttpInit ==
    /\ SubInit
    /\ version = [n \in Nodes |-> 1]
    /\ status = "unborn" /\ use_counter = 0 /\ idle_timer = FALSE /\ expired = FALSE
    /\ mutex = None
    /\ connection = None /\ updates = <<>> /\ errors = {}
    /\ node_versions = [n \in Nodes |-> 0]
    /\ held = [n \in Nodes |-> None]
    /\ stage = [r \in Responses |-> "free"]
    /\ at = [r \in Responses |-> None]
    /\ reply = [r \in Responses |-> FALSE]
    /\ second = [r \in Responses |-> None]
    /\ payload = [r \in Responses |-> <<>>]
    /\ refuse = [r \in Responses |-> {}]
    /\ timer = [r \in Responses |-> "off"]
    /\ hurried = {}
    /\ interest = [n \in Nodes |-> "new"]
    /\ client = [n \in Nodes |-> 0]
    /\ returns = 0 /\ stale = {}
    /\ patient \in BOOLEAN

-----------------------------------------------------------------------------
(* The client reads a response: first the errors, then the updates. *)

(* The version of n that a client has, who had v and has read us. *)
After(us, n, v) ==
    IF \E i \in 1 .. Len(us) : us[i].node = n
      THEN us[CHOOSE i \in 1 .. Len(us) :
                us[i].node = n /\ \A j \in (i + 1) .. Len(us) : us[j].node # n].to
      ELSE v

(* Each of the updates us of n is data, or starts from what a client that  *)
(* had version v has by then.                                              *)
Applies(us, n, v) ==
    \A i \in 1 .. Len(us) :
        us[i].node = n => us[i].from \in {0, After(SubSeq(us, 1, i - 1), n, v)}

(* A node that is refused, or has an update that does not fit, is removed  *)
(* from the list of subjects.                                              *)
Read(us, es) ==
    /\ interest' = [n \in Nodes |->
         IF n \in es THEN "no"
         ELSE IF interest[n] = "yes" /\ ~Applies(us, n, client[n]) THEN "mismatch"
         ELSE interest[n]]
    /\ client' = [n \in Nodes |->
         IF interest'[n] = "yes" THEN After(us, n, client[n]) ELSE 0]
    /\ stale' = stale \cup { n \in es : node_versions[n] # 0 }
    /\ UNCHANGED returns

InHand ==
    IF \E r \in Responses : stage[r] = "taken"
      THEN payload[CHOOSE r \in Responses : stage[r] = "taken"] ELSE <<>>

(* long_poll_timer_.cancel(), which comes too late when it has expired. *)
Cancelled(t) == IF t = "on" THEN "off" ELSE t

(* The response is written, after its timer was cancelled. *)
Write(r) ==
    /\ stage' = [stage EXCEPT ![r] = "writing"]
    /\ timer' = [timer EXCEPT ![r] = Cancelled(@)]

-----------------------------------------------------------------------------
(* The list of sessions *)

InFlight(r) == stage[r] \notin {"free", "written"}

(* A timer that has expired is not cancelled. *)
cancel_timer == idle_timer' = FALSE

find_or_create_session(r) ==
    /\ stage[r] = "free" /\ mutex = None /\ status # "dead"
    /\ patient => \A q \in Responses : ~InFlight(q)
    /\ stage' = [stage EXCEPT ![r] = "commands"]
    /\ reply' = [reply EXCEPT ![r] = (status = "unborn")]
    /\ status' = "live"
    /\ use_counter' = use_counter + 1
    /\ cancel_timer
    /\ UNCHANGED <<subVars, version, expired, mutex, sessionVars, node_versions, held, at,
                   second, payload, refuse, timer, hurried, clientVars>>

(* Nobody else has a reference: connection_, a call back, wait() or the    *)
(* handler of the timer.                                                   *)
LastReference(r) ==
    /\ stage[r] = "written" /\ timer[r] = "off"
    /\ \A q \in Responses : second[q] # r
    /\ \A n \in Nodes : held[n] # r

(* ~response() with idle_session(), which locks mutex_. *)
idle_session(r) ==
    /\ mutex = None
    /\ stage' = [stage EXCEPT ![r] = "free"]
    /\ reply' = [reply EXCEPT ![r] = FALSE]
    /\ hurried' = hurried \ {r}
    /\ use_counter' = use_counter - 1
    /\ idle_timer' = (idle_timer \/ use_counter = 1)

destroy(r) ==
    /\ LastReference(r)
    /\ idle_session(r)
    /\ UNCHANGED <<subVars, version, status, expired, mutex, sessionVars, node_versions, held,
                   at, second, payload, refuse, timer, clientVars>>

session_expires ==
    /\ idle_timer /\ ~expired
    /\ idle_timer' = FALSE
    /\ expired' = TRUE
    /\ UNCHANGED <<subVars, version, status, use_counter, mutex, sessionVars, node_versions,
                   held, responseVars, clientVars>>

(* Mutant: a session that was found again meanwhile is removed, too. *)
timeout_session_used ==
    /\ expired /\ mutex = None
    /\ \A n \in Nodes : held[n] = None
    /\ expired' = FALSE
    /\ status' = "dead" /\ idle_timer' = FALSE /\ Leave(me, Nodes)
    /\ UNCHANGED <<version, use_counter, mutex, sessionVars, node_versions, held, responseVars,
                   clientVars>>

(* unsubscribe_all() locks every node. *)
timeout_session ==
    /\ expired /\ mutex = None
    /\ \A n \in Nodes : held[n] = None
    /\ expired' = FALSE
    /\ IF use_counter = 0
         THEN status' = "dead" /\ idle_timer' = FALSE /\ Leave(me, Nodes)
         ELSE UNCHANGED <<subVars, status, idle_timer>>
    /\ UNCHANGED <<version, use_counter, mutex, sessionVars, node_versions, held, responseVars,
                   clientVars>>

(* The timers of all sessions are cancelled; the server stops. *)
shut_down ==
    /\ status = "live" /\ idle_timer /\ mutex = None
    /\ cancel_timer
    /\ UNCHANGED <<subVars, version, status, use_counter, expired, mutex, sessionVars,
                   node_versions, held, responseVars, clientVars>>

-----------------------------------------------------------------------------
(* Events of the session *)

(* Mutant: a response that waits is not told. *)
on_event_stores(us, es, stages) ==
    /\ updates' = updates \o us
    /\ errors' = errors \cup es
    /\ stage' = stages
    /\ UNCHANGED <<connection, payload, refuse>>

(* on_event(): the response that waits takes everything.  The stages are   *)
(* those after the step of the thread that calls.                          *)
on_event(us, es, stages) ==
    IF connection # None
      THEN /\ connection' = None
           /\ stage' = [stages EXCEPT ![connection] = "taken"]
           /\ payload' = [payload EXCEPT ![connection] = updates \o us]
           /\ refuse' = [refuse EXCEPT ![connection] = errors \cup es]
           /\ updates' = <<>>
           /\ errors' = {}
      ELSE /\ updates' = updates \o us
           /\ errors' = errors \cup es
           /\ stage' = stages
           /\ UNCHANGED <<connection, payload, refuse>>

(* on_update() with version to: an update if the node still has it, see    *)
(* get_update_from() in module Node.                                       *)
on_update(n, to, stages) ==
    /\ \E from \in {0, node_versions[n]} :
         from < to /\ on_event(<<[node |-> n, from |-> from, to |-> to]>>, {}, stages)
    /\ node_versions' = [node_versions EXCEPT ![n] = to]
    /\ stale' = IF interest[n] = "yes" THEN stale ELSE stale \cup {n}

(* con->update(): the response that was taken, or whose update was posted, *)
(* is written.                                                             *)
update(r) ==
    /\ stage[r] = "taken"
    /\ Write(r)
    /\ Read(payload[r], refuse[r])
    /\ payload' = [payload EXCEPT ![r] = <<>>]
    /\ refuse' = [refuse EXCEPT ![r] = {}]
    /\ UNCHANGED <<subVars, version, listVars, mutex, sessionVars, node_versions, held, at,
                   reply, second, hurried>>

(* The call back returns, still under the node's mutex_, and drops its     *)
(* reference.  If it is the last one, ~response() locks mutex_.            *)
release(n) ==
    /\ held[n] # None /\ stage[held[n]] # "taken"
    /\ held' = [held EXCEPT ![n] = None]
    /\ IF stage[held[n]] = "written" /\ timer[held[n]] = "off"
         THEN idle_session(held[n])
         ELSE UNCHANGED <<stage, reply, hurried, use_counter, idle_timer>>
    /\ UNCHANGED <<subVars, version, status, expired, mutex, sessionVars, node_versions, at,
                   second, payload, refuse, timer, clientVars>>

-----------------------------------------------------------------------------
(* The commands of a request.  subscribe() and unsubscribe() hold mutex_   *)
(* while they call root.                                                   *)

(* Updates of n have not reached the client yet. *)
Pending(n) == \E i \in 1 .. Len(InHand \o updates) : (InHand \o updates)[i].node = n

subscribe(r, n) ==
    /\ stage[r] = "commands" /\ mutex = None
    /\ interest[n] = "new" \/ (interest[n] = "no" /\ returns < MaxReturns[patient])
    /\ asked[n][me] + owed[n][me] < MaxOpen /\ Len(updates) < MaxPending
    /\ mutex' = r
    /\ stage' = [stage EXCEPT ![r] = "subscribe"]
    /\ at' = [at EXCEPT ![r] = n]
    /\ interest' = [interest EXCEPT ![n] = "yes"]
    /\ returns' = IF interest[n] = "no" THEN returns + 1 ELSE returns
    /\ stale' = IF Pending(n) THEN stale \cup {n} ELSE stale
    /\ Ask(n, me)
    /\ UNCHANGED <<version, listVars, sessionVars, node_versions, held, reply, second,
                   payload, refuse, timer, hurried, client>>

(* root_.subscribe() returns, or calls back first. *)
root_subscribe(r) ==
    LET n == at[r] IN
    /\ stage[r] = "subscribe" /\ held[n] = None
    /\ \/ /\ JoinWaiting(n, me) \/ Join(n, me) \/ Owe(n, me)
          /\ stage' = [stage EXCEPT ![r] = "commands"]
          /\ UNCHANGED <<sessionVars, node_versions, held, payload, refuse, stale>>
       \/ /\ JoinWithData(n, me)
          /\ on_update(n, version[n], [stage EXCEPT ![r] =
                         IF connection = None THEN "commands" ELSE "called_back"])
          /\ held' = [held EXCEPT ![n] = connection]
    /\ mutex' = IF stage'[r] = "commands" THEN None ELSE r
    /\ at' = [at EXCEPT ![r] = IF stage'[r] = "commands" THEN None ELSE n]
    /\ UNCHANGED <<version, listVars, reply, second, timer, hurried, interest, client, returns>>

subscribe_returns(r) ==
    /\ stage[r] = "called_back" /\ held[at[r]] = None
    /\ stage' = [stage EXCEPT ![r] = "commands"]
    /\ mutex' = None
    /\ at' = [at EXCEPT ![r] = None]
    /\ UNCHANGED <<subVars, version, listVars, sessionVars, node_versions, held, reply,
                   second, payload, refuse, timer, hurried, clientVars>>

(* Mutant: the version is kept. *)
unsubscribe_keeps(r, n) ==
    /\ stage[r] = "commands" /\ mutex = None
    /\ interest[n] \in {"yes", "mismatch"}
    /\ mutex' = r
    /\ stage' = [stage EXCEPT ![r] = "unsubscribe"]
    /\ at' = [at EXCEPT ![r] = n]
    /\ interest' = [interest EXCEPT ![n] = "no"]
    /\ client' = [client EXCEPT ![n] = 0]
    /\ stale' = stale \ {n}
    /\ UNCHANGED <<subVars, version, listVars, sessionVars, node_versions, held, reply, second,
                   payload, refuse, timer, hurried, returns>>

(* The version is forgotten, ... *)
unsubscribe(r, n) ==
    /\ stage[r] = "commands" /\ mutex = None
    /\ interest[n] \in {"yes", "mismatch"}
    /\ mutex' = r
    /\ stage' = [stage EXCEPT ![r] = "unsubscribe"]
    /\ at' = [at EXCEPT ![r] = n]
    /\ interest' = [interest EXCEPT ![n] = "no"]
    /\ client' = [client EXCEPT ![n] = 0]
    /\ stale' = stale \ {n}
    /\ node_versions' = [node_versions EXCEPT ![n] = 0]
    /\ UNCHANGED <<subVars, version, listVars, sessionVars, held, reply, second,
                   payload, refuse, timer, hurried, returns>>

(* ... and root is called.  Who was not subscribed is told so. *)
root_unsubscribe(r) ==
    LET n == at[r] IN
    /\ stage[r] = "unsubscribe" /\ held[n] = None
    /\ Leave(me, {n})
    /\ reply' = [reply EXCEPT ![r] = @ \/ me \notin subs[n] \cup wait[n]]
    /\ stage' = [stage EXCEPT ![r] = "commands"]
    /\ mutex' = None
    /\ at' = [at EXCEPT ![r] = None]
    /\ UNCHANGED <<version, listVars, sessionVars, node_versions, held, second, payload,
                   refuse, timer, hurried, clientVars>>

(* check_node_name() fails for a command. *)
command_error(r) ==
    /\ stage[r] = "commands" /\ ~patient
    /\ reply' = [reply EXCEPT ![r] = TRUE]
    /\ UNCHANGED <<subVars, version, listVars, mutex, sessionVars, node_versions, held, stage,
                   at, second, payload, refuse, timer, hurried, clientVars>>

-----------------------------------------------------------------------------
(* The commands are done. *)

(* Mutant: what is stored is taken, but not sent. *)
answer_commands_loses(r) ==
    /\ stage[r] = "commands" /\ reply[r]
    /\ stage' = [stage EXCEPT ![r] = "writing"]
    /\ updates' = <<>> /\ errors' = {}
    /\ UNCHANGED <<subVars, version, listVars, mutex, connection, node_versions, held, at,
                   reply, second, payload, refuse, timer, hurried, clientVars>>

(* A new session and errors are answered without looking further, ... *)
answer_commands(r) ==
    /\ stage[r] = "commands" /\ reply[r]
    /\ stage' = [stage EXCEPT ![r] = "writing"]
    /\ UNCHANGED <<subVars, version, listVars, mutex, sessionVars, node_versions, held, at,
                   reply, second, payload, refuse, timer, hurried, clientVars>>

(* ... what is stored is sent, and else the timer is started ... *)
pending_updates(r) ==
    /\ stage[r] = "commands" /\ ~reply[r]
    /\ updates' = <<>> /\ errors' = {}
    /\ \/ /\ updates # <<>> \/ errors # {}
          /\ stage' = [stage EXCEPT ![r] = "writing"]
          /\ Read(updates, errors)
          /\ UNCHANGED timer
       \/ /\ updates = <<>> /\ errors = {}
          /\ stage' = [stage EXCEPT ![r] = "armed"]
          /\ timer' = [timer EXCEPT ![r] = "on"]
          /\ UNCHANGED clientVars
    /\ UNCHANGED <<subVars, version, listVars, mutex, connection, node_versions, held, at,
                   reply, second, payload, refuse, hurried>>

(* ... before the response waits.  What came meanwhile is posted to it.    *)
(* A response that waits already is answered, with mutex_ locked.          *)
wait_for_session_event(r) ==
    /\ stage[r] = "armed" /\ mutex = None
    /\ LET now == updates # <<>> \/ errors # {} IN
         /\ connection' = IF now THEN None ELSE r
         /\ payload' = [payload EXCEPT ![r] = updates]
         /\ refuse' = [refuse EXCEPT ![r] = errors]
         /\ stage' = [q \in Responses |->
                        IF q = r THEN (IF now THEN "taken" ELSE "waiting")
                        ELSE IF q = connection THEN "writing" ELSE stage[q]]
    /\ updates' = <<>> /\ errors' = {}
    /\ timer' = [q \in Responses |-> IF q = connection THEN Cancelled(timer[q]) ELSE timer[q]]
    /\ second' = [second EXCEPT ![r] = connection]
    /\ mutex' = IF connection # None THEN r ELSE None
    /\ UNCHANGED <<subVars, version, listVars, node_versions, held, at, reply, hurried,
                   clientVars>>

(* wait() returns and drops its reference to the other response; if it is  *)
(* the last one, ~response() waits for mutex_, which this thread has.      *)
wait_returns(r) ==
    /\ second[r] # None
    /\ stage[second[r]] # "written" \/ timer[second[r]] # "off"
    /\ second' = [second EXCEPT ![r] = None]
    /\ mutex' = None
    /\ UNCHANGED <<subVars, version, listVars, sessionVars, node_versions, held, stage, at,
                   reply, payload, refuse, timer, hurried, clientVars>>

-----------------------------------------------------------------------------
(* The end of the waiting *)

(* Mutant: the response is answered, and stays in connection_. *)
session_wake_up_keeps(r) ==
    /\ IF connection = r
         THEN stage' = [stage EXCEPT ![r] = "writing"]
         ELSE UNCHANGED stage
    /\ UNCHANGED connection

(* session_impl::wake_up(): whoever waits is removed, and r is answered if *)
(* it was r.                                                               *)
session_wake_up(r) ==
    /\ connection' = None
    /\ IF connection = r
         THEN stage' = [stage EXCEPT ![r] = "writing"]
         ELSE UNCHANGED stage

wake_up(r) == mutex = None /\ session_wake_up(r)

expire(r) ==
    /\ timer[r] = "on"
    /\ timer' = [timer EXCEPT ![r] = "expired"]
    /\ UNCHANGED <<subVars, version, listVars, mutex, sessionVars, node_versions, held, stage,
                   at, reply, second, payload, refuse, hurried, clientVars>>

on_time_out(r) ==
    /\ timer[r] = "expired"
    /\ timer' = [timer EXCEPT ![r] = "off"]
    /\ wake_up(r)
    /\ UNCHANGED <<subVars, version, listVars, mutex, updates, errors, node_versions, held, at,
                   reply, second, payload, refuse, hurried, clientVars>>

(* A response behind this one on its HTTP connection is ready; once. *)
implement_hurry(r) ==
    /\ InFlight(r) /\ r \notin hurried
    /\ hurried' = hurried \cup {r}
    /\ wake_up(r)
    /\ timer' = [timer EXCEPT ![r] = IF connection = r THEN Cancelled(@) ELSE @]
    /\ UNCHANGED <<subVars, version, listVars, mutex, updates, errors, node_versions, held, at,
                   reply, second, payload, refuse, clientVars>>

response_written(r) ==
    /\ stage[r] = "writing"
    /\ stage' = [stage EXCEPT ![r] = "written"]
    /\ UNCHANGED <<subVars, version, listVars, mutex, sessionVars, node_versions, held, at,
                   reply, second, payload, refuse, timer, hurried, clientVars>>

-----------------------------------------------------------------------------
(* Root *)

root_asks(n) ==
    /\ me \in wait[n] /\ asked[n][me] + owed[n][me] < MaxOpen
    /\ AskAdapter(n, {me})
    /\ UNCHANGED <<version, listVars, mutex, sessionVars, node_versions, held, responseVars,
                   clientVars>>

root_answers_quietly(n) ==
    /\ held[n] = None
    /\ AdmitNobody(n, me) \/ AdmitQuietly(n, me) \/ Refuse(n, me)
    /\ UNCHANGED <<version, listVars, mutex, sessionVars, node_versions, held, responseVars,
                   clientVars>>

root_admits(n) ==
    /\ held[n] = None /\ Len(updates) < MaxPending
    /\ AdmitWithData(n, me)
    /\ on_update(n, version[n], stage)
    /\ held' = [held EXCEPT ![n] = connection]
    /\ UNCHANGED <<version, listVars, mutex, at, reply, second, timer, hurried, interest, client,
                   returns>>

(* The node is initialized or updated. *)
change_data(n) ==
    /\ held[n] = None /\ version[n] < MaxVersion /\ Len(updates) < MaxPending
    /\ version' = [version EXCEPT ![n] = @ + 1]
    /\ Update(n)
    /\ IF me \in subs[n]
         THEN /\ on_update(n, version[n] + 1, stage)
              /\ held' = [held EXCEPT ![n] = connection]
         ELSE UNCHANGED <<sessionVars, node_versions, held, stage, payload, refuse, stale>>
    /\ UNCHANGED <<listVars, mutex, at, reply, second, timer, hurried, interest, client, returns>>

(* add_error(), under no lock or under the node's. *)
on_error(n) ==
    /\ \/ TellError(n, me, "unauthorized") /\ UNCHANGED held
       \/ /\ me \in subs[n] \cup wait[n] /\ held[n] = None
          /\ FailNode(n, "failed")
          /\ held' = [held EXCEPT ![n] = connection]
    /\ on_event(<<>>, {n}, stage)
    /\ UNCHANGED <<version, listVars, mutex, node_versions, at, reply, second, timer, hurried,
                   clientVars>>

-----------------------------------------------------------------------------
RequestStep(r) ==
    \/ root_subscribe(r) \/ subscribe_returns(r) \/ root_unsubscribe(r)
    \/ answer_commands(r) \/ pending_updates(r)
    \/ wait_for_session_event(r) \/ wait_returns(r)
    \/ update(r) \/ response_written(r) \/ destroy(r)

TimerStep(r) == expire(r) \/ on_time_out(r)

CallBack(n) == root_answers_quietly(n) \/ root_admits(n) \/ change_data(n) \/ on_error(n)

SessionTimer == session_expires \/ timeout_session

Poll == \E r \in Responses : find_or_create_session(r)

Step ==
    \/ Poll
    \/ \E r \in Responses :
         \/ RequestStep(r) \/ TimerStep(r) \/ implement_hurry(r) \/ command_error(r)
         \/ \E n \in Nodes : subscribe(r, n) \/ unsubscribe(r, n)
    \/ \E n \in Nodes : root_asks(n) \/ CallBack(n) \/ release(n)
    \/ SessionTimer \/ shut_down

Next == Step /\ UNCHANGED patient

Spec == HttpInit /\ [][Next]_<<vars, patient>>

(* Threads go on, posted calls are made, writes end, timers expire; the    *)
(* client polls.                                                           *)
FairSpec ==
    /\ Spec
    /\ WF_vars(Poll)
    /\ \A r \in Responses : WF_vars(RequestStep(r)) /\ WF_vars(TimerStep(r))
    /\ \A n \in Nodes : WF_vars(release(n))

-----------------------------------------------------------------------------
(* Properties *)

(* The types of the members; use_counter_ never goes below 0, which        *)
(* unuse() asserts.                                                        *)
TypeOK ==
    /\ version \in [Nodes -> 1 .. MaxVersion]
    /\ status \in {"unborn", "live", "dead"}
    /\ use_counter \in Nat /\ idle_timer \in BOOLEAN /\ expired \in BOOLEAN
    /\ mutex \in Responses \cup {None} /\ patient \in BOOLEAN
    /\ connection \in Responses \cup {None}
    /\ updates \in Seq(Updates) /\ errors \in SUBSET Nodes
    /\ node_versions \in [Nodes -> 0 .. MaxVersion]
    /\ held \in [Nodes -> Responses \cup {None}]
    /\ stage \in [Responses -> Stages]
    /\ at \in [Responses -> Nodes \cup {None}]
    /\ reply \in [Responses -> BOOLEAN]
    /\ second \in [Responses -> Responses \cup {None}]
    /\ payload \in [Responses -> Seq(Updates)]
    /\ refuse \in [Responses -> SUBSET Nodes]
    /\ timer \in [Responses -> {"off", "on", "expired"}]
    /\ hurried \in SUBSET Responses
    /\ interest \in [Nodes -> Interests]
    /\ client \in [Nodes -> 0 .. MaxVersion]
    /\ returns \in Nat /\ stale \in SUBSET Nodes

(* No lost wake up: connection_ is empty while updates_ or responds_ are   *)
(* not, although events come between pending_updates() and wait().         *)
NoWaitWithEvents == connection # None => updates = <<>> /\ errors = {}

(* The pointer session_ of a response never dangles, although timers of    *)
(* the session expire while it is found again: it is in the list.          *)
SessionListed == \A r \in Responses : stage[r] # "free" => status = "live"

(* A response is written once, although events, a second connection, its   *)
(* timer and hurry() race for it: nobody takes it again.                   *)
AnsweredOnce ==
    [][\A r \in Responses :
         /\ stage[r] = "writing" => stage'[r] \in {"writing", "written", "free"}
         /\ stage[r] = "written" => stage'[r] \in {"written", "free"}]_vars

(* The updates us of node n lead from version v to version to. *)
Leads(us, n, v, to) == Applies(us, n, v) /\ to = After(us, n, v)

(* connector.h: "from" is the version the updated object must have.  For   *)
(* a client that waits for its answers, the updates on their way lead from *)
(* the version it has to the one in node_versions_.  This includes nodes   *)
(* that it left and subscribed to again, with three exceptions, in which   *)
(* the code breaks it (stale): a call back came after the client had left, *)
(* as between unsubscribe() forgetting the version and root forgetting the *)
(* subscription (sessions.cpp:356); updates of the earlier subscription    *)
(* were still stored; or the client left since it got an error, which      *)
(* forgets no version.                                                     *)
InStep ==
    \A n \in Nodes : patient /\ interest[n] = "yes" /\ n \notin stale =>
        Leads(InHand \o updates, n, client[n], node_versions[n])

(* sessions.h on wait_for_session_event(): it keeps the connection         *)
(* associated with the session, until an event occurs or wake_up() gets    *)
(* called for it.                                                          *)
WaiterKnown == \A r \in Responses : stage[r] = "waiting" => connection = r

(* A client that waits for its answers and was told of a node gets its     *)
(* latest version, unless it left the node, its response was forgotten, or *)
(* the session knows a version that it dropped.                            *)
CatchesUp ==
    \A n \in Nodes : (patient /\ me \in subs[n] /\ told[n][me] = "update") ~>
        (client[n] = version[n] \/ interest[n] = "no" \/ n \in stale \/ status = "dead"
           \/ ~WaiterKnown)

(* unsubscribe() and subscribe() return: mutex_ is unlocked again. *)
MutexFreed == (mutex # None) ~> (mutex = None)
=============================================================================
