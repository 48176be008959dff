-------------------------- MODULE BayeuxConnector --------------------------
(***************************************************************************)
(* bayeux::connector: the sessions by their id, how often each is in use,  *)
(* and the timers that remove idle ones; and the responses (one for every  *)
(* HTTP request, each with several Bayeux messages) that find, use and     *)
(* return sessions.  The messages of a request come in one field, or, if   *)
(* it is a form, in several that are handled one after the other.  A       *)
(* session is reduced to the response that waits on it (module             *)
(* BayeuxSession has the rest).  A response keeps a plain pointer to its   *)
(* session, which use_count_ has to protect.                               *)
(*                                                                         *)
(* Every member function of connector runs under its mutex_; shut_down()   *)
(* holds it while it calls the sessions, which is why it has several       *)
(* steps here.                                                             *)
(***************************************************************************)
EXTENDS Naturals, FiniteSets

CONSTANTS
    Sessions,       \* session ids, all that will ever be generated
    Responses,      \* responses, one for every HTTP request
    Forms,          \* responses to forms, which may have several 'message' fields
    None,           \* no session, no response
    OneHandshake,   \* BOOLEAN, no request has a handshake after another message
    MayShutDown,    \* BOOLEAN, shut_down() may be called
    MaxFields,      \* bound: 'message' fields of one request
    MaxQueued,      \* bound: handlers of one session's timer that wait to run
    MaxUses         \* bound of use_count, which handshakes can leak

ASSUME ConnectorAssumption ==
    /\ IsFiniteSet(Responses) /\ Forms \subseteq Responses
    /\ None \notin Sessions /\ None \notin Responses
    /\ OneHandshake \in BOOLEAN /\ MayShutDown \in BOOLEAN
    /\ MaxFields \in Nat \ {0}
    /\ MaxQueued \in Nat \ {0} /\ MaxUses \in Nat \ {0}

VARIABLES
    status,         \* [Sessions -> {"unborn", "live", "dead"}], live: in sessions_, index_
    use_count,      \* [Sessions -> Nat], use_count_
    timer,          \* [Sessions -> BOOLEAN], timer_ is running
    queued,         \* [Sessions -> Nat], expired timers whose handlers did not run yet
    waiting,        \* [Sessions -> Responses or None], the session's http_connection_
    shutting_down,  \* BOOLEAN, shutting_down_
    mutex,          \* {"free", "shut_down", "stuck"}, who has mutex_ between two steps
    todo,           \* SUBSET Sessions, still to be shut down
    released,       \* Responses or None, the reference that session::shut_down() holds
    stage,          \* [Responses -> Stages]
    fields,         \* [Responses -> Nat], fields that were begun
    blocking,       \* [Responses -> Blocking], blocking_connect_
    said,           \* SUBSET Responses, bayeux_response_ is not empty
    writes,         \* [Responses -> Nat], calls of async_write() that did not end yet
    session,        \* [Responses -> Sessions or None], session_
    target          \* [Responses -> Sessions or None], the clientId of the message

connectorVars == <<status, use_count, timer, queued, shutting_down>>
shutVars == <<mutex, todo, released>>
formVars == <<fields, blocking, said>>
responseVars == <<stage, formVars, writes, session, target>>
vars == <<connectorVars, waiting, shutVars, responseVars>>

(* Before a field; between two messages of it; in check_session(); after   *)
(* the last field; destroyed; and the program ended by a null pointer.     *)
Stages == {"new", "busy", "finding", "done", "gone", "crashed"}

(* blocking_connect_ is empty, was set in the last field that was handled, *)
(* or in one that was followed by another.                                 *)
Blocking == {"no", "last", "more"}

Init ==
    /\ status = [s \in Sessions |-> "unborn"]
    /\ use_count = [s \in Sessions |-> 0]
    /\ timer = [s \in Sessions |-> FALSE]
    /\ queued = [s \in Sessions |-> 0]
    /\ waiting = [s \in Sessions |-> None]
    /\ shutting_down = FALSE
    /\ mutex = "free"
    /\ todo = {}
    /\ released = None
    /\ stage = [r \in Responses |-> "new"]
    /\ fields = [r \in Responses |-> 0]
    /\ blocking = [r \in Responses |-> "no"]
    /\ said = {}
    /\ writes = [r \in Responses |-> 0]
    /\ session = [r \in Responses |-> None]
    /\ target = [r \in Responses |-> None]

-----------------------------------------------------------------------------
(* idle_session(), under mutex_ *)

(* Mutant: only the response that has the session alone returns it. *)
idle_session_last_only(s) ==
    IF use_count[s] = 1
      THEN /\ use_count' = [use_count EXCEPT ![s] = 0]
           /\ timer' = [timer EXCEPT ![s] = TRUE]
      ELSE UNCHANGED <<use_count, timer>>

(* Mutant: the timer is not started. *)
idle_session_no_timer(s) ==
    /\ use_count' = [use_count EXCEPT ![s] = @ - 1]
    /\ UNCHANGED timer

(* Starting the timer again cancels a wait that has not expired. *)
idle_session(s) ==
    /\ use_count' = [use_count EXCEPT ![s] = @ - 1]
    /\ timer' = [timer EXCEPT ![s] = @ \/ use_count[s] = 1]

-----------------------------------------------------------------------------
(* The messages of a request. *)

(* handle_form_requests() begins with a field, or handle_requests() with   *)
(* the only one.                                                           *)
start(r) ==
    /\ stage[r] = "new"
    /\ stage' = [stage EXCEPT ![r] = "busy"]
    /\ fields' = [fields EXCEPT ![r] = @ + 1]
    /\ blocking' = [blocking EXCEPT ![r] = IF @ = "last" THEN "more" ELSE @]
    /\ UNCHANGED <<connectorVars, waiting, shutVars, said, writes, session, target>>

(* The field ends, and there is another one or not. *)
EndField(r) ==
    \E next \in {"new", "done"} :
        /\ next = "new" => r \in Forms /\ fields[r] < MaxFields
        /\ stage' = [stage EXCEPT ![r] = next]

(* messages() and write_reponse(): the responses rs are written. *)
Write(rs) == writes' = [r \in Responses |-> IF r \in rs THEN writes[r] + 1 ELSE writes[r]]

(* handle_handshake(): session_ is overwritten, with 0 when the handshake  *)
(* is refused by the user's hook or because of the shut down.              *)
handshake(r) ==
    /\ stage[r] = "busy" /\ mutex = "free"
    /\ OneHandshake => session[r] = None
    /\ said' = said \cup {r}
    /\ \/ /\ ~shutting_down
          /\ \E s \in Sessions :
               /\ status[s] = "unborn"
               /\ status' = [status EXCEPT ![s] = "live"]
               /\ use_count' = [use_count EXCEPT ![s] = 1]
               /\ session' = [session EXCEPT ![r] = s]
       \/ /\ session' = [session EXCEPT ![r] = None]
          /\ UNCHANGED <<status, use_count>>
    /\ UNCHANGED <<timer, queued, waiting, shutting_down, shutVars, stage, fields, blocking,
                   writes, target>>

(* check_session() for a message of session s: the session of the message  *)
(* before is returned, ...                                                 *)
check_session(r, s) ==
    /\ stage[r] = "busy"
    /\ stage' = [stage EXCEPT ![r] = "finding"]
    /\ target' = [target EXCEPT ![r] = s]
    /\ \/ session[r] = None /\ UNCHANGED <<use_count, timer, session>>
       \/ /\ session[r] # None /\ mutex = "free"
          /\ idle_session(session[r])
          /\ session' = [session EXCEPT ![r] = None]
    /\ UNCHANGED <<status, queued, waiting, shutting_down, shutVars, formVars, writes>>

(* Mutant: the session is not marked as being in use. *)
find_session_uncounted(r) ==
    /\ stage[r] = "finding" /\ mutex = "free"
    /\ stage' = [stage EXCEPT ![r] = "busy"]
    /\ session' = [session EXCEPT ![r] = IF status[target[r]] = "live" THEN target[r] ELSE None]
    /\ UNCHANGED <<connectorVars, waiting, shutVars, formVars, writes, target>>

(* ... and the new one is looked for.  Its timer goes on. *)
find_session(r) ==
    /\ stage[r] = "finding" /\ mutex = "free"
    /\ stage' = [stage EXCEPT ![r] = "busy"]
    /\ \/ /\ status[target[r]] = "live" /\ use_count[target[r]] < MaxUses
          /\ session' = [session EXCEPT ![r] = target[r]]
          /\ use_count' = [use_count EXCEPT ![target[r]] = @ + 1]
          /\ UNCHANGED said
       \/ /\ status[target[r]] # "live"
          /\ said' = said \cup {r}
          /\ UNCHANGED <<session, use_count>>
    /\ UNCHANGED <<status, timer, queued, waiting, shutting_down, shutVars, fields, blocking,
                   writes, target>>

(* Mutant: a connect that is not the last message blocks, too. *)
connect_not_last(r) ==
    /\ stage[r] = "busy" /\ session[r] # None /\ session[r] = target[r] /\ r \notin said
    /\ waiting' = [waiting EXCEPT ![session[r]] = r]
    /\ blocking' = [blocking EXCEPT ![r] = "last"]
    /\ UNCHANGED <<connectorVars, shutVars, stage, fields, said, writes, session, target>>

(* The message is a connect, the last one of its field, and nothing is to  *)
(* be sent: it blocks, and a response that already waits is answered, even *)
(* if it is the same one.                                                  *)
connect(r) ==
    /\ stage[r] = "busy" /\ session[r] # None /\ session[r] = target[r] /\ r \notin said
    /\ LET s == session[r] IN
         /\ waiting' = [waiting EXCEPT ![s] = r]
         /\ Write({waiting[s]})
         /\ said' = said \cup ({waiting[s]} \cap Responses)
    /\ blocking' = [blocking EXCEPT ![r] = IF @ = "more" THEN "more" ELSE "last"]
    /\ EndField(r)
    /\ UNCHANGED <<connectorVars, shutVars, fields, session, target>>

(* The field ends without a connect that blocks.  The response is written  *)
(* if there was none in the fields before either; if there was, its timer  *)
(* is started again, with the timeout of the session.                      *)
finish(r) ==
    /\ stage[r] = "busy"
    /\ \/ blocking[r] = "no" /\ Write({r})
       \/ blocking[r] # "no" /\ session[r] # None /\ UNCHANGED writes
    /\ EndField(r)
    /\ UNCHANGED <<connectorVars, waiting, shutVars, formVars, session, target>>

(* A connect blocks since a field before, and there is no session any more *)
(* when the field ends, the timer expires or hurry() comes: session_ is    *)
(* used all the same.                                                      *)
null_session(r) ==
    /\ stage[r] \in {"busy", "finding"} /\ blocking[r] # "no" /\ session[r] = None
    /\ stage' = [stage EXCEPT ![r] = "crashed"]
    /\ UNCHANGED <<connectorVars, waiting, shutVars, formVars, writes, session, target>>

(* New messages, the polling timeout or hurry() answer the response. *)
messages(s) ==
    /\ waiting[s] # None
    /\ Write({waiting[s]})
    /\ said' = said \cup {waiting[s]}
    /\ waiting' = [waiting EXCEPT ![s] = None]
    /\ UNCHANGED <<connectorVars, shutVars, stage, fields, blocking, session, target>>

(* A write ends, and with it the reference of the connection. *)
response_written(r) ==
    /\ writes[r] > 0
    /\ writes' = [writes EXCEPT ![r] = @ - 1]
    /\ UNCHANGED <<connectorVars, waiting, shutVars, stage, formVars, session, target>>

(* Nobody but shut_down() has a reference to the response. *)
Unreferenced(r) ==
    stage[r] = "done" /\ writes[r] = 0 /\ \A s \in Sessions : waiting[s] # r

(* ~response_base(): the session is returned. *)
destroy(r) ==
    /\ Unreferenced(r) /\ released # r
    /\ stage' = [stage EXCEPT ![r] = "gone"]
    /\ \/ session[r] = None /\ UNCHANGED <<use_count, timer, session>>
       \/ /\ session[r] # None /\ mutex = "free"
          /\ idle_session(session[r])
          /\ session' = [session EXCEPT ![r] = None]
    /\ UNCHANGED <<status, queued, waiting, shutting_down, shutVars, formVars, writes, target>>

-----------------------------------------------------------------------------
(* The timers of the sessions. *)

expire(s) ==
    /\ timer[s] /\ queued[s] < MaxQueued
    /\ timer' = [timer EXCEPT ![s] = FALSE]
    /\ queued' = [queued EXCEPT ![s] = @ + 1]
    /\ UNCHANGED <<status, use_count, waiting, shutting_down, shutVars, responseVars>>

(* An unused session is removed and closed; with it goes its timer. *)
session_timeout_reached(s) ==
    /\ queued[s] > 0 /\ mutex = "free"
    /\ queued' = [queued EXCEPT ![s] = @ - 1]
    /\ IF status[s] = "live" /\ use_count[s] = 0
         THEN /\ status' = [status EXCEPT ![s] = "dead"]
              /\ timer' = [timer EXCEPT ![s] = FALSE]
              /\ waiting' = [waiting EXCEPT ![s] = None]
         ELSE UNCHANGED <<status, timer, waiting>>
    /\ UNCHANGED <<use_count, shutting_down, shutVars, responseVars>>

drop_session(s) ==
    /\ mutex = "free"
    /\ status[s] = "live" /\ use_count[s] = 0
    /\ status' = [status EXCEPT ![s] = "dead"]
    /\ timer' = [timer EXCEPT ![s] = FALSE]
    /\ UNCHANGED <<use_count, queued, waiting, shutting_down, shutVars, responseVars>>

-----------------------------------------------------------------------------
(* shut_down() *)

shut_down ==
    /\ MayShutDown /\ ~shutting_down /\ mutex = "free"
    /\ shutting_down' = TRUE
    /\ mutex' = "shut_down"
    /\ todo' = {s \in Sessions : status[s] = "live"}
    /\ UNCHANGED <<status, use_count, timer, queued, waiting, released, responseVars>>

(* session_data::shut_down(): the timer is cancelled, the response that    *)
(* waits is answered, ...                                                  *)
shut_down_session(s) ==
    /\ mutex = "shut_down" /\ released = None
    /\ s \in todo
    /\ todo' = todo \ {s}
    /\ timer' = [timer EXCEPT ![s] = FALSE]
    /\ released' = waiting[s]
    /\ waiting' = [waiting EXCEPT ![s] = None]
    /\ Write({waiting[s]})
    /\ said' = said \cup ({waiting[s]} \cap Responses)
    /\ UNCHANGED <<status, use_count, queued, shutting_down, mutex, stage, fields, blocking,
                   session, target>>

(* ... and the reference to it dropped.  If it is the last one, the        *)
(* destructor waits for mutex_, which this thread has locked.              *)
shut_down_release ==
    /\ released # None
    /\ released' = None
    /\ mutex' = IF Unreferenced(released) /\ session[released] # None THEN "stuck" ELSE mutex
    /\ UNCHANGED <<connectorVars, waiting, todo, responseVars>>

shut_down_end ==
    /\ mutex = "shut_down" /\ todo = {} /\ released = None
    /\ mutex' = "free"
    /\ UNCHANGED <<connectorVars, waiting, todo, released, responseVars>>

-----------------------------------------------------------------------------
MessageStep(r) ==
    \/ start(r) \/ handshake(r) \/ find_session(r) \/ connect(r) \/ finish(r)
    \/ null_session(r)
    \/ \E s \in Sessions : status[s] # "unborn" /\ check_session(r, s)

ResponseStep(r) == response_written(r) \/ destroy(r)

ShutDownStep ==
    (\E s \in Sessions : shut_down_session(s)) \/ shut_down_release \/ shut_down_end

Crashed == \E r \in Responses : stage[r] = "crashed"

Next ==
    /\ ~Crashed
    /\ \/ \E r \in Responses : MessageStep(r) \/ ResponseStep(r)
       \/ \E s \in Sessions :
            messages(s) \/ expire(s) \/ session_timeout_reached(s) \/ drop_session(s)
       \/ shut_down \/ ShutDownStep

Spec == Init /\ [][Next]_vars

(* The threads go on, writes end, and timers expire and are handled. *)
FairSpec ==
    /\ Spec
    /\ \A r \in Responses : WF_vars(ResponseStep(r))
    /\ \A s \in Sessions : WF_vars(expire(s)) /\ WF_vars(session_timeout_reached(s))
    /\ WF_vars(ShutDownStep)

-----------------------------------------------------------------------------
(* Properties *)

Holders(s) == {r \in Responses : session[r] = s}

(* The types of connector's members; use_count_ never goes below 0.        *)
TypeOK ==
    /\ status \in [Sessions -> {"unborn", "live", "dead"}]
    /\ use_count \in [Sessions -> 0 .. MaxUses]
    /\ timer \in [Sessions -> BOOLEAN]
    /\ queued \in [Sessions -> 0 .. MaxQueued]
    /\ waiting \in [Sessions -> Responses \cup {None}]
    /\ shutting_down \in BOOLEAN
    /\ mutex \in {"free", "shut_down", "stuck"}
    /\ todo \in SUBSET Sessions
    /\ released \in Responses \cup {None}
    /\ stage \in [Responses -> Stages]
    /\ fields \in [Responses -> 0 .. MaxFields]
    /\ blocking \in [Responses -> Blocking]
    /\ said \in SUBSET Responses
    /\ writes \in [Responses -> Nat]
    /\ session \in [Responses -> Sessions \cup {None}]
    /\ target \in [Responses -> Sessions \cup {None}]

(* The pointer session_ of a response never dangles: neither a timer that  *)
(* expires late nor drop_session() removes a session that is in use.       *)
PointersValid == \A r \in Responses : session[r] # None => status[session[r]] = "live"

(* Only responses that use a session wait on it, so that a session is      *)
(* closed with nobody waiting and close() never leaves one unanswered.     *)
(* Not said of a response that handled a further field of a form after a   *)
(* connect that blocks: the messages of that field return the session on   *)
(* which the response waits.                                               *)
WaitersHold ==
    \A s \in Sessions : waiting[s] # None =>
        session[waiting[s]] = s \/ blocking[waiting[s]] = "more"

(* bayeux.h on find_session() and handshake(): "If the session isn't used  *)
(* anymore, it has to be returned by calling idle_session()".              *)
ReturnedWhenUnused ==
    \A s \in Sessions : status[s] = "live" => use_count[s] = Cardinality(Holders(s))

(* A session that nobody uses is removed, or used again, although timers   *)
(* are started again and expire late; unless shut_down() cancels its timer *)
(* or the program crashes.                                                 *)
UnusedExpires ==
    \A s \in Sessions : (status[s] = "live" /\ Holders(s) = {}) ~>
        (status[s] = "dead" \/ Holders(s) # {} \/ shutting_down \/ Crashed)
=============================================================================
