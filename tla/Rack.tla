-------------------------------- MODULE Rack --------------------------------
(***************************************************************************)
(* The server inside a Ruby process.  One thread runs the I/O queue; the   *)
(* thread that called run() executes, one after the other, the call backs  *)
(* that the I/O thread puts into the ruby_land_queue: requests to the rack *)
(* application, publish call backs (the I/O thread waits for their result) *)
(* and the questions that the pubsub root asks of its adapter.             *)
(*                                                                         *)
(* A step of the Ruby thread between two waits, or between two call backs, *)
(* is made with mutex_ locked and is therefore one action.  The adapter    *)
(* does not raise Ruby exceptions, which would jump over the C++ frames.   *)
(***************************************************************************)
EXTENDS Naturals, Sequences, SequencesExt

CONSTANTS
    Requests,   \* every one arrives at most once
    None

ASSUME RackAssumption == None \notin Requests /\ "idle" \notin Requests /\ "ended" \notin Requests

VARIABLES
    stop_flag,  \* stop_flag_
    queue,      \* queue_, the requests whose call back waits for the Ruby thread
    ruby,       \* where the Ruby thread is
    current,    \* the request whose call back the Ruby thread executes
    last_data,  \* the call backs that process_request() takes out at the end
    kind, at,   \* for every request, what it is and where it is
    step,       \* for a subscription, the question that is open
    io,         \* "idle", "ended", or the request whose future the I/O thread waits for
    listening,  \* the listener is open and the actions are installed
    kept,       \* there is a client connection that is open and idle
    left        \* the requests for the application whose client closed the connection

vars == <<stop_flag, queue, ruby, current, last_data, kind, at, step, io, listening, kept, left>>
rubyVars == <<ruby, current, last_data>>
queueVars == <<stop_flag, queue>>

Kinds == {"app", "publish", "subscribe"}
Steps == {"validate", "authorize", "init"}

Init ==
    /\ stop_flag = FALSE /\ queue = <<>> /\ last_data = <<>>
    /\ ruby = "woken" /\ current = None
    /\ kind = [r \in Requests |-> "none"] /\ at = [r \in Requests |-> "none"]
    /\ step = [r \in Requests |-> "validate"]
    /\ io = "idle" /\ listening = TRUE /\ kept = FALSE /\ left = {}

-----------------------------------------------------------------------------
(* ruby_land_queue *)

notify(r) == IF r = "asleep" THEN "woken" ELSE r

(* Without the notification. *)
push_silent(r, otherwise) ==
    IF stop_flag
    THEN at' = [at EXCEPT ![r] = otherwise] /\ UNCHANGED <<queue, ruby>>
    ELSE /\ at' = [at EXCEPT ![r] = "queued"]
         /\ queue' = Append(queue, r) /\ UNCHANGED ruby

(* Without the look at stop_flag_. *)
push_unchecked(r, otherwise) ==
    /\ at' = [at EXCEPT ![r] = "queued"]
    /\ queue' = Append(queue, r) /\ ruby' = notify(ruby)

(* push(): where the request is afterwards.  otherwise is what becomes of  *)
(* it when the call back is not stored.                                    *)
push(r, otherwise) ==
    IF stop_flag
    THEN at' = [at EXCEPT ![r] = otherwise] /\ UNCHANGED <<queue, ruby>>
    ELSE /\ at' = [at EXCEPT ![r] = "queued"]
         /\ queue' = Append(queue, r) /\ ruby' = notify(ruby)

(* The top of the loops of process_request() and wait(): leave, execute    *)
(* the next call back, or wait for a notification.                         *)
process_request ==
    \/ /\ stop_flag
       /\ ruby' = "leaving" /\ last_data' = queue /\ queue' = <<>> /\ current' = None
       /\ UNCHANGED at
    \/ /\ ~stop_flag /\ queue # <<>>
       /\ ruby' = "running" /\ current' = Head(queue) /\ queue' = Tail(queue)
       /\ at' = [at EXCEPT ![Head(queue)] = "running"]
       /\ UNCHANGED last_data
    \/ /\ ~stop_flag /\ queue = <<>>
       /\ ruby' = "asleep" /\ current' = None
       /\ UNCHANGED <<queue, last_data, at>>

Loop ==
    /\ ruby = "woken" /\ process_request
    /\ UNCHANGED <<stop_flag, kind, step, io, listening, kept, left>>

(* Without the notification. *)
Interrupt_silent ==
    /\ ruby \in {"asleep", "woken"}
    /\ stop_flag' = TRUE
    /\ UNCHANGED <<queue, ruby, current, last_data, kind, at, step, io, listening, kept, left>>

(* Ruby interrupts the wait: rack_call_queue_stop() is called by another   *)
(* of its threads.                                                         *)
Interrupt ==
    /\ ruby \in {"asleep", "woken"}
    /\ stop_flag' = TRUE /\ ruby' = notify(ruby)
    /\ UNCHANGED <<queue, current, last_data, kind, at, step, io, listening, kept, left>>

-----------------------------------------------------------------------------
(* What the Ruby thread executes *)

(* A call back returns, and mutex_ is locked again. *)
Return(r, place, stop) ==
    /\ ruby = "running" /\ current = r
    /\ at' = [at EXCEPT ![r] = place]
    /\ ruby' = "woken" /\ current' = None
    /\ stop_flag' = (stop_flag \/ stop)
    /\ UNCHANGED <<queue, last_data, kind, io, listening, kept, left>>

(* The application's answer.  There is none if it has thrown, or has       *)
(* returned an empty array, which stops the server.                        *)
call_rack_application == {[answer |-> TRUE, stop |-> FALSE], [answer |-> FALSE, stop |-> FALSE],
                          [answer |-> FALSE, stop |-> TRUE]}

(* The answer is written to the client; without one the guard closes the   *)
(* connection.                                                             *)
call_application(r) ==
    /\ kind[r] = "app" /\ UNCHANGED step
    /\ \E result \in call_rack_application :
          Return(r, IF result.answer THEN "writing" ELSE "closed", result.stop)

(* Whatever the adapter's publish answers, the promise gets a value. *)
publish_impl(r) ==
    /\ kind[r] = "publish" /\ UNCHANGED step
    /\ Return(r, "answered", FALSE)

(* The adapter's yes leads to the next question, which is posted to the    *)
(* I/O queue; a no is the end.                                             *)
validate_node_impl(r) ==
    /\ kind[r] = "subscribe" /\ step[r] = "validate"
    /\ \/ /\ step' \in { [step EXCEPT ![r] = s] : s \in {"authorize", "init"} }
          /\ Return(r, "posted", FALSE)
       \/ UNCHANGED step /\ Return(r, "settled", FALSE)

(* A yes is the end, too, for a node that is initialized or being it. *)
authorize_impl(r) ==
    /\ kind[r] = "subscribe" /\ step[r] = "authorize"
    /\ \/ step' = [step EXCEPT ![r] = "init"] /\ Return(r, "posted", FALSE)
       \/ UNCHANGED step /\ Return(r, "settled", FALSE)

node_init_impl(r) ==
    /\ kind[r] = "subscribe" /\ step[r] = "init"
    /\ UNCHANGED step /\ Return(r, "settled", FALSE)

(* last_data.clear(): the destructors of the call backs of root answer no; *)
(* a response to a rack request is lost, its connection is not told and    *)
(* goes on reading; the promise of a publish is not in the call back.      *)
Discard ==
    /\ ruby = "leaving"
    /\ ruby' = "shutting" /\ last_data' = <<>>
    /\ at' = [r \in Requests |->
                IF r \notin ToSet(last_data) THEN at[r]
                ELSE IF kind[r] = "app" THEN "lost"
                ELSE IF kind[r] = "publish" THEN "dropped" ELSE "settled"]
    /\ UNCHANGED <<stop_flag, queue, current, kind, step, io, listening, kept, left>>

(* server_.shut_down() *)
ShutDown ==
    /\ ruby = "shutting"
    /\ ruby' = "joining" /\ listening' = FALSE
    /\ UNCHANGED <<stop_flag, queue, current, last_data, kind, at, step, io, kept, left>>

(* Both threads are joined, and run() returns. *)
Join ==
    /\ ruby = "joining" /\ io = "ended"
    /\ ruby' = "returned"
    /\ UNCHANGED <<stop_flag, queue, current, last_data, kind, at, step, io, listening, kept, left>>

-----------------------------------------------------------------------------
(* The I/O thread *)

handler_connect ==
    /\ io = "idle" /\ listening /\ ~kept
    /\ kept' = TRUE
    /\ UNCHANGED <<queueVars, rubyVars, kind, at, step, io, listening, left>>

(* The timeout of a connection without a request. *)
KeepAliveTimeout ==
    /\ io = "idle" /\ kept
    /\ kept' = FALSE
    /\ UNCHANGED <<queueVars, rubyVars, kind, at, step, io, listening, left>>

(* A request on the connection that is open: the action for its URI starts *)
(* a response.  When the actions are gone, it is "not found".              *)
Arrives(r, k) ==
    /\ io = "idle" /\ kept /\ at[r] = "none"
    /\ kept' = FALSE
    /\ kind' = [kind EXCEPT ![r] = k]

(* rack::response::start(), for a request with a body and without one. *)
start(r) ==
    /\ \/ at' = [at EXCEPT ![r] = "reading"] /\ UNCHANGED <<queue, ruby>>
       \/ push(r, "closed")
    /\ UNCHANGED io

(* The result of push() is not looked at, and the future is waited for. *)
publish(r) == push(r, "dropped") /\ io' = r

(* Root asks the adapter; if the call back is not stored, its destructor   *)
(* answers no.                                                             *)
validate_node(r) == push(r, "settled") /\ UNCHANGED io

create_response(r, k) ==
    /\ Arrives(r, k) /\ listening
    /\ \/ k = "app" /\ start(r)
       \/ k = "publish" /\ publish(r)
       \/ k = "subscribe" /\ validate_node(r)
    /\ UNCHANGED <<stop_flag, current, last_data, step, listening, left>>

not_found(r) ==
    /\ Arrives(r, "app") /\ ~listening
    /\ at' = [at EXCEPT ![r] = "writing"]
    /\ UNCHANGED <<queueVars, rubyVars, step, io, listening, left>>

(* The last piece of the body, which is empty, or an error. *)
body_read_handler(r) ==
    /\ io = "idle" /\ at[r] = "reading"
    /\ \/ push(r, "closed")
       \/ at' = [at EXCEPT ![r] = "closed"] /\ UNCHANGED <<queue, ruby>>
    /\ UNCHANGED <<stop_flag, current, last_data, kind, step, io, listening, kept, left>>

(* The last piece of the answer was written, and the connection is kept or *)
(* not, or there was an error and it is closed.                            *)
response_write_handler(r) ==
    /\ io = "idle" /\ at[r] = "writing"
    /\ \/ at' = [at EXCEPT ![r] = "completed"] /\ kept' \in {kept, TRUE}
       \/ at' = [at EXCEPT ![r] = "closed"] /\ UNCHANGED kept
    /\ UNCHANGED <<queueVars, rubyVars, kind, step, io, listening, left>>

(* adapter::authorize() or adapter::node_init(), from the I/O queue. *)
AskAdapter(r) ==
    /\ io = "idle" /\ at[r] = "posted"
    /\ push(r, "settled")
    /\ UNCHANGED <<stop_flag, current, last_data, kind, step, io, listening, kept, left>>

(* publish() has its result. *)
FutureReady(r) ==
    /\ io = r /\ at[r] = "answered"
    /\ at' = [at EXCEPT ![r] = "writing"] /\ io' = "idle"
    /\ UNCHANGED <<queueVars, rubyVars, kind, step, listening, kept, left>>

(* handle_read(): the client closes its connection while its request waits *)
(* for the Ruby thread, or after it was lost.                              *)
handle_read(r) ==
    /\ io = "idle" /\ kind[r] = "app" /\ at[r] \in {"queued", "lost"} /\ r \notin left
    /\ left' = left \cup {r}
    /\ UNCHANGED <<queueVars, rubyVars, kind, at, step, io, listening, kept>>

(* The read of a connection with a response that was lost is pending, and  *)
(* has no timeout.                                                         *)
Lingers(r) == at[r] = "lost" /\ r \notin left

(* io_service::run() returns when there is nothing left to wait for. *)
run_queue ==
    /\ io = "idle" /\ ~listening /\ ~kept
    /\ \A r \in Requests : at[r] \notin {"reading", "writing", "posted"} /\ ~Lingers(r)
    /\ io' = "ended"
    /\ UNCHANGED <<queueVars, rubyVars, kind, at, step, listening, kept, left>>

-----------------------------------------------------------------------------
Executes(r) ==
    \/ call_application(r) \/ publish_impl(r)
    \/ validate_node_impl(r) \/ authorize_impl(r) \/ node_init_impl(r)

Handles(r) == body_read_handler(r) \/ response_write_handler(r) \/ AskAdapter(r) \/ FutureReady(r)

Next ==
    \/ Loop \/ Interrupt \/ Discard \/ ShutDown \/ Join
    \/ handler_connect \/ KeepAliveTimeout \/ run_queue
    \/ \E r \in Requests : Executes(r) \/ Handles(r) \/ not_found(r) \/ handle_read(r)
    \/ \E r \in Requests, k \in Kinds : create_response(r, k)

Spec == Init /\ [][Next]_vars

(* The threads run, the application and the adapter return, and reads and  *)
(* writes end or time out.  No client has to connect, or to close its      *)
(* connection, and nobody has to interrupt the server.                     *)
Fairness ==
    /\ WF_vars(Loop) /\ WF_vars(Discard) /\ WF_vars(ShutDown) /\ WF_vars(Join)
    /\ WF_vars(run_queue) /\ SF_vars(KeepAliveTimeout)
    /\ \A r \in Requests : WF_vars(Executes(r)) /\ SF_vars(Handles(r))

FairSpec == Spec /\ Fairness

-----------------------------------------------------------------------------
TypeOK ==
    /\ stop_flag \in BOOLEAN /\ listening \in BOOLEAN /\ kept \in BOOLEAN
    /\ queue \in Seq(Requests) /\ last_data \in Seq(Requests)
    /\ ruby \in {"woken", "asleep", "running", "leaving", "shutting", "joining", "returned"}
    /\ current \in Requests \cup {None} /\ io \in Requests \cup {"idle", "ended"}
    /\ kind \in [Requests -> Kinds \cup {"none"}] /\ step \in [Requests -> Steps]
    /\ left \in SUBSET Requests
    /\ at \in [Requests -> {"none", "reading", "queued", "running", "posted", "answered", "writing",
                            "completed", "closed", "settled", "lost", "dropped"}]

Done(r) == at[r] \in {"completed", "closed", "settled"}

(* The I/O thread waits for a result that nobody will ever produce. *)
Abandoned == io \in Requests /\ at[io] = "dropped"

(* ruby_land_queue::push() and the end of process_request(): from the      *)
(* moment the Ruby thread has left its loop nothing waits for it in the    *)
(* queue, and when run() returns every request that was accepted has come  *)
(* to an end; only responses that were waiting for the application are     *)
(* lost, and their clients have gone.                                      *)
NothingLeftBehind ==
    /\ ruby \in {"leaving", "shutting", "joining", "returned"} => queue = <<>>
    /\ ruby = "returned" => \A r \in Requests : at[r] = "none" \/ Done(r) \/ (at[r] = "lost" /\ r \in left)

(* ruby_land_queue::wait(), push(): while the server is not stopped, every *)
(* request, whether it runs in the Ruby thread or blocks the I/O thread    *)
(* until it did, and every question of root is answered in the end.        *)
RequestAnswered == \A r \in Requests : (at[r] # "none") ~> (Done(r) \/ stop_flag)

(* rack_call_queue_stop(), process_request(), run(): when the server is    *)
(* stopped, by the application or by Ruby, the Ruby thread gets out of     *)
(* run(), whatever is going on then, with two exceptions.  The I/O thread  *)
(* is in publish() at that moment and was forgotten; or the client of a    *)
(* response that was lost keeps its connection open, which is read from    *)
(* without a timeout (connection.h, issue_read).                           *)
RunEnds == stop_flag ~> (ruby = "returned" \/ Abandoned \/ \E r \in Requests : Lingers(r))
=============================================================================
