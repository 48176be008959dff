----------------------------- MODULE Connection -----------------------------
(***************************************************************************)
(* server::connection: the pipelined requests of one HTTP connection.      *)
(* Responses are written in the order of their requests; a response that   *)
(* is ready too early blocks its write and hurries those in front of it.   *)
(* The class has no lock: its handlers are taken to run one at a time.     *)
(* The loop of handle_read() is several steps, between which no other      *)
(* handler runs (Quiet).  A response is known by the number of its         *)
(* request, and so is the error response that replaces it.                 *)
(***************************************************************************)
EXTENDS Naturals, Sequences, FiniteSets

CONSTANTS
    MaxRequests,    \* bound: requests of the client
    MaxWrites       \* bound: writes of a response

ASSUME ConnectionAssumption == MaxRequests \in Nat \ {0} /\ MaxWrites \in Nat \ {0}

VARIABLES
    made,           \* 0 .. MaxRequests, requests received
    responses,      \* Seq(Requests), responses_
    phase,          \* [Requests -> Phases]
    writes,         \* [Requests -> 0 .. MaxWrites], writes the response began
    errors,         \* SUBSET Requests, answered by an error_response
    hurried,        \* SUBSET Requests, hurry() was called
    sending,        \* BOOLEAN, current_response_is_sending_
    wire,           \* Seq(Requests), whose data was sent, repetitions left out
    open,           \* BOOLEAN, the socket is open
    shutdown_read,  \* BOOLEAN, shutdown_read_
    read,           \* {"none", "pending", "parsing", "parsed"}
    header,         \* BOOLEAN, part of the next header was read
    body,           \* Requests or 0, whose body is read, body_read_call_back_
    no_read_timeout_set,  \* BOOLEAN
    close_after_response, \* BOOLEAN
    read_timer,     \* {"off", "read", "keep"}, closes the socket, the connection
    write_timer,    \* BOOLEAN
    late            \* SUBSET {"read", "keep", "write"}, expired, the handler is queued

pipeVars == <<made, responses, phase, writes, errors, hurried, sending, wire>>
readVars == <<read, header, body, no_read_timeout_set, close_after_response>>
socketVars == <<open, shutdown_read>>
timerVars == <<read_timer, write_timer, late>>
vars == <<pipeVars, readVars, socketVars, timerVars>>

Requests == 1 .. MaxRequests

(* written: a write was completed, and the response is not. *)
Phases == {"none", "started", "blocked", "writing", "written", "gone"}

(* start(): the first read has the timeout of a read. *)
Init ==
    /\ made = 0 /\ responses = <<>>
    /\ phase = [i \in Requests |-> "none"]
    /\ writes = [i \in Requests |-> 0]
    /\ errors = {} /\ hurried = {} /\ sending = FALSE /\ wire = <<>>
    /\ open = TRUE /\ shutdown_read = FALSE
    /\ read = "pending" /\ header = FALSE /\ body = 0
    /\ no_read_timeout_set = FALSE /\ close_after_response = FALSE
    /\ read_timer = "read" /\ write_timer = FALSE /\ late = {}

(* No handler is in the middle of handle_read(). *)
Quiet == read \in {"none", "pending"}

IsLast(i) == responses # <<>> /\ responses[Len(responses)] = i

Sent(i) == IF ~open \/ (wire # <<>> /\ wire[Len(wire)] = i) THEN wire ELSE Append(wire, i)

-----------------------------------------------------------------------------
(* Writing *)

(* Mutant: only the response that is sending is hurried. *)
hurry_writers_front(rs, i) == hurried \cup {rs[1]}

(* The responses rs in front of i are hurried. *)
hurry_writers(rs, i) ==
    hurried \cup {rs[k] : k \in {k \in 1 .. Len(rs) : \E l \in k + 1 .. Len(rs) : rs[l] = i}}

(* Mutant: nobody is blocked. *)
Write_at_once(rs, i, phases) ==
    /\ phase' = [phases EXCEPT ![i] = "writing"]
    /\ wire' = Sent(i) /\ sending' = TRUE /\ write_timer' = TRUE
    /\ UNCHANGED hurried

(* async_write() and async_write_some() with responses_ = rs. *)
Write(rs, i, phases) ==
    IF rs[1] = i
      THEN /\ phase' = [phases EXCEPT ![i] = "writing"]
           /\ wire' = Sent(i) /\ sending' = TRUE /\ write_timer' = TRUE
           /\ UNCHANGED hurried
      ELSE /\ phase' = [phases EXCEPT ![i] = "blocked"]
           /\ hurried' = hurry_writers(rs, i)
           /\ UNCHANGED <<wire, sending, write_timer>>

(* A response reads all of its request before it writes, and waits for one *)
(* write to end before the next.                                           *)
async_write(i) ==
    /\ phase[i] \in {"started", "written"} /\ body # i
    /\ writes[i] < MaxWrites
    /\ writes' = [writes EXCEPT ![i] = @ + 1]
    /\ Write(responses, i, phase)
    /\ UNCHANGED <<made, responses, errors, readVars, socketVars, read_timer, late>>

-----------------------------------------------------------------------------
(* The end of a response *)

shutdown_close == open' = FALSE /\ shutdown_read' = TRUE

(* What the response object kept is gone with it. *)
Forget(i) ==
    /\ writes' = [writes EXCEPT ![i] = 0]
    /\ errors' = errors \ {i}
    /\ hurried' = hurried \ {i}

(* The write that the next response blocked is issued, without a timeout.  *)
Unblocked(rs) ==
    IF rs # <<>> /\ phase[rs[1]] = "blocked"
      THEN /\ phase' = [phase EXCEPT ![responses[1]] = "gone", ![rs[1]] = "writing"]
           /\ wire' = Sent(rs[1])
      ELSE /\ phase' = [phase EXCEPT ![responses[1]] = "gone"]
           /\ UNCHANGED wire

(* Only the first response has a write that ends, so that it is the sender.*)
response_completed ==
    LET rs == Tail(responses)
        idle == rs = <<>> /\ no_read_timeout_set /\ ~shutdown_read
    IN  /\ responses' = rs
        /\ sending' = FALSE
        /\ Unblocked(rs)
        /\ IF idle /\ close_after_response
             THEN shutdown_close ELSE UNCHANGED socketVars
        /\ read_timer' = IF idle /\ ~close_after_response THEN "keep" ELSE read_timer
        /\ Forget(responses[1])
        /\ UNCHANGED body

(* The sender i, which has no blocked write, is replaced by an error       *)
(* response, or the connection is closed.                                  *)
response_not_possible_impl(i, replaced, timer) ==
    /\ body' = IF IsLast(i) THEN 0 ELSE body
    /\ IF replaced
         THEN /\ errors' = errors \cup {i}
              /\ Write(responses, i, phase)
              /\ UNCHANGED <<responses, writes, socketVars>>
         ELSE /\ responses' = SelectSeq(responses, LAMBDA k : k # i)
              /\ phase' = [phase EXCEPT ![i] = "gone"]
              /\ shutdown_close
              /\ write_timer' = timer
              /\ Forget(i)
              /\ UNCHANGED <<sending, wire>>

(* With an error code.  An error response is possible when nothing was     *)
(* sent; a response that reads its body only closes.                       *)
response_not_possible(i) ==
    /\ phase[i] \in {"started", "written"}
    /\ Quiet \/ IsLast(i)
    /\ \E replaced \in BOOLEAN :
         /\ replaced => body # i /\ (responses[1] # i \/ ~sending)
         /\ response_not_possible_impl(i, replaced, write_timer)
    /\ UNCHANGED <<made, read, header, no_read_timeout_set, close_after_response, read_timer,
                   late>>

(* The handler of a write: the response is completed or goes on; after an  *)
(* error it is not possible.  error_response does not look at the error.   *)
write_ended(i) ==
    /\ phase[i] = "writing" /\ Quiet
    /\ \/ /\ response_completed
          /\ write_timer' = FALSE
       \/ /\ i \notin errors /\ writes[i] < MaxWrites
          /\ phase' = [phase EXCEPT ![i] = "written"]
          /\ write_timer' = FALSE
          /\ UNCHANGED <<responses, writes, errors, hurried, sending, wire, body, socketVars,
                         read_timer>>
       \/ /\ i \notin errors
          /\ response_not_possible_impl(i, FALSE, FALSE)
          /\ UNCHANGED read_timer
    /\ UNCHANGED <<made, read, header, no_read_timeout_set, close_after_response, late>>

-----------------------------------------------------------------------------
(* Reading *)

(* The read ends, with data if data is TRUE, and cancels its timer.  A     *)
(* response whose body cannot be read gives up, or has all it needs.       *)
handle_read ==
    /\ read = "pending"
    /\ no_read_timeout_set' = FALSE
    /\ read_timer' = "off"
    /\ \/ /\ open
          /\ read' = "parsing"
          /\ UNCHANGED <<pipeVars, body, socketVars, write_timer>>
       \/ /\ read' = "none"
          /\ \/ body # 0 /\ response_not_possible_impl(body, FALSE, write_timer)
             \/ body' = 0 /\ UNCHANGED <<responses, phase, writes, errors, hurried,
                                         sending, wire, socketVars, write_timer>>
          /\ UNCHANGED made
    /\ UNCHANGED <<header, close_after_response, late>>

(* The last part of the body was read. *)
body_read ==
    /\ read \in {"parsing", "parsed"} /\ body # 0
    /\ read' = "parsed" /\ body' = 0 /\ header' = FALSE
    /\ UNCHANGED <<pipeVars, no_read_timeout_set, close_after_response, socketVars, timerVars>>

(* A header is complete: its response is made and started.  After a bad    *)
(* header nothing more is read.                                            *)
handle_request_header ==
    /\ read \in {"parsing", "parsed"} /\ body = 0 /\ made < MaxRequests
    /\ LET i == made + 1 IN
         /\ made' = i
         /\ responses' = Append(responses, i)
         /\ phase' = [phase EXCEPT ![i] = "started"]
         /\ close_after_response' \in BOOLEAN
         /\ body' \in {0, i}
         /\ header' = FALSE
         /\ read' \in IF body' = 0 THEN {"parsed", "none"} ELSE {"parsed"}
    /\ UNCHANGED <<writes, errors, hurried, sending, wire, no_read_timeout_set, socketVars,
                   timerVars>>

(* start() throws: its response is replaced, and nothing more is read. *)
start_throws ==
    /\ read \in {"parsing", "parsed"} /\ body = 0 /\ made < MaxRequests
    /\ LET i == made + 1
           rs == Append(responses, i)
       IN  /\ made' = i /\ close_after_response' \in BOOLEAN
           /\ \/ responses' = rs /\ errors' = errors \cup {i} /\ Write(rs, i, phase)
              \/ UNCHANGED <<responses, errors, phase, wire, sending, write_timer, hurried>>
    /\ shutdown_read' = TRUE
    /\ read' = "none" /\ header' = FALSE
    /\ UNCHANGED <<writes, body, no_read_timeout_set, open, read_timer, late>>

(* Mutant: the read without a timeout is not noted. *)
issue_read_unnoted ==
    /\ read \in {"parsing", "parsed"}
    /\ header' \in IF body # 0 THEN {header}
                   ELSE IF read = "parsing" THEN {TRUE} ELSE BOOLEAN
    /\ read' = "pending"
    /\ LET timed == header' \/ body # 0 \/ responses = <<>>
       IN  read_timer' = IF timed THEN "read" ELSE read_timer
    /\ UNCHANGED <<pipeVars, body, close_after_response, no_read_timeout_set, socketVars,
                   write_timer, late>>

(* All data is consumed, with part of a header (header) or not; the next   *)
(* read has a timeout, unless the client may wait for a response.          *)
issue_read ==
    /\ read \in {"parsing", "parsed"}
    /\ header' \in IF body # 0 THEN {header}
                   ELSE IF read = "parsing" THEN {TRUE} ELSE BOOLEAN
    /\ read' = "pending"
    /\ LET timed == header' \/ body # 0 \/ responses = <<>>
       IN  /\ read_timer' = IF timed THEN "read" ELSE read_timer
           /\ no_read_timeout_set' = ~timed
    /\ UNCHANGED <<pipeVars, body, close_after_response, socketVars, write_timer, late>>

-----------------------------------------------------------------------------
(* Timers *)

expire ==
    /\ \/ /\ read_timer # "off"
          /\ read_timer' = "off" /\ late' = late \cup {read_timer}
          /\ UNCHANGED write_timer
       \/ /\ write_timer
          /\ write_timer' = FALSE /\ late' = late \cup {"write"}
          /\ UNCHANGED read_timer
    /\ UNCHANGED <<pipeVars, readVars, socketVars>>

(* A read or a write lasted too long: the socket is closed. *)
time_out(kind) ==
    /\ Quiet /\ kind \in late
    /\ late' = late \ {kind}
    /\ open' = FALSE
    /\ UNCHANGED <<pipeVars, readVars, shutdown_read, read_timer, write_timer>>

handle_keep_alive_timeout ==
    /\ Quiet /\ "keep" \in late
    /\ late' = late \ {"keep"}
    /\ shutdown_close
    /\ UNCHANGED <<pipeVars, readVars, read_timer, write_timer>>

-----------------------------------------------------------------------------
Read == handle_read \/ body_read \/ handle_request_header \/ start_throws \/ issue_read

TimeOut == expire \/ time_out("read") \/ time_out("write") \/ handle_keep_alive_timeout

Next ==
    \/ Read \/ TimeOut
    \/ \E i \in Requests : async_write(i) \/ response_not_possible(i) \/ write_ended(i)

Spec == Init /\ [][Next]_vars

(* Whoever is hurried answers, and goes on once it began; handle_read()    *)
(* returns; the queue runs the handlers of writes that end in order.       *)
FairSpec ==
    /\ Spec
    /\ WF_vars(issue_read)
    /\ \A i \in Requests :
         /\ WF_vars((i \in hurried \/ phase[i] = "written") /\ async_write(i))
         /\ SF_vars(write_ended(i))

-----------------------------------------------------------------------------
(* Properties *)

(* No response is in the list twice; the rest are types. *)
TypeOK ==
    /\ made \in 0 .. MaxRequests
    /\ responses \in Seq(Requests)
    /\ \A k, l \in 1 .. Len(responses) : responses[k] = responses[l] => k = l
    /\ phase \in [Requests -> Phases]
    /\ writes \in [Requests -> 0 .. MaxWrites]
    /\ errors \in SUBSET Requests /\ hurried \in SUBSET Requests
    /\ sending \in BOOLEAN /\ wire \in Seq(Requests)
    /\ open \in BOOLEAN /\ shutdown_read \in BOOLEAN
    /\ read \in {"none", "pending", "parsing", "parsed"}
    /\ header \in BOOLEAN /\ body \in 0 .. MaxRequests
    /\ no_read_timeout_set \in BOOLEAN /\ close_after_response \in BOOLEAN
    /\ read_timer \in {"off", "read", "keep"} /\ write_timer \in BOOLEAN
    /\ late \in SUBSET {"read", "keep", "write"}

(* The client gets the responses in the order of its requests, none is     *)
(* left out and none is mixed with another, although they are ready, fail, *)
(* are replaced by errors or time out in any order.                        *)
InOrder == \A k \in 1 .. Len(wire) : wire[k] = k

(* The response whose turn it is never keeps its write blocked.            *)
FrontNotBlocked == open /\ responses # <<>> => phase[responses[1]] # "blocked"

(* connection.h: a connection is idle when no response is pending and a    *)
(* new header is read.  An idle connection has a timer that will close it, *)
(* and was not asked to close after the last response.                     *)
IdleEnds ==
    open /\ responses = <<>> /\ read = "pending" =>
        /\ read_timer # "off" \/ late # {}
        /\ header \/ ~close_after_response

(* hurry() reaches everyone it has to: a response that is ready is sent,   *)
(* although those in front of it answer only when they are hurried.        *)
BlockedServed == \A i \in Requests : (phase[i] = "blocked") ~> (phase[i] # "blocked" \/ ~open)
=============================================================================
