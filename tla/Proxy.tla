-------------------------------- MODULE Proxy --------------------------------
(***************************************************************************)
(* proxy::response on top of the pool of connections: a request is passed  *)
(* to an origin server and its answer, header and body, to the client.     *)
(* Reading from the origin and writing to the client overlap.  A response  *)
(* is kept alive by the handlers it has given away; when there is none     *)
(* left it is destroyed.  Every response is the first one of its client's  *)
(* connection (module Connection has the order of several).                *)
(***************************************************************************)
EXTENDS ProxyConnector

CONSTANTS
    Answers,        \* what an origin may answer, for each of the responses
    MaxRestarts,    \* max_restarts_
    BufferSize,     \* sizeof the header's buffer
    Size, MaxSize   \* see TransferBuffer

ASSUME ProxyAssumption == MaxRestarts \in Nat /\ BufferSize \in Nat \ {0} /\ Size \in Nat \ {0}

H == INSTANCE HttpMessage
T == INSTANCE TransferBuffer

(* An answer: its characters, what the client is to get of them, the       *)
(* method of the request, and the places where a packet may end.           *)
VARIABLES
    resp,           \* the responses
    origin          \* for every connection, what the origin has still to send

vars == <<idle, connecting, in_use, call_back, attempts, timer, expired, posted, max_connections, resp, origin>>

(* reading and writing are what was asked of the origin and of the client: *)
(* <<>>, or the kind of the data, its place and its size.                  *)
NewResponse ==
    [pc |-> "new", socket |-> None, restarts |-> 0, requesting |-> FALSE, header |-> H!NewMessage("response"),
     reading |-> <<>>, writing |-> <<>>, exists |-> FALSE, buffer |-> T!NewBuffer,
     listed |-> FALSE, sending |-> FALSE, outcome |-> "none", answer |-> None, got |-> <<>>]

Init == InitPool /\ resp = [r \in Responses |-> NewResponse] /\ origin = [c \in Conns |-> <<>>]

Unlisted == {"connection", "keep-alive"}

(* http::filter: the names in a list like the value of "Connection". *)
filter(value) == { v[2] : v \in ToSet(value) }

(* filtered_header(): the connection headers, and those they name, are not *)
(* passed on.                                                              *)
filtered_header(m) ==
    LET named == IF H!HasHeader(m, "connection")
                 THEN filter(Head(H!find_header(m, "connection")).value) ELSE {}
    IN  H!filtered_request_text(m, Unlisted \cup named)

(* How long the body is, as transfer_buffer::start() finds out. *)
encoding(m) ==
    IF H!option_available(m, "transfer-encoding", "chunked") THEN "chunked"
    ELSE IF H!HasHeader(m, "content-length") /\ H!IsNumber(Head(H!find_header(m, "content-length")).value)
    THEN "length" ELSE "unsized"

content_length(m) ==
    IF encoding(m) = "length" THEN H!parse_number(Head(H!find_header(m, "content-length")).value) ELSE 0

(* The origins speak HTTP: an answer of which the header was understood    *)
(* has no more characters than the header announces and no chunk of a      *)
(* wrong form (the exception that is thrown for one leaves the handler),   *)
(* and what the client is to get is the filtered header and then all that  *)
(* follows.  k of the characters have been read when the header is         *)
(* complete.                                                               *)
Octets == UNION { ToSet(a.chars) \cup ToSet(a.forward) : a \in UNION { Answers[r] : r \in Responses } }

Announced(m, request_method, body) ==
    /\ ~H!body_expected(m, request_method) => body = <<>>
    /\ encoding(m) = "length" => content_length(m) \in Nat /\ Len(body) <= content_length(m)
    /\ encoding(m) = "chunked" =>
          \A n \in 0 .. Len(body) :
              LET t == T!start("chunked", 0, SubSeq(body, 1, n))
              IN  ~t.error /\ (t.state = "done" => n = Len(body))

WellFormed(a, k) ==
    LET m    == H!parse(H!NewMessage("response"), SubSeq(a.chars, 1, k))
        body == H!unparsed_buffer(m) \o SubSeq(a.chars, k + 1, Len(a.chars))
    IN  m.error = "ok" =>
          /\ Announced(m, a.method, body)
          /\ \E n \in 0 .. Len(a.forward) : /\ filtered_header(m) = SubSeq(a.forward, 1, n)
                                          /\ body = SubSeq(a.forward, n + 1, Len(a.forward))

ASSUME AnswersAssumption ==
    \A r \in Responses : \A a \in Answers[r] :
        /\ a.chars \in Seq(Octets) /\ a.forward \in Seq(Octets)
        /\ \A k \in 0 .. Len(a.chars) : k <= BufferSize => WellFormed(a, k)

-----------------------------------------------------------------------------
(* response_not_possible(): an error response takes the place of this one  *)
(* if nothing was sent, otherwise the connection is closed.  A response    *)
(* that is not in the list any more runs into the assertion.               *)
NotPossible(p, answer) ==
    IF ~p.listed THEN [p EXCEPT !.pc = "assertion"]
    ELSE [p EXCEPT !.listed = FALSE, !.outcome = IF answer /\ ~p.sending THEN "error" ELSE "closed"]

issue_read(p, kind, at, size) ==
    IF p.reading = <<>> /\ size # 0 THEN [p EXCEPT !.reading = <<kind, at, size>>] ELSE p

(* Writing for a response that is not listed is an error, too. *)
issue_write(p) ==
    LET data == T!read_buffer(p.buffer)
        at   == IF p.buffer.unparsed # <<>> THEN -1 ELSE p.buffer.start
    IN  IF p.writing = <<>> /\ data # <<>>
        THEN IF p.listed THEN [p EXCEPT !.writing = <<"body", at, Len(data)>>, !.sending = TRUE]
             ELSE [p EXCEPT !.pc = "assertion"]
        ELSE p

(* issue_read( write_buffer() ), issue_write( read_buffer() ) *)
Transfer(p) ==
    LET w == T!write_buffer(p.buffer)
    IN  issue_write(issue_read(p, "body", w[1], w[2]))

forward_header(p) ==
    [p EXCEPT !.writing = <<"header", 0, Len(filtered_header(p.header))>>, !.sending = TRUE]

(* No handler refers to the response. *)
Unreferenced(p) == ~p.requesting /\ p.reading = <<>> /\ p.writing = <<>>

(* The destructor: response_completed(), which has no effect on one that   *)
(* is not in the list.  What a client got whose connection was closed is   *)
(* forgotten.                                                              *)
Destroyed(p) ==
    [NewResponse EXCEPT !.pc = "gone", !.outcome = IF p.outcome = "none" THEN "completed" ELSE p.outcome,
                        !.answer = IF p.outcome = "closed" THEN None ELSE p.answer,
                        !.got    = IF p.outcome = "closed" THEN <<>> ELSE p.got]

(* The end of a handler: the response continues as p and gives its         *)
(* connection back to the pool if it was destroyed, or if all is done.     *)
Continue(r, p, done) ==
    LET destroyed == p.pc = "active" /\ Unreferenced(p)
        close     == H!option_available(p.header, "connection", "close")
    IN  /\ resp' = [resp EXCEPT ![r] = IF destroyed THEN Destroyed(p) ELSE IF done THEN [p EXCEPT !.socket = None] ELSE p]
        /\ IF p.socket # None /\ (destroyed \/ done)
           THEN /\ release_connection(p.socket, done /\ ~close)
                /\ origin' = IF done /\ ~close THEN origin ELSE [origin EXCEPT ![p.socket] = <<>>]
           ELSE UNCHANGED poolVars /\ UNCHANGED origin

-----------------------------------------------------------------------------
(* start(): an exception at the limit becomes an error response. *)
Start(r) ==
    /\ resp[r].pc = "new"
    /\ \/ /\ LimitReached
          /\ resp' = [resp EXCEPT ![r].pc = "gone", ![r].outcome = "error"]
          /\ UNCHANGED poolVars
       \/ /\ ~LimitReached
          /\ async_get_proxy_connection(r)
          /\ resp' = [resp EXCEPT ![r].pc = "active", ![r].listed = TRUE]
    /\ UNCHANGED origin

(* handle_orgin_connect(): without a connection the response ends. *)
handle_orgin_connect(r, c) ==
    resp' = [resp EXCEPT ![r] =
        IF c = None THEN Destroyed(NotPossible(@, TRUE)) ELSE [@ EXCEPT !.socket = c, !.requesting = TRUE]]

Connected(c) ==
    /\ \E error \in BOOLEAN :
          /\ connection_handler(c, error)
          /\ IF c \in connecting THEN handle_orgin_connect(call_back[c], IF error THEN None ELSE c) ELSE UNCHANGED resp
    /\ UNCHANGED origin

(* Mutant: the one that waits is not told. *)
ConnectTimeout_silent(c) == connect_timeout(c) /\ UNCHANGED <<resp, origin>>

ConnectTimeout(c) ==
    /\ connect_timeout(c)
    /\ IF c \in connecting THEN handle_orgin_connect(call_back[c], None) ELSE UNCHANGED resp
    /\ UNCHANGED origin

IdleTimeout(c) == connect_idle_timeout(c) /\ UNCHANGED <<resp, origin>>

TimerExpires(c) == timer_expires(c) /\ UNCHANGED <<resp, origin>>

connection_received(r, c) ==
    /\ <<r, c>> \in posted
    /\ posted' = posted \ {<<r, c>>}
    /\ handle_orgin_connect(r, c)
    /\ UNCHANGED <<idle, connecting, in_use, call_back, attempts, timer, expired, origin>>

(* restart(): a new connection as long as nothing was received, or the     *)
(* error goes to the client.  The old connection is dismissed; until the   *)
(* new one is asked for, other threads can have the pool.                  *)
restart(r, p) ==
    IF p.restarts + 1 > MaxRestarts THEN Continue(r, NotPossible([p EXCEPT !.restarts = @ + 1], TRUE), FALSE)
    ELSE /\ release_connection(p.socket, FALSE)
         /\ resp' = [resp EXCEPT ![r] = [p EXCEPT !.pc = "restarting", !.restarts = @ + 1, !.socket = None,
                                                 !.reading = <<>>, !.writing = <<>>]]
         /\ origin' = [origin EXCEPT ![p.socket] = <<>>]

(* The second half of it.  The exception at the limit leaves the handler,  *)
(* whose guard reports the error.                                          *)
Reconnect(r) ==
    /\ resp[r].pc = "restarting"
    /\ \/ /\ LimitReached
          /\ resp' = [resp EXCEPT ![r] = Destroyed(NotPossible(@, TRUE))]
          /\ UNCHANGED poolVars
       \/ /\ ~LimitReached
          /\ async_get_proxy_connection(r)
          /\ resp' = [resp EXCEPT ![r].pc = "active"]
    /\ UNCHANGED origin

(* request_written(); the origin has the request and will answer it. *)
RequestWritten(r) ==
    /\ resp[r].requesting
    /\ \E a \in Answers[r] :
          LET p == [resp[r] EXCEPT !.requesting = FALSE, !.answer = a]
          IN  /\ resp' = [resp EXCEPT ![r] = issue_read(p, "header", 0, H!read_buffer(p.header))]
              /\ origin' = [origin EXCEPT ![p.socket] = a.chars]
    /\ UNCHANGED poolVars

RequestWriteError(r) ==
    /\ resp[r].requesting
    /\ restart(r, [resp[r] EXCEPT !.requesting = FALSE])

(* handle_read_from_orgin() with data: disable_restart(), and then a part  *)
(* of the header or of the body.                                           *)
ReadHeader(p, data) ==
    LET m == H!parse(p.header, data)
        q == [p EXCEPT !.header = m]
    IN  IF m.error = "parsing" THEN issue_read(q, "header", 0, H!read_buffer(m))
        ELSE IF m.error = "ok"
        THEN LET f == [forward_header(q) EXCEPT !.exists = H!body_expected(m, p.answer.method)]
             IN  IF f.exists
                 THEN Transfer([f EXCEPT !.buffer = T!start(encoding(m), content_length(m), H!unparsed_buffer(m))])
                 ELSE f
        ELSE NotPossible(q, TRUE)

OriginRead(r) ==
    /\ resp[r].pc = "active"
    /\ resp[r].reading # <<>>
    /\ origin[resp[r].socket] # <<>>
    /\ \E n \in 1 .. Len(origin[resp[r].socket]) :
          LET c    == resp[r].socket
              left == Len(origin[c]) - n
              data == SubSeq(origin[c], 1, n)
              p    == [resp[r] EXCEPT !.reading = <<>>, !.restarts = MaxRestarts]
              q    == IF resp[r].reading[1] = "header" THEN ReadHeader(p, data)
                      ELSE Transfer([p EXCEPT !.buffer = T!data_written(@, resp[r].reading[2], data)])
              destroyed == q.pc = "active" /\ Unreferenced(q)
          IN  /\ n <= resp[r].reading[3] /\ left \in resp[r].answer.cuts
              /\ origin' = [origin EXCEPT ![c] = IF destroyed THEN <<>> ELSE SubSeq(@, n + 1, Len(@))]
              /\ resp' = [resp EXCEPT ![r] = IF destroyed THEN Destroyed(q) ELSE q]
              /\ IF destroyed THEN release_connection(c, FALSE) ELSE UNCHANGED poolVars

(* handle_read_from_orgin() with an error: the origin has closed the       *)
(* connection, or the read has timed out.                                  *)
OriginReadError(r) ==
    /\ resp[r].pc = "active"
    /\ resp[r].reading # <<>>
    /\ restart(r, [resp[r] EXCEPT !.reading = <<>>])

(* What the client has got with data, as long as its connection is open.   *)
Sent(p, data) == [p EXCEPT !.writing = <<>>, !.got = IF p.listed THEN @ \o data ELSE @]

(* response_header_written(); it may have waited in the queue while the    *)
(* client's connection was closed.                                         *)
HeaderWritten(r) ==
    /\ resp[r].pc = "active"
    /\ resp[r].writing # <<>> /\ resp[r].writing[1] = "header"
    /\ LET p == Sent(resp[r], filtered_header(resp[r].header))
       IN  Continue(r, IF p.exists THEN Transfer(p) ELSE p, ~p.exists)

(* handle_body_written(): what was written is what the buffer holds. *)
BodyWritten(r) ==
    /\ resp[r].pc = "active"
    /\ resp[r].writing # <<>> /\ resp[r].writing[1] = "body"
    /\ \E n \in 1 .. resp[r].writing[3] :
          LET at   == resp[r].writing[2]
              b    == resp[r].buffer
              data == [i \in 1 .. n |-> IF at < 0 THEN b.unparsed[i] ELSE b.buffer[at + i - 1]]
              p    == [Sent(resp[r], data) EXCEPT !.buffer = T!data_read(b, n)]
              done == T!transmission_done(p.buffer)
          IN  Continue(r, IF done THEN p ELSE Transfer(p), done)

(* Both of them with an error, which is sure to come when the client's     *)
(* connection was closed.                                                  *)
ClientWriteError(r) ==
    /\ resp[r].pc = "active"
    /\ resp[r].writing # <<>>
    /\ Continue(r, NotPossible([resp[r] EXCEPT !.writing = <<>>], FALSE), FALSE)

(* A failed assertion ends the program; without assertions the behaviour  *)
(* is undefined from here on.                                              *)
Aborted == \E r \in Responses : resp[r].pc = "assertion"

Running == ~Aborted /\ UNCHANGED max_connections

Next ==
    /\ Running
    /\ \/ \E c \in Conns : Connected(c) \/ ConnectTimeout(c) \/ IdleTimeout(c) \/ TimerExpires(c)
       \/ \E r \in Responses :
             \/ Start(r) \/ Reconnect(r) \/ RequestWritten(r) \/ OriginRead(r) \/ HeaderWritten(r) \/ BodyWritten(r)
             \/ RequestWriteError(r) \/ OriginReadError(r) \/ ClientWriteError(r)
             \/ \E c \in Conns : connection_received(r, c)

(* No asynchronous operation is pending for ever: connecting, writing to   *)
(* and reading from the origin and writing to the client time out          *)
(* (connector.h:221, timeout.h:176) if they do not end before; a thread    *)
(* that runs restart() goes on.                                            *)
Fairness ==
    /\ \A c \in Conns : /\ WF_vars(Running /\ TimerExpires(c)) /\ WF_vars(Running /\ ConnectTimeout(c))
                         /\ WF_vars(Running /\ IdleTimeout(c))
    /\ \A r \in Responses :
          /\ WF_vars(Running /\ (RequestWriteError(r) \/ OriginReadError(r) \/ ClientWriteError(r)))
          /\ WF_vars(Running /\ \E c \in Conns : connection_received(r, c)) /\ WF_vars(Running /\ Reconnect(r))

Spec == Init /\ [][Next]_vars /\ Fairness

-----------------------------------------------------------------------------
(* Properties *)

(* Every connection that is in use, which counts for the limit, is held by *)
(* exactly one response or by the call that will give it to one, and       *)
(* nobody holds one that is in another list (assert at connector.h:184).   *)
SocketsHeld ==
    \A c \in Conns :
        LET holders == { r \in Responses : resp[r].socket = c } \cup { x[1] : x \in { y \in posted : y[2] = c } }
        IN  Cardinality(holders) = IF c \in in_use THEN 1 ELSE 0

(* A connection that is kept for the next request has nothing left of the  *)
(* answer to the last one, which that request would take for its answer    *)
(* (response.h:352, transfer_buffer.h:216).                                *)
IdleAtBoundary == \A i \in DOMAIN idle : origin[idle[i]] = <<>>

(* What a client gets is the beginning of what the origin answered, the    *)
(* characters in order and none of them twice, however reads and writes    *)
(* overlap; all of it, unless its connection is closed or, before the      *)
(* first character, an error response is sent.                             *)
WholeOrClosed ==
    \A r \in Responses : resp[r].answer # None =>
        /\ IsPrefix(resp[r].got, resp[r].answer.forward)
        /\ resp[r].outcome = "completed" => resp[r].got = resp[r].answer.forward
        /\ resp[r].outcome = "error" => resp[r].got = <<>>

(* In every run in which no assertion fails, every response ends, so that  *)
(* its client and those who wait for a connection can go on.  The          *)
(* assertion at connection.h:471 does fail when the origin's connection    *)
(* breaks while a write to the client is pending, or the client's while a  *)
(* read is; about those runs nothing is said.                              *)
ResponseEnds == []~Aborted => \A r \in Responses : resp[r].pc = "active" ~> resp[r].pc = "gone"
=============================================================================
