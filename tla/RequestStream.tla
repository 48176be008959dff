---------------------------- MODULE RequestStream ----------------------------
(***************************************************************************)
(* The reading half of server::connection with the request header, the     *)
(* body decoder and the JSON parser of the response it feeds: a stream of  *)
(* requests arrives in pieces of any size.  What the responses do with the *)
(* bodies is the subject of BayeuxConnector and PubsubHttp, how they are   *)
(* written that of Connection.                                             *)
(***************************************************************************)
EXTENDS BodyDecoder
LOCAL INSTANCE SequencesExt
LOCAL INSTANCE FiniteSetsExt

P == INSTANCE JsonParser
F == INSTANCE FormEncoding

CONSTANTS
    Streams,        \* the sequences of requests that a client may send
    Handlers,       \* the responses: "bayeux", or "json" for json_handler
    BodyBufferSize  \* what is read of a body at once

(* A request: its characters, its start line, the encoding of its body     *)
(* ("none", "length", "chunked"), whether its header is correct, the text  *)
(* of the body, the value it stands for (<<>> for none), whether something *)
(* follows this value, whether it is a form, and whether the client wants  *)
(* the connection to be closed.                                            *)
VARIABLES
    handler,
    sent,           \* the requests of the client
    stream,         \* the characters that have not arrived
    con             \* the connection, with the body's parser

vars == <<handler, sent, stream, con>>

(* entries has one element for every response that was started: its state, *)
(* the start line of its request and whether close_after_response_ is set. *)
NewConnection ==
    [request |-> NewMessage("request"), decoder |-> NewDecoder, reading |-> FALSE,
     parser |-> P!NewParser, parsed |-> FALSE, form_encoded |-> FALSE, form_body |-> <<>>, posted |-> 0, entries |-> <<>>, status |-> "open"]

Entry(c, state) == [line |-> c.request.line, close |-> close_after_response(c.request), state |-> state]
Started(c, state) == [c EXCEPT !.entries = Append(@, Entry(c, state))]
Settled(c, i, state) == [c EXCEPT !.entries[i].state = state]

(* close_connection_guard: response_not_possible() closes the connection   *)
(* and clears the call back.                                               *)
Refused(c, i, status) ==
    [Settled(c, i, <<"refused">>) EXCEPT !.reading = FALSE, !.status = status]

(* The last piece of a body: handle_requests() or build_response(). *)
Handled(c, i, p) ==
    LET f == P!flush(p)
    IN  IF f.error THEN Refused(c, i, "thrown")
        ELSE Settled(c, i, <<"value", P!result(f)>>)

(* async_read_body(): a body of no size is answered by a posted call. *)
async_read_body(c) ==
    LET d == start(c.decoder, c.request)
        e == [Started(c, <<"reading">>) EXCEPT !.decoder = d, !.form_body = <<>>,
                  !.form_encoded = handler = "bayeux" /\ option_available(c.request, "content-type", "form")]
    IN  IF done(d) THEN [e EXCEPT !.posted = Len(e.entries)]
        ELSE [e EXCEPT !.reading = TRUE, !.parser = P!NewParser, !.parsed = FALSE]

(* handle_form_requests(): every part that is named message (m here) is    *)
(* parsed.  The text was decoded before it is split into its parts; what   *)
(* the result is if there is an exception is up to the caller.             *)
MessageParts(parts) == IF parts = <<>> THEN <<>> ELSE SelectSeq(parts[1], LAMBDA nv : nv[1] = <<"m">>)

FormResult(parsed) ==
    IF parsed = <<>> \/ \E k \in DOMAIN parsed : parsed[k].error THEN <<"error">>
    ELSE <<"form", [k \in DOMAIN parsed |-> P!result(parsed[k])]>>

handle_form_requests(decoded) ==
    LET messages == MessageParts(IF decoded = <<>> THEN <<>> ELSE F!split_query(decoded[1]))
    IN  FormResult([k \in DOMAIN messages |-> P!parse_all(messages[k][2])])

(* handle_request_header(): create_response() and start().  Without a body *)
(* a Bayeux response takes its messages from the query; an exception ends  *)
(* the reading, as a header that is not correct does.                      *)
handle_request_header(c) ==
    LET messages == handle_form_requests(F!url_decode(query(c.request)))
    IN  CASE c.request.error # "ok" -> [Started(c, <<"error">>) EXCEPT !.status = "stopped"]
          [] c.request.error = "ok" /\ body_expected(c.request, method(c.request)) -> async_read_body(c)
          [] c.request.error = "ok" /\ ~body_expected(c.request, method(c.request)) /\ handler = "bayeux" ->
               [Started(c, messages) EXCEPT !.status = IF messages = <<"error">> THEN "stopped" ELSE @]
          [] OTHER -> Started(c, <<"value", P!Null>>)

(* What the characters of a body are to the JSON parser. *)
TextOf(data) == [i \in DOMAIN data |->
    IF data[i][1] = "c" THEN data[i][2] ELSE IF data[i] \in {CR, LF, SP} THEN " " ELSE "s"]

(* body_read_handler() with a part of the body. *)
BodyPiece(c, data) ==
    LET p == P!parse(c.parser, TextOf(data))
        n == Len(c.entries)
    IN  IF c.form_encoded THEN [c EXCEPT !.form_body = @ \o TextOf(data)]
        ELSE IF handler = "bayeux" /\ c.parsed THEN Refused(c, n, "closed")
        ELSE IF p.error THEN Refused([c EXCEPT !.parser = p], n, "thrown")
        ELSE [c EXCEPT !.parser = p, !.parsed = P!Complete(p)]

(* body_read_handler() with nothing: the end of the body. *)
BodyEnd(c, parser, parsed, i) ==
    IF c.form_encoded
    THEN LET messages == handle_form_requests(F!form_decode(c.form_body))
         IN  IF messages = <<"error">> THEN Refused(c, i, "thrown") ELSE Settled(c, i, messages)
    ELSE IF handler = "bayeux" /\ ~parsed THEN Refused(c, i, "closed")
    ELSE Handled(c, i, parser)

(* The end of the body is reported, and the next header expected. *)
BodyDone(c) ==
    LET next == [c EXCEPT !.request = NewMessage("request"), !.reading = FALSE]
    IN  CASE c.status = "thrown" \/ ~done(c.decoder) -> c
          [] c.status # "thrown" /\ done(c.decoder) /\ c.reading ->
               BodyEnd(next, c.parser, c.parsed, Len(c.entries))
          [] OTHER -> next

(* What feed_buffer() decoded goes to the response. *)
BodyRead(c, decoder) ==
    IF decoder.error THEN [c EXCEPT !.status = "thrown"]
    ELSE BodyDone(IF decoder.current = <<>> THEN c ELSE BodyPiece(c, decoder.current))

HeaderRead(c) ==
    IF c.status = "stopped" \/ c.reading THEN c ELSE [c EXCEPT !.request = NewMessage("request")]

(* handle_read() with characters: they are a body as long as a response    *)
(* has asked for one, and a header otherwise.  A call back that is cleared *)
(* in the middle of a body makes the next round parse a header that is     *)
(* complete, which ends with the assertion in message_base::parse().       *)
RECURSIVE handle_read(_, _)
handle_read(c, data) ==
    IF data = <<>> \/ c.status \in {"stopped", "thrown", "assertion"} THEN c
    ELSE IF c.reading
    THEN LET f == feed_buffer(c.decoder, data)
         IN  handle_read(BodyRead([c EXCEPT !.decoder = Decoded(f.decoder)], f.decoder),
                         SubSeq(data, f.taken + 1, Len(data)))
    ELSE IF c.request.error # "parsing" THEN [c EXCEPT !.status = "assertion"]
    ELSE LET got == [c EXCEPT !.request = parse(c.request, data)]
         IN  IF got.request.error = "parsing" THEN got
             ELSE handle_read(HeaderRead(handle_request_header(got)), unparsed_buffer(got.request))

-----------------------------------------------------------------------------
Init ==
    /\ handler \in Handlers
    /\ sent \in Streams
    /\ stream = FlattenSeq([i \in DOMAIN sent |-> sent[i].chars])
    /\ con = NewConnection

(* issue_read(): the room in the buffer of the header or of the body. *)
Room == IF con.reading THEN BodyBufferSize ELSE read_buffer(con.request)

Receive ==
    /\ con.status = "open"
    /\ stream # <<>>
    /\ \E n \in 1 .. Min({Room, Len(stream)}) :
          /\ con' = handle_read(con, SubSeq(stream, 1, n))
          /\ stream' = SubSeq(stream, n + 1, Len(stream))
    /\ UNCHANGED <<handler, sent>>

(* The call that async_read_body() posted. *)
Posted ==
    /\ con.posted # 0
    /\ con' = BodyEnd([con EXCEPT !.posted = 0], P!NewParser, FALSE, con.posted)
    /\ UNCHANGED <<handler, sent, stream>>

(* handle_read() with the end of the stream.  A Bayeux response takes it   *)
(* for the end of the body.                                                *)
Disconnect ==
    /\ con.status = "open"
    /\ con' = IF ~con.reading THEN [con EXCEPT !.status = "ended"]
              ELSE LET n == Len(con.entries)
                       e == IF handler = "bayeux" THEN BodyEnd(con, con.parser, con.parsed, n)
                            ELSE Refused(con, n, "closed")
                   IN  [e EXCEPT !.reading = FALSE, !.status = IF @ = "open" THEN "ended" ELSE @]
    /\ UNCHANGED <<handler, sent, stream>>

Next == Receive \/ Posted \/ Disconnect

Spec == Init /\ [][Next]_vars

-----------------------------------------------------------------------------
(* Properties *)

(* body_decoder::start() keeps the state of a chunked body, so that the    *)
(* next body of the connection is not read; requests before it are framed  *)
(* correctly.                                                              *)
Framed(i) ==
    ~ \E j, k \in 1 .. i : j < k /\ sent[j].encoding = "chunked" /\ sent[k].encoding # "none"

(* Only a Bayeux response understands a form, and only that a query. *)
Meant(r) ==
    CASE r.encoding = "none" /\ handler # "bayeux" -> <<P!Null>>
      [] r.encoding # "none" /\ r.form /\ handler # "bayeux" -> <<>>
      [] OTHER -> r.value

(* A Bayeux response refuses a body when something arrives after the value *)
(* in a piece of its own, and a number, the end of which it cannot see.    *)
MayRefuse(r) ==
    Meant(r) = <<>> \/ (handler = "bayeux" /\ (r.rest \/ r.value[1][1] = "number"))

(* However the stream is cut into pieces, and unless it ends in the middle *)
(* of a form, which is then taken for complete, the n-th response gets the *)
(* n-th request and the value that this request's body stands for          *)
(* (connection.h:626, message.cpp:96, chunk_decoder.h:74).                 *)
RequestsAsSent ==
    \A i \in DOMAIN con.entries : (i \in DOMAIN sent /\ Framed(i)) =>
        LET e == con.entries[i]
            r == sent[i]
        IN  IF e.state[1] = "error" THEN ~r.correct \/ Meant(r) = <<>>
            ELSE /\ r.correct /\ e.line = r.line /\ e.close = r.close
                 /\ e.state[1] = "value" => Meant(r) = <<e.state[2]>>
                 /\ e.state[1] = "form" => Meant(r) = e.state[2] \/ con.status = "ended"
                 /\ e.state[1] = "refused" => MayRefuse(r) \/ con.status # "open"

(* When everything has arrived, every request has been found and no body   *)
(* is waited for, so that nobody waits for characters that were received   *)
(* already.                                                                *)
NothingHeldBack ==
    (con.status = "open" /\ stream = <<>> /\ con.posted = 0 /\ Framed(Len(sent))) =>
        /\ Len(con.entries) = Len(sent)
        /\ ~con.reading
        /\ \A i \in DOMAIN con.entries : con.entries[i].state # <<"reading">>

(* The kinds of values that the pending states take from the results:      *)
(* those of the state at i, which is on top when it is the last one.       *)
Pending(s, i) ==
    CASE s[i][1] \in {"left_bracket", "array_value"} ->
           IF s[i][1] = "array_value" /\ i = Len(s) THEN <<"array", "any">> ELSE <<"array">>
      [] s[i][1] = "left_brace"   -> <<"object">>
      [] s[i][1] = "member_name"  -> IF i = Len(s) THEN <<"object", "string">> ELSE <<"object">>
      [] s[i][1] = "member_value" -> IF i = Len(s) THEN <<"object", "string", "any">> ELSE <<"object", "string">>
      [] OTHER                    -> <<>>

(* Wherever a text is cut, the parser's results are exactly those that its *)
(* pending states will take, each of the type that the unchecked casts in  *)
(* parse_array() and parse_object() assume (json.cpp:1517, 1585-1588).     *)
StackShape ==
    LET p    == con.parser
        need == IF p.state = <<>> THEN <<"any">> ELSE FlattenSeq([i \in DOMAIN p.state |-> Pending(p.state, i)])
    IN  p.error \/ /\ Len(p.result) = Len(need)
                   /\ \A i \in DOMAIN need : need[i] \in {"any", p.result[i][1]}

(* A value that was parsed is printed as a text of the size it announces   *)
(* (the Content-Length of an answer), which stands for the same value.     *)
Reparses ==
    P!Complete(con.parser) =>
        LET v == P!result(con.parser)
            t == P!to_json(v)
            p == P!parse_all(t)
        IN  /\ Len(t) = P!size(v)
            /\ ~p.error /\ P!result(p) = v
=============================================================================
