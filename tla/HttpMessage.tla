----------------------------- MODULE HttpMessage -----------------------------
(***************************************************************************)
(* http::message_base, request_header and response_header: a fixed buffer  *)
(* in which lines are found as the characters arrive.  A character is a    *)
(* tuple: CR, LF and SP, the parts of a start line (a method, a uri and a  *)
(* version, or a version and a code) and of a header (its name with the    *)
(* colon and the options of its value), and <<"c", ch>> for anything else. *)
(***************************************************************************)
EXTENDS Integers, Sequences
LOCAL INSTANCE SequencesExt

CONSTANTS
    BufferSize      \* sizeof buffer_

CR == <<"CR">>
LF == <<"LF">>
SP == <<"SP">>

Methods == {"OPTIONS", "GET", "HEAD", "POST", "PUT", "DELETE", "TRACE", "CONNECT"}

NewMessage(kind) ==
    [kind |-> kind, buffer |-> <<>>, parse_ptr |-> 0, read_ptr |-> 0, error |-> "parsing",
     parser_state |-> "expect_request_line", line |-> <<>>, headers |-> <<>>]

read_buffer(m)      == BufferSize - Len(m.buffer)
unparsed_buffer(m)  == SubSeq(m.buffer, m.parse_ptr + 1, Len(m.buffer))

-----------------------------------------------------------------------------
(* The version is a number of thousands and ones; what is not a version    *)
(* has a negative one.  The phrase of a response is left out.              *)
start_line_found(m, line) ==
    IF m.kind = "request"
    THEN /\ Len(line) = 3
         /\ line[1][1] = "method" /\ line[1][2] \in Methods
         /\ line[3][1] = "version" /\ line[3][2] >= 0
    ELSE /\ Len(line) = 2
         /\ line[1][1] = "version" /\ line[1][2] >= 0
         /\ line[2][1] = "code" /\ line[2][2] \in 100 .. 599

method(m)        == m.line[1][2]
code(m)          == m.line[2][2]
query(m)         == m.line[2][2]       \* the query of the uri
milli_version(m) == IF m.kind = "request" THEN m.line[3][2] ELSE m.line[1][2]

(* header::parse(): a line that starts with a space has no name. *)
IsHeader(line) == line[1][1] = "name"

find_header(m, name) ==
    SelectSeq(m.headers, LAMBDA h : h.name = name)

HasHeader(m, name) == find_header(m, name) # <<>>

(* Only the first header of a name counts. *)
option_available(m, name, option) ==
    HasHeader(m, name) /\ <<"option", option>> \in ToSet(Head(find_header(m, name)).value)

(* parse_number() of the whole value. *)
IsNumber(value)     == Len(value) = 1 /\ value[1][1] = "number"
parse_number(value) == value[1][2]

header_found(m, line) ==
    CASE line[1] = SP /\ m.headers # <<>> ->
           [m EXCEPT !.headers[Len(m.headers)].value = @ \o Tail(line),
                     !.headers[Len(m.headers)].all   = @ \o <<CR, LF>> \o line]
      [] IsHeader(line) ->
           [m EXCEPT !.headers = Append(@, [name |-> line[1][2], value |-> Tail(line), all |-> line])]
      [] OTHER -> [m EXCEPT !.error = "syntax_error"]

(* A request needs a host; the port that may follow its name has 16 bits. *)
end_of_request(m) ==
    IF m.kind = "request" /\ (\/ ~HasHeader(m, "host")
                              \/ \E i \in DOMAIN Head(find_header(m, "host")).value :
                                    LET v == Head(find_header(m, "host")).value[i]
                                    IN  v[1] = "port" /\ v[2] > 65535)
    THEN "syntax_error" ELSE "ok"

crlf_found(m, line) ==
    CASE m.parser_state = "expect_request_line" ->
           IF line = <<>> THEN m
           ELSE IF start_line_found(m, line) THEN [m EXCEPT !.line = line, !.parser_state = "expect_header"]
           ELSE [m EXCEPT !.line = line, !.error = "syntax_error"]
      [] m.parser_state = "expect_header" ->
           IF line = <<>> THEN [m EXCEPT !.error = end_of_request(m)] ELSE header_found(m, line)

BufferFull(m) ==
    IF Len(m.buffer) = BufferSize /\ m.error = "parsing" THEN [m EXCEPT !.error = "buffer_full"] ELSE m

(* Mutant: a CR at the end of the buffer is not looked at again. *)
seek_past(m, i) ==
    IF \E k \in i .. Len(m.buffer) - 2 : m.buffer[k + 1] = CR
    THEN CHOOSE k \in i .. Len(m.buffer) - 2 : m.buffer[k + 1] = CR /\ \A j \in i .. (k - 1) : m.buffer[j + 1] # CR
    ELSE Len(m.buffer)

(* The first CR from i on that is not the last character, or the place of  *)
(* the last character.                                                     *)
seek(m, i) ==
    IF \E k \in i .. Len(m.buffer) - 2 : m.buffer[k + 1] = CR
    THEN CHOOSE k \in i .. Len(m.buffer) - 2 : m.buffer[k + 1] = CR /\ \A j \in i .. (k - 1) : m.buffer[j + 1] # CR
    ELSE Len(m.buffer) - 1

(* The next line, if its end has arrived; otherwise the message stays. *)
parse_line(m) ==
    IF m.error # "parsing" \/ m.read_ptr = Len(m.buffer) THEN m
    ELSE LET i == seek(m, m.read_ptr)
         IN  IF i >= Len(m.buffer) - 1 THEN [m EXCEPT !.read_ptr = i]
             ELSE LET line == SubSeq(m.buffer, m.parse_ptr + 1, i)
                  IN  IF m.buffer[i + 2] = LF
                      THEN [crlf_found(m, line) EXCEPT !.parse_ptr = i + 2, !.read_ptr = i + 2]
                      ELSE [m EXCEPT !.read_ptr = i + 2]

(* message_base::parse(): the lines one after the other, of which there    *)
(* are fewer than characters.  The message is complete when error is not   *)
(* "parsing" any more.                                                     *)
parse(m, data) ==
    LET all == [m EXCEPT !.buffer = @ \o data]
        parsed[n \in 0 .. Len(all.buffer)] == IF n = 0 THEN all ELSE parse_line(parsed[n - 1])
    IN  BufferFull(parsed[Len(all.buffer)])

-----------------------------------------------------------------------------
close_after_response(m) ==
    m.error # "ok" \/ milli_version(m) < 1001 \/ option_available(m, "connection", "close")

(* request_header::body_expected() and response_header::body_expected() *)
body_expected(m, request_method) ==
    IF m.kind = "request" THEN HasHeader(m, "content-length") \/ HasHeader(m, "transfer-encoding")
    ELSE request_method # "HEAD" /\ code(m) \div 100 # 1 /\ code(m) \notin {204, 304}

(* The text of the message without the headers that the filter names. *)
filtered_request_text(m, not_wanted) ==
    m.line \o FlattenSeq([i \in DOMAIN m.headers |->
                  IF m.headers[i].name \in not_wanted THEN <<>> ELSE <<CR, LF>> \o m.headers[i].all])
           \o <<CR, LF, CR, LF>>
=============================================================================
