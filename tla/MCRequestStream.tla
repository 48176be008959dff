--------------------------- MODULE MCRequestStream ---------------------------
(* Module RequestStream for TLC: single requests with many bodies, and     *)
(* pairs of requests on one connection.                                    *)
EXTENDS RequestStream
LOCAL INSTANCE SequencesExt

EOL == <<CR, LF>>
Line(name, query_text, version) == <<<<"method", name>>, <<"uri", query_text>>, <<"version", version>>>>
Host == <<<<"name", "host">>, <<"option", "host">>>> \o EOL
Chars(text) == [i \in DOMAIN text |-> <<"c", text[i]>>]

(* A body: its text, the value it stands for, what follows the value. *)
Body(text, value, rest) == [text |-> text, value |-> value, rest |-> rest]
Printed(v) == Body(P!to_json(v), <<v>>, FALSE)
Wrong(text) == Body(text, <<>>, FALSE)

Str == P!String(<<"a", "\"", "\\", "\n">>)
Obj == P!Object([n \in {P!String(<<"a">>)[2], P!String(<<"b">>)[2]} |-> P!Array(<<P!Number(-12)>>)])

Bodies ==
    { Printed(v) : v \in {
        P!Array(<<>>), P!Object(P!NoMembers), Str, Obj, P!Number(0), P!True,
        P!Array(<<P!Array(<<>>), P!Array(<<P!False>>), P!Null>>),
        P!Array(<<Obj, Str, P!NumberText(<<"1", ".", "2", "e", "+", "3">>)>>),
        P!Object([n \in {P!String(<<>>)[2]} |-> Obj]) } }
    \cup { Body(<<" ", "[", "1", "\n", ",", " ", "2", " ", "]">>, <<P!Array(<<P!Number(1), P!Number(2)>>)>>, FALSE),
           Body(<<"[", "]", "\n">>, <<P!Array(<<>>)>>, TRUE),
           Body(<<"[", "]", "]">>, <<P!Array(<<>>)>>, TRUE),
           Body(<<"\"", "\\", "u", "0", "a", "E", "9", "\"">>,
                <<P!StringText(<<"\"", "\\", "u", "0", "a", "E", "9", "\"">>)>>, FALSE),
           Body(<<"{", "\"", "a", "\"", " ", ":", "1", " ", "\"", "b", "\"", ":", "2", ",", "}">>,
                <<P!Object([n \in {P!String(<<"a">>)[2], P!String(<<"b">>)[2]} |->
                     IF n = P!String(<<"a">>)[2] THEN P!Number(1) ELSE P!Number(2)])>>, FALSE) }
    \cup { Wrong(t) : t \in { <<"[", "1", ",", "]">>, <<"[", "1", " ", "2", "]">>, <<"[", "[", "]">>, <<"-">>, <<"1", ".">>,
                              <<"1", "e", "+">>, <<"{", "1", "}">>, <<"{", "\"", "a", "\"", "1", "}">>, <<"t", "r", "u">>,
                              <<"t", "r", "u", "a">>, <<"\"", "\\", "a", "\"">>, <<"\"", "\\", "u", "0", "l">>, <<" ", "]">> } }

Request(encoding, line, headers, body, data, correct) ==
    [encoding |-> encoding, line |-> line, correct |-> correct, text |-> body.text, value |-> body.value,
     rest |-> body.rest, form |-> FALSE, close |-> FALSE, chars |-> line \o EOL \o headers \o EOL \o data]

Length(body) ==
    Request("length", Line("POST", <<>>, 1001),
            Host \o <<<<"name", "content-length">>, <<"number", Len(body.text)>>>> \o EOL, body, Chars(body.text), TRUE)

(* Two chunks and the last one, the first with an extension. *)
Chunked(body, n) ==
    Request("chunked", Line("PUT", <<>>, 1001),
            Host \o <<<<"name", "transfer-encoding">>, <<"option", "gzip">>>> \o EOL \o <<SP, <<"option", "chunked">>>> \o EOL, body,
            <<<<"hex", n>>, <<"ext">>, <<"c", "a">>>> \o EOL \o Chars(SubSeq(body.text, 1, n)) \o EOL \o
            (IF n = Len(body.text) THEN <<>>
             ELSE <<<<"hex", 0>>, <<"hex", Len(body.text) - n>>>> \o EOL \o Chars(SubSeq(body.text, n + 1, Len(body.text))) \o EOL) \o
            <<<<"hex", 0>>>> \o EOL \o <<<<"c", "t">>>> \o EOL \o EOL, TRUE)

(* A form with the messages and something else.  Only texts without & and  *)
(* = arrive as they were sent.                                             *)
Form(values) ==
    LET text == <<"n", "=", "1">> \o
                FlattenSeq([i \in DOMAIN values |-> <<"&", "m", "=">> \o F!url_encode(P!to_json(values[i]))])
    IN  [Request("length", Line("POST", <<>>, 1001),
                Host \o <<<<"name", "content-type">>, <<"option", "form">>>> \o EOL
                     \o <<<<"name", "content-length">>, <<"number", Len(text)>>>> \o EOL,
                Body(text, values, FALSE), Chars(text), TRUE) EXCEPT !.form = TRUE]

(* A request without a body, with the values as messages in its query. *)
Query(values) ==
    <<"n", "=", "+">> \o FlattenSeq([i \in DOMAIN values |-> <<"&", "m", "=">> \o F!url_encode(P!to_json(values[i]))])
Fetch(version, values, headers, correct) ==
    [Request("none", Line("GET", Query(values), version), headers, Body(<<>>, values, FALSE), <<>>, correct) EXCEPT !.form = TRUE]
Plain(version, headers, correct) == Fetch(version, <<P!True>>, headers, correct)

Get == Plain(1001, Host, TRUE)
NoMessage == Fetch(1001, <<>>, Host, TRUE)
EmptyLines == [Get EXCEPT !.chars = EOL \o EOL \o @]
Closing == [Plain(1001, Host \o <<<<"name", "connection">>, <<"option", "te">>, <<"option", "close">>>> \o EOL, TRUE) EXCEPT !.close = TRUE]
Old == [Plain(1000, Host, TRUE) EXCEPT !.close = TRUE]
NoHost == Plain(1001, <<<<"name", "accept">>, <<"option", "any">>, CR, <<"option", "any">>>> \o EOL, FALSE)
BadPort == Plain(1001, <<<<"name", "host">>, <<"port", 70000>>>> \o EOL, FALSE)
NoName == Plain(1001, <<<<"option", "any">>>> \o EOL, FALSE)
NoVersion == Plain(-1, Host, FALSE)
TooLong == Plain(1001, Host \o FlattenSeq([i \in 1 .. 6 |-> Host]), FALSE)
EmptyBody == Length(Wrong(<<>>))
NoLength == [Length(Wrong(<<>>)) EXCEPT !.chars =
    Line("POST", <<>>, 1001) \o EOL \o Host \o <<<<"name", "content-length">>, <<"option", "any">>>> \o EOL \o EOL]

Some == {b \in Bodies : Len(b.text) \in 3 .. 4}

MCStreams ==
    { <<Length(b)>> : b \in Bodies }
    \cup { <<Chunked(b, n)>> : b \in {x \in Bodies : x.text # <<>>}, n \in {1} }
    \cup { <<Chunked(b, Len(b.text))>> : b \in {x \in Bodies : Len(x.text) < 16} }
    \cup { <<Get, Length(b), EmptyLines, Chunked(b, 1), Get>> : b \in Some }
    \cup { <<Closing, r>> : r \in {Get, Old, NoMessage, NoHost, BadPort, NoName, NoVersion, TooLong, EmptyBody, NoLength} }
    \cup { <<Form(values)>> : values \in { <<>>, <<Str>>, <<P!Array(<<P!Number(-12)>>), P!True>> } }
    \cup { <<EmptyBody, Get, Length(CHOOSE b \in Some : TRUE)>> }

(* Bodies after a chunked one. *)
KeptAlive == LET b == CHOOSE x \in Some : x.value # <<>> IN { <<Chunked(b, 1), r>> : r \in {Length(b), Chunked(b, 1)} }
=============================================================================
