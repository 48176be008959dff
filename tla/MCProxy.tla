------------------------------- MODULE MCProxy -------------------------------
(* Module Proxy for TLC: answers with and without a body, of a given       *)
(* length and in chunks, one of which asks to close the connection, and    *)
(* one that is no answer at all.                                           *)
EXTENDS Proxy

EOL == <<H!CR, H!LF>>

Code(n) == <<<<"version", 1001>>, <<"code", n>>>> \o EOL

(* The header is cut after the first line or not at all, the body at the   *)
(* places cuts, counted from its end.                                      *)
Answer(code, removed, header, body, cuts) ==
    LET chars == Code(code) \o removed \o header \o EOL \o body
    IN  [chars |-> chars, method |-> "GET", forward |-> Code(code) \o header \o EOL \o body,
         cuts |-> {Len(chars) - 4} \cup cuts]

Text(n) == [i \in 1 .. n |-> <<"c", ToString(i)>>]

KeepAlive == <<<<"name", "connection">>, <<"option", "keep-alive">>>> \o EOL
Close     == <<<<"name", "connection">>, <<"option", "close">>>> \o EOL

Sized   == Answer(200, KeepAlive, <<<<"name", "content-length">>, <<"number", 4>>>> \o EOL, Text(4), 0 .. 4)
Chunks  == Answer(200, Close, <<<<"name", "transfer-encoding">>, <<"option", "chunked">>>> \o EOL,
                  <<<<"hex", 1>>>> \o EOL \o Text(1) \o EOL \o <<<<"hex", 0>>>> \o EOL \o EOL,
                  {11, 9, 6, 4, 1, 0})
Broken  == [Answer(200, <<>>, <<>>, <<>>, {0}) EXCEPT !.chars = <<<<"c", "x">>>> \o EOL, !.cuts = {0}, !.forward = <<>>]
NotModified == Answer(304, KeepAlive, <<>>, <<>>, {0})

CONSTANTS Large     \* the response with the large answers

MCAnswers == [r \in Responses |-> IF r = Large THEN {Sized, Chunks} ELSE {NotModified, Broken}]
=============================================================================
