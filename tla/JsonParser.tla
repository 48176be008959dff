----------------------------- MODULE JsonParser -----------------------------
(***************************************************************************)
(* json::parser: a stack of states and a stack of values, so that a text   *)
(* can arrive in pieces of any size.  A parser is a record; the top of a   *)
(* stack is its last element.  error stands for a parse_error.             *)
(***************************************************************************)
EXTENDS JsonValue
LOCAL INSTANCE SequencesExt

White == {" ", "\n"}
HexDigits == Digits \cup {"a", "b", "e", "f", "E"}
Escapable == {"\"", "\\", "/", "b", "f", "n", "r", "t"}

NumberStates  == {"start_number", "sign", "pre_dot", "dot", "post_dot", "exponent", "exponent_sign", "exponent_value"}
ArrayStates   == {"start_array", "left_bracket", "array_value"}
ObjectStates  == {"start_object", "left_brace", "member_name", "member_value"}
StringStates  == {"start_string", "string", "reverse_solidus", "unicode"}

(* The literals and unicode escapes count what they have read. *)
State(name)   == <<name, 0>>

NewParser == [state |-> <<State("idle")>>, result |-> <<>>, buffer |-> <<>>, error |-> FALSE]

Top(p)        == Last(p.state)
SetTop(p, s)  == [p EXCEPT !.state = Append(Front(@), s)]
Fail(p)       == [p EXCEPT !.error = TRUE]
Keep(p, c)    == [p EXCEPT !.buffer = Append(@, c)]

(* What a step leaves: the parser, and whether it consumed the character. *)
Took(p)       == [parser |-> p, took |-> TRUE]
Left(p)       == [parser |-> p, took |-> FALSE]

value_parsed(p, v) ==
    [p EXCEPT !.state = Front(@), !.result = Append(@, v), !.buffer = <<>>]

parse_idle(p, c) ==
    LET start == CASE c = "{"  -> "start_object" [] c = "[" -> "start_array"
                   [] c = "\"" -> "start_string" [] c = "f" -> "false"
                   [] c = "t"  -> "true"         [] c = "n" -> "null"
                   [] c \in Digits \cup {"-"} -> "start_number"
                   [] OTHER -> "error"
    IN  IF c \in White THEN Took(p)
        ELSE Left(IF start = "error" THEN Fail(p) ELSE SetTop(p, State(start)))

state_after_digit(s) ==
    CASE s \in {"exponent", "exponent_sign", "exponent_value"} -> "exponent_value"
      [] s \in {"dot", "post_dot"} -> "post_dot"
      [] OTHER -> "pre_dot"

is_complete_number(s) == s \in {"pre_dot", "post_dot", "exponent_value"}

parse_number(p, c) ==
    LET s    == Top(p)[1]
        next == CASE c \in {"-", "+"} /\ s = "exponent"              -> "exponent_sign"
                  [] c \in {"-", "+"} /\ s = "start_number"          -> "sign"
                  [] c = "." /\ s = "pre_dot"                        -> "dot"
                  [] c \in {"e", "E"} /\ s \in {"pre_dot", "post_dot"} -> "exponent"
                  [] c \in Digits                                    -> state_after_digit(s)
                  [] c \notin Digits \cup {"-", "+", ".", "e", "E"} /\ is_complete_number(s) -> "stop"
                  [] OTHER                                           -> "error"
    IN  CASE next = "error" -> Left(Fail(p))
          [] next = "stop"  -> Left(value_parsed(p, NumberText(p.buffer)))
          [] OTHER          -> Took(Keep(SetTop(p, State(next)), c))

(* The value on top of the results becomes the last member of the array    *)
(* below it.                                                               *)
AddElement(p) ==
    LET n == Len(p.result)
    IN  [p EXCEPT !.result = Append(SubSeq(@, 1, n - 2), Array(Append(@[n - 1][2], @[n])))]

(* Mutant: the end of an array adds the last element only when the array   *)
(* is the outermost one.                                                   *)
parse_array_outer(p, c) ==
    LET s == Top(p)[1]
    IN  CASE s = "start_array" ->
               Took([SetTop(p, State("left_bracket")) EXCEPT !.result = Append(@, Array(<<>>))])
          [] s # "start_array" /\ c \in White -> Took(p)
          [] s = "left_bracket" /\ c = "]" -> Took([p EXCEPT !.state = Front(@)])
          [] s = "left_bracket" /\ c \notin White \cup {"]"} ->
               Left([p EXCEPT !.state = Front(@) \o <<State("array_value"), State("idle")>>])
          [] s = "array_value" /\ c = "," -> Took(AddElement([p EXCEPT !.state = Append(@, State("idle"))]))
          [] s = "array_value" /\ c = "]" ->
               Took(IF Len(p.state) = 1 THEN AddElement([p EXCEPT !.state = Front(@)]) ELSE [p EXCEPT !.state = Front(@)])
          [] OTHER -> Left(Fail(p))

parse_array(p, c) ==
    LET s == Top(p)[1]
    IN  CASE s = "start_array" ->
               Took([SetTop(p, State("left_bracket")) EXCEPT !.result = Append(@, Array(<<>>))])
          [] s # "start_array" /\ c \in White -> Took(p)
          [] s = "left_bracket" /\ c = "]" -> Took([p EXCEPT !.state = Front(@)])
          [] s = "left_bracket" /\ c \notin White \cup {"]"} ->
               Left([p EXCEPT !.state = Front(@) \o <<State("array_value"), State("idle")>>])
          [] s = "array_value" /\ c = "," -> Took(AddElement([p EXCEPT !.state = Append(@, State("idle"))]))
          [] s = "array_value" /\ c = "]" -> Took(AddElement([p EXCEPT !.state = Front(@)]))
          [] OTHER -> Left(Fail(p))

(* The name and the value on top of the results go to the object below. *)
AddMember(p) ==
    LET n == Len(p.result)
    IN  [p EXCEPT !.result = Append(SubSeq(@, 1, n - 3), Object(add(@[n - 2][2], @[n - 1][2], @[n])))]

(* A comma between two members is optional, and may follow the last one. *)
parse_object(p, c) ==
    LET s == Top(p)[1]
    IN  CASE s = "start_object" ->
               Took([SetTop(p, State("left_brace")) EXCEPT !.result = Append(@, Object(NoMembers))])
          [] s # "start_object" /\ c \in White -> Took(p)
          [] s = "left_brace" /\ c = "}" -> Took([p EXCEPT !.state = Front(@)])
          [] s = "left_brace" /\ c = "\"" ->
               Left([p EXCEPT !.state = Front(@) \o <<State("member_name"), State("start_string")>>])
          [] s = "member_name" /\ c = ":" ->
               Took([p EXCEPT !.state = Front(@) \o <<State("member_value"), State("idle")>>])
          [] s = "member_value" /\ c \notin White ->
               LET q == SetTop(AddMember(p), State("left_brace"))
               IN  IF c = "," THEN Took(q) ELSE Left(q)
          [] OTHER -> Left(Fail(p))

(* Mutant: the back slash of an escape is not kept. *)
parse_string_unescaped(p, c) ==
    LET s == Top(p)
        q == Keep(p, c)
    IN  CASE s[1] = "start_string" -> Took(SetTop(q, State("string")))
          [] s[1] = "string" ->
               Took(CASE c = "\"" -> value_parsed(q, StringText(q.buffer))
                      [] c = "\\" -> SetTop(p, State("reverse_solidus"))
                      [] OTHER    -> q)
          [] s[1] = "reverse_solidus" /\ c = "u"          -> Took(SetTop(q, State("unicode")))
          [] s[1] = "reverse_solidus" /\ c \in Escapable  -> Took(SetTop(q, State("string")))
          [] s[1] = "unicode" /\ c \in HexDigits ->
               Took(SetTop(q, IF s[2] = 3 THEN State("string") ELSE <<"unicode", s[2] + 1>>))
          [] OTHER -> Left(Fail(p))

parse_string(p, c) ==
    LET s == Top(p)
        q == Keep(p, c)
    IN  CASE s[1] = "start_string" -> Took(SetTop(q, State("string")))
          [] s[1] = "string" ->
               Took(CASE c = "\"" -> value_parsed(q, StringText(q.buffer))
                      [] c = "\\" -> SetTop(q, State("reverse_solidus"))
                      [] OTHER    -> q)
          [] s[1] = "reverse_solidus" /\ c = "u"          -> Took(SetTop(q, State("unicode")))
          [] s[1] = "reverse_solidus" /\ c \in Escapable  -> Took(SetTop(q, State("string")))
          [] s[1] = "unicode" /\ c \in HexDigits ->
               Took(SetTop(q, IF s[2] = 3 THEN State("string") ELSE <<"unicode", s[2] + 1>>))
          [] OTHER -> Left(Fail(p))

Literals == [true |-> True, false |-> False, null |-> Null]

(* The character after the last one of the literal is not looked at. *)
parse_literal(p, c) ==
    LET s == Top(p)
        v == Literals[s[1]]
    IN  IF v[2][s[2] + 1] # c THEN Left(Fail(p))
        ELSE Took(IF s[2] + 1 = Len(v[2]) THEN value_parsed(p, v)
                  ELSE SetTop(p, <<s[1], s[2] + 1>>))

(* parser::parse(): the parser and what is left of the text when the       *)
(* outermost value is complete.                                            *)
RECURSIVE parse_rest(_, _)
parse_rest(p, text) ==
    IF text = <<>> \/ p.state = <<>> \/ p.error THEN <<p, text>>
    ELSE LET s == Top(p)[1]
             c == Head(text)
             r == CASE s = "idle"         -> parse_idle(p, c)
                    [] s \in NumberStates -> parse_number(p, c)
                    [] s \in ArrayStates  -> parse_array(p, c)
                    [] s \in ObjectStates -> parse_object(p, c)
                    [] s \in StringStates -> parse_string(p, c)
                    [] OTHER              -> parse_literal(p, c)
         IN  parse_rest(r.parser, IF r.took THEN Tail(text) ELSE text)

parse(p, text) == parse_rest(p, text)[1]

Complete(p) == p.state = <<>> /\ ~p.error

(* parser::flush(): a number has no end of its own. *)
flush(p) ==
    CASE p.error -> p
      [] ~p.error /\ p.state = <<>> -> IF Len(p.result) = 1 THEN p ELSE Fail(p)
      [] OTHER ->
           IF ~is_complete_number(Top(p)[1]) THEN Fail(p)
           ELSE LET q == value_parsed(p, NumberText(p.buffer))
                IN  IF q.state = <<>> /\ Len(q.result) = 1 THEN q ELSE Fail(q)

result(p) == p.result[1]

(* json::parse() of a whole text, after which only white space may come. *)
parse_all(text) ==
    LET r == parse_rest(NewParser, text)
    IN  IF \E i \in DOMAIN r[2] : r[2][i] \notin White THEN Fail(r[1])
        ELSE IF Complete(r[1]) THEN r[1] ELSE flush(r[1])
=============================================================================
