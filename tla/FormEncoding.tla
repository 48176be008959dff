---------------------------- MODULE FormEncoding ----------------------------
(***************************************************************************)
(* The percent encoding of http/parser.cpp and the split of a form into    *)
(* its names and values.  Text is a sequence of characters; a result is    *)
(* <<>> for an exception, and a sequence of one element otherwise.         *)
(***************************************************************************)
EXTENDS Integers, Sequences
LOCAL INSTANCE SequencesExt
LOCAL INSTANCE Functions
LOCAL INSTANCE TLC

Ascii == "\n" :> 10 @@ " " :> 32 @@ "\"" :> 34 @@ "%" :> 37 @@ "&" :> 38 @@ "+" :> 43 @@ "," :> 44
      @@ "-" :> 45 @@ "." :> 46 @@ "/" :> 47 @@ ":" :> 58 @@ "=" :> 61 @@ "[" :> 91 @@ "\\" :> 92
      @@ "]" :> 93 @@ "{" :> 123 @@ "}" :> 125

CharOf == AntiFunction(Ascii)

HexChars == << "0", "1", "2", "3", "4", "5", "6", "7", "8", "9", "A", "B", "C", "D", "E", "F" >>
Lower    == "a" :> 10 @@ "b" :> 11 @@ "c" :> 12 @@ "d" :> 13 @@ "e" :> 14 @@ "f" :> 15
Nibble   == [c \in ToSet(HexChars) \cup DOMAIN Lower |->
                IF c \in DOMAIN Lower THEN Lower[c] ELSE CHOOSE n \in 0 .. 15 : HexChars[n + 1] = c]

(* What has no code above is a letter or a digit, which stand for          *)
(* themselves, as the characters - and . do.                               *)
url_encode(text) ==
    FlattenSeq([i \in DOMAIN text |->
        IF text[i] \notin DOMAIN Ascii \/ text[i] \in {"-", "."} THEN <<text[i]>>
        ELSE <<"%", HexChars[(Ascii[text[i]] \div 16) + 1], HexChars[(Ascii[text[i]] % 16) + 1]>>])

read_nibble(c) == Nibble[c]

RECURSIVE DecodeFrom(_, _, _)
DecodeFrom(text, i, decoded) ==
    IF i > Len(text) THEN <<decoded>>
    ELSE IF text[i] # "%" THEN DecodeFrom(text, i + 1, Append(decoded, text[i]))
    ELSE IF i + 2 > Len(text) \/ text[i + 1] \notin DOMAIN Nibble \/ text[i + 2] \notin DOMAIN Nibble THEN <<>>
    ELSE DecodeFrom(text, i + 3, Append(decoded, CharOf[16 * read_nibble(text[i + 1]) + read_nibble(text[i + 2])]))

url_decode(text) == DecodeFrom(text, 1, <<>>)

form_decode(text) == url_decode([i \in DOMAIN text |-> IF text[i] = "+" THEN " " ELSE text[i]])

(* tools::split_to_empty(): the parts before and after the first           *)
(* separator.                                                              *)
SplitAt(text, c) == SelectInSeq(text, LAMBDA x : x = c)
Before(text, i)  == SubSeq(text, 1, i - 1)
After(text, i)   == SubSeq(text, i + 1, Len(text))

(* add_name_value(): a pair without an equals sign is a bad_query. *)
RECURSIVE split_query(_)
split_query(query) ==
    LET amp   == SplitAt(query, "&")
        first == IF amp = 0 THEN query ELSE Before(query, amp)
        eq    == SplitAt(first, "=")
        rest  == IF amp = 0 THEN <<<<>>>> ELSE split_query(After(query, amp))
    IN  CASE query = <<>> -> <<<<>>>>
          [] query # <<>> /\ (eq = 0 \/ rest = <<>>) -> <<>>
          [] OTHER -> << <<<<Before(first, eq), After(first, eq)>>>> \o rest[1] >>
=============================================================================
