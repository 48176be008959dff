------------------------------ MODULE JsonValue ------------------------------
(***************************************************************************)
(* json::value and its implementations.  A value is a pair of its type and *)
(* of what the implementation keeps: the text of a number, the text of a   *)
(* string with its quotes and escapes, the members of an array or of an    *)
(* object (a function on the names, each of which is a string's text).     *)
(* Text is a sequence of characters.                                       *)
(***************************************************************************)
EXTENDS Integers, Sequences
LOCAL INSTANCE SequencesExt
LOCAL INSTANCE TLC
LOCAL INSTANCE FiniteSets

(* The characters that the models use, in the order of their codes. *)
Chars == << "\n", " ", "\"", "+", ",", "-", ".", "/", "0", "1", "2", "3", "4", "5",
            "6", "7", "8", "9", ":", "E", "[", "\\", "]", "a", "b", "e", "f", "l",
            "n", "r", "s", "t", "u", "{", "}" >>

Digits == { ToString(n) : n \in 0 .. 9 }

Code == [c \in ToSet(Chars) |-> CHOOSE i \in DOMAIN Chars : Chars[i] = c]

NumberText(text) == <<"number", text>>
StringText(text) == <<"string", text>>
Array(members)   == <<"array", members>>
Object(members)  == <<"object", members>>
True             == <<"true", << "t", "r", "u", "e" >> >>
False            == <<"false", << "f", "a", "l", "s", "e" >> >>
Null             == <<"null", << "n", "u", "l", "l" >> >>

NoMembers == [name \in {} |-> Null]

-----------------------------------------------------------------------------
(* The digits of a number that is not negative. *)
RECURSIVE DigitsOf(_)
DigitsOf(n) == IF n < 10 THEN <<ToString(n)>> ELSE Append(DigitsOf(n \div 10), ToString(n % 10))

Number(n) == NumberText(IF n < 0 THEN <<"-">> \o DigitsOf(-n) ELSE DigitsOf(n))

to_int(v) ==
    LET abs(text) == FoldLeft(LAMBDA n, c : 10 * n + Code[c] - Code["0"], 0, text)
    IN  IF Head(v[2]) = "-" THEN -abs(Tail(v[2])) ELSE abs(v[2])

(* What string_impl::init() writes for a character. *)
Escaped(c) ==
    CASE c \in {"\"", "\\"} -> <<"\\", c>>
      [] c = "\n"           -> <<"\\", "n">>
      [] OTHER              -> <<c>>

String(chars) == StringText(<<"\"">> \o FlattenSeq([i \in DOMAIN chars |-> Escaped(chars[i])]) \o <<"\"">>)

(* string_impl::to_std_string(): every escape is undone but \uXXXX, which  *)
(* loses its back slash.                                                   *)
RECURSIVE Unescaped(_)
Unescaped(text) ==
    IF text = <<>> THEN <<>>
    ELSE IF Head(text) # "\\" THEN <<Head(text)>> \o Unescaped(Tail(text))
    ELSE <<IF text[2] = "n" THEN "\n" ELSE text[2]>> \o Unescaped(SubSeq(text, 3, Len(text)))

to_std_string(v) == Unescaped(SubSeq(v[2], 2, Len(v[2]) - 1))

-----------------------------------------------------------------------------
(* Shorter texts come first. *)
less_impl(lhs, rhs) ==
    IF Len(lhs) # Len(rhs) THEN Len(lhs) < Len(rhs)
    ELSE \E i \in DOMAIN lhs :
           /\ \A j \in 1 .. (i - 1) : lhs[j] = rhs[j]
           /\ Code[lhs[i]] < Code[rhs[i]]

(* The order of a std::map with strings as keys. *)
keys(members) == SetToSortSeq(DOMAIN members, less_impl)

(* Types have some fixed order, that of their type_info. *)
TypeOrder == [t \in {"array", "false", "null", "number", "object", "string", "true"} |->
    CASE t = "array" -> 1 [] t = "false" -> 2 [] t = "null" -> 3 [] t = "number" -> 4
      [] t = "object" -> 5 [] t = "string" -> 6 [] OTHER -> 7]

(* value::operator<.  Containers are compared by their number of members,  *)
(* then at the first member that differs.                                  *)
RECURSIVE less(_, _)
less(a, b) ==
    LET first(n, eq(_), lt(_)) == \E i \in 1 .. n : (\A j \in 1 .. (i - 1) : eq(j)) /\ ~eq(i) /\ lt(i)
    IN
    CASE a[1] # b[1] -> TypeOrder[a[1]] < TypeOrder[b[1]]
      [] a[1] = b[1] /\ a[1] \in {"number", "string"} -> less_impl(a[2], b[2])
      [] a[1] = b[1] /\ a[1] = "array" ->
           IF Len(a[2]) # Len(b[2]) THEN Len(a[2]) < Len(b[2])
           ELSE LET eq(i) == ~less(a[2][i], b[2][i]) /\ ~less(b[2][i], a[2][i])
                    lt(i) == less(a[2][i], b[2][i])
                IN  first(Len(a[2]), eq, lt)
      [] a[1] = b[1] /\ a[1] = "object" ->
           LET ka == keys(a[2])
               kb == keys(b[2])
           IN  IF Len(ka) # Len(kb) THEN Len(ka) < Len(kb)
               ELSE LET va(i) == a[2][ka[i]]
                        vb(i) == b[2][kb[i]]
                        eq(i) == ka[i] = kb[i] /\ ~less(va(i), vb(i)) /\ ~less(vb(i), va(i))
                        lt(i) == less_impl(ka[i], kb[i]) \/ (ka[i] = kb[i] /\ less(va(i), vb(i)))
                    IN  first(Len(ka), eq, lt)
      [] OTHER -> FALSE

equal(a, b) == ~less(a, b) /\ ~less(b, a)

-----------------------------------------------------------------------------
(* value::size(): the length of the text, computed and not printed. *)
RECURSIVE size(_)
size(v) ==
    LET commas(n) == IF n > 0 THEN n - 1 ELSE 0
    IN
    CASE v[1] = "array"  -> FoldLeft(LAMBDA n, m : n + size(m), 2 + commas(Len(v[2])), v[2])
      [] v[1] = "object" ->
           FoldLeft(LAMBDA n, k : n + Len(k) + size(v[2][k]),
                    2 + Cardinality(DOMAIN v[2]) + commas(Cardinality(DOMAIN v[2])), keys(v[2]))
      [] OTHER -> Len(v[2])

(* value::to_json() *)
RECURSIVE to_json(_)
to_json(v) ==
    LET separated(texts) == FlattenSeq([i \in DOMAIN texts |-> IF i = 1 THEN texts[i] ELSE <<",">> \o texts[i]])
    IN
    CASE v[1] = "array"  -> <<"[">> \o separated([i \in DOMAIN v[2] |-> to_json(v[2][i])]) \o <<"]">>
      [] v[1] = "object" ->
           LET k == keys(v[2])
           IN  <<"{">> \o separated([i \in DOMAIN k |-> k[i] \o <<":">> \o to_json(v[2][k[i]])]) \o <<"}">>
      [] OTHER -> v[2]

(* object_impl::add() keeps a member that is there already. *)
add(members, name, v) ==
    [n \in DOMAIN members \cup {name} |-> IF n \in DOMAIN members THEN members[n] ELSE v]

erase(members, name) == [n \in DOMAIN members \ {name} |-> members[n]]
=============================================================================
