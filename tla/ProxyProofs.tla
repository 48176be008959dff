---------------------------- MODULE ProxyProofs ----------------------------
(***************************************************************************)
(* The parser of module HttpMessage, the ring of module TransferBuffer,    *)
(* the pool of module ProxyConnector and the responses of module Proxy,    *)
(* for any number of responses and connections, any sizes of the buffers   *)
(* and whatever the origins answer: who has which connection, and what     *)
(* the client gets.                                                        *)
(***************************************************************************)
EXTENDS Proxy, FiniteSetTheorems, SequenceTheorems, WellFoundedInduction, NaturalsInduction, TLAPS

-----------------------------------------------------------------------------
(* Functions that are defined by recursion.  The numbers for which a claim *)
(* about f[n] holds are a set; it has 0 and every successor, so it is Nat. *)

(* There is a least number in every set of numbers. *)
LEMMA LeastNat ==
    ASSUME NEW N, N \subseteq Nat, N # {}
    PROVE  \E x \in N : \A y \in N : x <= y
<1>1. PICK x \in N : \A y \in N : ~(<<y, x>> \in OpToRel(<, Nat))
      BY NatLessThanWellFounded, WFMin
<1>2. \A y \in N : ~(y < x)  BY <1>1 DEF OpToRel
<1>3. \A y \in N : x <= y  BY <1>2
<1> QED  BY <1>3

(* Induction for a set of numbers. *)
LEMMA AllNumbers ==
    ASSUME NEW N, 0 \in N, \A n \in Nat : n \in N => n + 1 \in N
    PROVE  \A n \in Nat : n \in N
<1> SUFFICES ASSUME Nat \ N # {} PROVE FALSE  OBVIOUS
<1>1. PICK x \in Nat \ N : \A y \in Nat \ N : x <= y  BY LeastNat
<1>2. x - 1 \in Nat /\ x # 0 /\ (x - 1) + 1 = x /\ ~(x <= x - 1)  BY <1>1
<1>3. x - 1 \in N  BY <1>1, <1>2
<1> QED  BY <1>1, <1>2, <1>3

(* The messages that parse() goes through, line by line. *)
Lines(m, k) == CHOOSE f : f = [n \in 0 .. k |-> IF n = 0 THEN m ELSE H!parse_line(f[n - 1])]

LEMMA LinesDef ==
    ASSUME NEW m, NEW k \in Nat
    PROVE  Lines(m, k) = [n \in 0 .. k |-> IF n = 0 THEN m ELSE H!parse_line(Lines(m, k)[n - 1])]
<1> DEFINE N == { j \in Nat : \E f : f = [n \in 0 .. j |-> IF n = 0 THEN m ELSE H!parse_line(f[n - 1])] }
<1>1. 0 \in N
  <2>1. PICK f : f = [n \in 0 .. 0 |-> m]  OBVIOUS
  <2>2. f = [n \in 0 .. 0 |-> IF n = 0 THEN m ELSE H!parse_line(f[n - 1])]  BY <2>1
  <2> QED  BY <2>2
<1>2. ASSUME NEW j \in Nat, j \in N PROVE j + 1 \in N
  <2>1. PICK f : f = [n \in 0 .. j |-> IF n = 0 THEN m ELSE H!parse_line(f[n - 1])]  BY <1>2
  <2>2. PICK y : y = H!parse_line(f[j])  OBVIOUS
  <2>3. PICK g : g = [n \in 0 .. j + 1 |-> IF n = j + 1 THEN y ELSE f[n]]  OBVIOUS
  <2>4. ASSUME NEW n \in 0 .. j + 1
        PROVE  g[n] = IF n = 0 THEN m ELSE H!parse_line(g[n - 1])
    <3>1. CASE n = j + 1
      <4>1. g[n] = y /\ g[n - 1] = f[j] /\ n # 0  BY <2>3, <3>1
      <4> QED  BY <2>2, <4>1
    <3>2. CASE n # j + 1
      <4>1. n \in 0 .. j /\ g[n] = f[n]  BY <2>3, <3>2
      <4>2. n # 0 => n - 1 \in 0 .. j + 1 /\ n - 1 # j + 1 BY <4>1
      <4>3. n # 0 => g[n - 1] = f[n - 1]  BY <2>3, <4>2
      <4>4. f[n] = IF n = 0 THEN m ELSE H!parse_line(f[n - 1])  BY <2>1, <4>1
      <4> QED  BY <4>1, <4>3, <4>4
    <3> QED  BY <3>1, <3>2
  <2>5. g = [n \in 0 .. j + 1 |-> g[n]]  BY <2>3
  <2>6. g = [n \in 0 .. j + 1 |-> IF n = 0 THEN m ELSE H!parse_line(g[n - 1])]  BY <2>4, <2>5
  <2> QED  BY <2>6
<1> HIDE DEF N
<1>3. k \in N  BY <1>1, <1>2, AllNumbers
<1>4. \E f : f = [n \in 0 .. k |-> IF n = 0 THEN m ELSE H!parse_line(f[n - 1])]  BY <1>3 DEF N
<1> QED  BY <1>4 DEF Lines

LEMMA ParseDef ==
    ASSUME NEW m, NEW data
    PROVE  LET all == [m EXCEPT !.buffer = @ \o data]
           IN  H!parse(m, data) = H!BufferFull(Lines(all, Len(all.buffer))[Len(all.buffer)])
BY DEF H!parse, Lines

LEMMA Folded ==
    ASSUME NEW m, NEW line, line[1] = H!SP, m.headers # <<>>
    PROVE  H!header_found(m, line) = [m EXCEPT !.headers[Len(m.headers)].value = @ \o Tail(line),
                     !.headers[Len(m.headers)].all   = @ \o <<H!CR, H!LF>> \o line]
<1>1. ~H!IsHeader(line)  BY DEF H!IsHeader, H!SP
<1>2. ~(~(line[1] = H!SP /\ m.headers # <<>>) /\ ~H!IsHeader(line))  OBVIOUS
<1> QED  BY <1>1, <1>2, Zenon DEF H!header_found

LEMMA Named ==
    ASSUME NEW m, NEW line, H!IsHeader(line)
    PROVE  H!header_found(m, line) = [m EXCEPT !.headers = Append(@, [name |-> line[1][2], value |-> Tail(line), all |-> line])]
<1>1. line[1] # H!SP  BY DEF H!IsHeader, H!SP
<1> QED  BY <1>1, Zenon DEF H!header_found

LEMMA Neither ==
    ASSUME NEW m, NEW line, ~H!IsHeader(line), ~(line[1] = H!SP /\ m.headers # <<>>)
    PROVE  H!header_found(m, line) = [m EXCEPT !.error = "syntax_error"]
BY Zenon DEF H!header_found

LEMMA First ==
    ASSUME NEW m, NEW line, m.parser_state = "expect_request_line"
    PROVE  H!crlf_found(m, line) = IF line = <<>> THEN m
           ELSE IF H!start_line_found(m, line) THEN [m EXCEPT !.line = line, !.parser_state = "expect_header"]
           ELSE [m EXCEPT !.line = line, !.error = "syntax_error"]
<1>1. m.parser_state # "expect_header"  OBVIOUS
<1> QED  BY <1>1, Zenon DEF H!crlf_found

LEMMA Second ==
    ASSUME NEW m, NEW line, m.parser_state = "expect_header"
    PROVE  H!crlf_found(m, line) =
           IF line = <<>> THEN [m EXCEPT !.error = H!end_of_request(m)] ELSE H!header_found(m, line)
<1>1. m.parser_state # "expect_request_line"  OBVIOUS
<1> QED  BY <1>1, Zenon DEF H!crlf_found

-----------------------------------------------------------------------------
(* The parser of HttpMessage: a header that comes in pieces is understood  *)
(* as if it had come in one.                                               *)

MessageFields ==
    {"kind", "buffer", "parse_ptr", "read_ptr", "error", "parser_state", "line", "headers"}

(* Two messages that differ only in what they have received. *)
Alike(m, x) ==
    /\ DOMAIN m = MessageFields /\ DOMAIN x = MessageFields
    /\ x.kind = m.kind /\ x.error = m.error /\ x.parser_state = m.parser_state
    /\ x.line = m.line /\ x.headers = m.headers

(* Lines are understood without a look at the buffer. *)
LEMMA HeaderAlike ==
    ASSUME NEW m, NEW x, Alike(m, x), NEW line
    PROVE  /\ Alike(H!header_found(m, line), H!header_found(x, line))
           /\ H!header_found(m, line).buffer = m.buffer
           /\ H!header_found(m, line).parser_state = m.parser_state
<1>1. CASE line[1] = H!SP /\ m.headers # <<>>
  <2> DEFINE more(h) == [h EXCEPT ![Len(h)].value = @ \o Tail(line),
                                  ![Len(h)].all = @ \o <<H!CR, H!LF>> \o line]
  <2>1. x.headers # <<>>  BY <1>1 DEF Alike
  <2>2. /\ H!header_found(m, line) = [m EXCEPT !.headers = more(@)]
        /\ H!header_found(x, line) = [x EXCEPT !.headers = more(@)]
    <3>1. H!header_found(m, line) = [m EXCEPT !.headers[Len(m.headers)].value = @ \o Tail(line),
                     !.headers[Len(m.headers)].all   = @ \o <<H!CR, H!LF>> \o line]
          BY <1>1, Folded
    <3>2. H!header_found(x, line) = [x EXCEPT !.headers[Len(x.headers)].value = @ \o Tail(line),
                     !.headers[Len(x.headers)].all   = @ \o <<H!CR, H!LF>> \o line]
          BY <1>1, <2>1, Folded
    <3>3. \A y : DOMAIN y = MessageFields =>
             [y EXCEPT !.headers[Len(y.headers)].value = @ \o Tail(line),
                     !.headers[Len(y.headers)].all   = @ \o <<H!CR, H!LF>> \o line]
             = [y EXCEPT !.headers = more(@)]
          BY ZenonT(60)
    <3> QED  BY <3>1, <3>2, <3>3 DEF Alike
  <2> HIDE DEF more
  <2> QED  BY <2>2 DEF Alike, MessageFields
<1>2. CASE H!IsHeader(line)
  <2>1. PICK h : h = [name |-> line[1][2], value |-> Tail(line), all |-> line]  OBVIOUS
  <2>2. /\ H!header_found(m, line) = [m EXCEPT !.headers = Append(@, h)]
        /\ H!header_found(x, line) = [x EXCEPT !.headers = Append(@, h)]
        BY <1>2, <2>1, Named
  <2> QED  BY <2>2 DEF Alike, MessageFields
<1>3. CASE ~H!IsHeader(line) /\ ~(line[1] = H!SP /\ m.headers # <<>>)
  <2>1. /\ H!header_found(m, line) = [m EXCEPT !.error = "syntax_error"]
        /\ H!header_found(x, line) = [x EXCEPT !.error = "syntax_error"]
        BY <1>3, Neither DEF Alike
  <2> QED  BY <2>1 DEF Alike, MessageFields
<1> QED  BY <1>1, <1>2, <1>3

LEMMA EndAlike ==
    ASSUME NEW m, NEW x, Alike(m, x)
    PROVE  H!end_of_request(m) = H!end_of_request(x)
<1>1. m.headers = x.headers /\ m.kind = x.kind  BY DEF Alike
<1>2. \A name : H!find_header(m, name) = H!find_header(x, name)  BY <1>1, Zenon DEF H!find_header
<1> QED  BY <1>1, <1>2 DEF H!end_of_request, H!HasHeader

States == {"expect_request_line", "expect_header"}

LEMMA LineAlike ==
    ASSUME NEW m, NEW x, Alike(m, x), m.parser_state \in States, NEW line
    PROVE  /\ Alike(H!crlf_found(m, line), H!crlf_found(x, line))
           /\ H!crlf_found(m, line).buffer = m.buffer
           /\ H!crlf_found(m, line).parser_state \in States
<1>1. CASE m.parser_state = "expect_request_line"
  <2>1. x.parser_state = "expect_request_line"  BY <1>1 DEF Alike
  <2>2. H!start_line_found(m, line) <=> H!start_line_found(x, line)
        BY DEF H!start_line_found, Alike
  <2>3. CASE line = <<>>
    <3>1. H!crlf_found(m, line) = m /\ H!crlf_found(x, line) = x  BY <1>1, <2>1, <2>3, First
    <3> QED  BY <3>1
  <2>4. CASE line # <<>> /\ H!start_line_found(m, line)
    <3>1. /\ H!crlf_found(m, line) = [m EXCEPT !.line = line, !.parser_state = "expect_header"]
          /\ H!crlf_found(x, line) = [x EXCEPT !.line = line, !.parser_state = "expect_header"]
          BY <1>1, <2>1, <2>2, <2>4, First
    <3> QED  BY <3>1 DEF Alike, MessageFields, States
  <2>5. CASE line # <<>> /\ ~H!start_line_found(m, line)
    <3>1. /\ H!crlf_found(m, line) = [m EXCEPT !.line = line, !.error = "syntax_error"]
          /\ H!crlf_found(x, line) = [x EXCEPT !.line = line, !.error = "syntax_error"]
          BY <1>1, <2>1, <2>2, <2>5, First
    <3> QED  BY <3>1 DEF Alike, MessageFields, States
  <2> QED  BY <2>3, <2>4, <2>5
<1>2. CASE m.parser_state = "expect_header"
  <2>1. x.parser_state = "expect_header"  BY <1>2 DEF Alike
  <2>2. CASE line = <<>>
    <3>1. PICK e : e = H!end_of_request(m) /\ e = H!end_of_request(x)  BY EndAlike
    <3>2. /\ H!crlf_found(m, line) = [m EXCEPT !.error = e]
          /\ H!crlf_found(x, line) = [x EXCEPT !.error = e]
          BY <1>2, <2>1, <2>2, <3>1, Second
    <3> QED  BY <1>2, <3>2 DEF Alike, MessageFields, States
  <2>3. CASE line # <<>>
    <3>1. /\ H!crlf_found(m, line) = H!header_found(m, line)
          /\ H!crlf_found(x, line) = H!header_found(x, line)
          BY <1>2, <2>1, <2>3, Second
    <3> QED  BY <1>2, <3>1, HeaderAlike DEF States
  <2> QED  BY <2>2, <2>3
<1> QED  BY <1>1, <1>2 DEF States

(* A message that is read: the pointers are in the buffer. *)
Parsing(m) ==
    /\ m = [f \in MessageFields |-> m[f]]
    /\ m.buffer \in Seq(Octets) /\ m.parser_state \in States
    /\ m.parse_ptr \in Nat /\ m.read_ptr \in Nat
    /\ m.parse_ptr <= m.read_ptr /\ m.read_ptr <= Len(m.buffer)

(* The first CR from j on, or the last character. *)
FirstEnd(b, j, i) ==
    /\ i \in j .. Len(b) - 1
    /\ \A k \in j .. i - 1 : b[k + 1] # H!CR
    /\ i < Len(b) - 1 => b[i + 1] = H!CR

LEMMA SeekFirst ==
    ASSUME NEW m, m.buffer \in Seq(Octets), NEW j \in 0 .. Len(m.buffer) - 1
    PROVE  FirstEnd(m.buffer, j, H!seek(m, j))
<1>1. PICK b : b = m.buffer  OBVIOUS
<1>2. PICK l \in Nat : l = Len(b)  BY <1>1
<1> DEFINE N == { k \in j .. l - 2 : b[k + 1] = H!CR }
<1>3. CASE N = {}
  <2>1. H!seek(m, j) = l - 1  BY <1>1, <1>2, <1>3 DEF H!seek
  <2>2. l - 1 \in j .. l - 1 /\ \A k \in j .. (l - 1) - 1 : b[k + 1] # H!CR
    <3>1. \A k \in j .. l - 2 : b[k + 1] # H!CR  BY <1>3
    <3>2. (l - 1) - 1 = l - 2 /\ l - 1 \in j .. l - 1  BY <1>1, <1>2
    <3> QED  BY <3>1, <3>2
  <2> QED  BY <1>1, <1>2, <2>1, <2>2 DEF FirstEnd
<1>4. CASE N # {}
  <2>1. N \subseteq Nat  BY <1>2
  <2>2. PICK x \in N : \A y \in N : x <= y  BY <1>4, <2>1, LeastNat
  <2>3. x \in j .. l - 2 /\ b[x + 1] = H!CR  BY <2>2
  <2>4. \A y \in j .. x - 1 : b[y + 1] # H!CR
    <3> SUFFICES ASSUME NEW y \in j .. x - 1, b[y + 1] = H!CR PROVE FALSE  OBVIOUS
    <3>1. y \in N /\ ~(x <= y)  BY <1>2, <2>3
    <3> QED  BY <2>2, <3>1
  <2> HIDE DEF N
  <2> DEFINE P(k) == k \in j .. l - 2 /\ b[k + 1] = H!CR /\ \A y \in j .. (k - 1) : b[y + 1] # H!CR
  <2>5. P(x)  BY <2>3, <2>4
  <2>6. H!seek(m, j) = CHOOSE k \in j .. l - 2 : b[k + 1] = H!CR /\ \A y \in j .. (k - 1) : b[y + 1] # H!CR
    <3>1. \E k \in j .. l - 2 : b[k + 1] = H!CR  BY <2>3
    <3> QED  BY <1>1, <1>2, <3>1 DEF H!seek
  <2>7. P(H!seek(m, j))  BY <2>5, <2>6
  <2>8. H!seek(m, j) \in j .. l - 1  BY <1>2, <2>7
  <2> QED  BY <1>1, <1>2, <2>7, <2>8 DEF FirstEnd
<1> QED  BY <1>3, <1>4

LEMMA FirstUnique ==
    ASSUME NEW b \in Seq(Octets), NEW j \in Nat, NEW i, NEW k, FirstEnd(b, j, i), FirstEnd(b, j, k)
    PROVE  i = k
<1>1. i \in Nat /\ k \in Nat /\ Len(b) \in Nat  BY DEF FirstEnd
<1>2. ASSUME i < k PROVE FALSE
  <2>1. i \in j .. k - 1 /\ i < Len(b) - 1  BY <1>1, <1>2 DEF FirstEnd
  <2> QED  BY <2>1 DEF FirstEnd
<1>3. ASSUME k < i PROVE FALSE
  <2>1. k \in j .. i - 1 /\ k < Len(b) - 1  BY <1>1, <1>3 DEF FirstEnd
  <2> QED  BY <2>1 DEF FirstEnd
<1> QED  BY <1>1, <1>2, <1>3

(* The beginning of a buffer to which something is added. *)
LEMMA Beginning ==
    ASSUME NEW b \in Seq(Octets), NEW d \in Seq(Octets)
    PROVE  /\ b \o d \in Seq(Octets) /\ Len(b \o d) = Len(b) + Len(d) /\ Len(b) <= Len(b \o d)
           /\ \A i \in 1 .. Len(b) : (b \o d)[i] = b[i]
OBVIOUS

LEMMA Ending ==
    ASSUME NEW b \in Seq(Octets), NEW d \in Seq(Octets), NEW i \in 1 .. Len(d)
    PROVE  (b \o d)[Len(b) + i] = d[i]
OBVIOUS

LEMMA Associative ==
    ASSUME NEW b \in Seq(Octets), NEW d \in Seq(Octets), NEW e \in Seq(Octets)
    PROVE  (b \o d) \o e = b \o (d \o e)
BY ConcatAssociative

(* One sequence and then another; opaque where only the order matters. *)
Cat(x, y) == x \o y

LEMMA CatAssociative ==
    ASSUME NEW x \in Seq(Octets), NEW y \in Seq(Octets), NEW z \in Seq(Octets)
    PROVE  Cat(Cat(x, y), z) = Cat(x, Cat(y, z))
<1>1. (x \o y) \o z = x \o (y \o z)  BY Associative
<1> QED  BY <1>1 DEF Cat

(* g is b, which is k long, and then d, which is l long. *)
OneThen(g, b, d, k, l) ==
    /\ g \in Seq(Octets) /\ k \in Nat /\ l \in Nat /\ Len(g) = k + l
    /\ \A i \in 1 .. k : g[i] = b[i]
    /\ \A i \in 1 .. l : g[k + i] = d[i]

LEMMA Joined ==
    ASSUME NEW b \in Seq(Octets), NEW d \in Seq(Octets), NEW g, g = Cat(b, d),
           NEW k, Len(b) = k, NEW l, Len(d) = l
    PROVE  OneThen(g, b, d, k, l)
<1>1. b \o d \in Seq(Octets) /\ Len(b \o d) = Len(b) + Len(d) /\ \A i \in 1 .. Len(b) : (b \o d)[i] = b[i]
      BY Beginning
<1>2. \A i \in 1 .. Len(d) : (b \o d)[Len(b) + i] = d[i]  BY Ending
<1>3. Len(b) \in Nat /\ Len(d) \in Nat  OBVIOUS
<1> QED  BY <1>1, <1>2, <1>3 DEF Cat, OneThen

LEMMA SamePart ==
    ASSUME NEW b \in Seq(Octets), NEW d \in Seq(Octets), NEW i \in Nat, NEW j \in Nat,
           1 <= i, j <= Len(b)
    PROVE  SubSeq(b \o d, i, j) = SubSeq(b, i, j)
<1>1. CASE j < i  BY <1>1, SubSeqEmpty
<1>2. CASE i <= j
  <2>1. i \in 1 .. Len(b) /\ j \in 1 .. Len(b)  BY <1>2
  <2> QED  BY <2>1, SubSeqOfConcat1
<1> QED  BY <1>1, <1>2

(* What more characters change about the end of the next line. *)
LEMMA FirstLonger ==
    ASSUME NEW b \in Seq(Octets), NEW d \in Seq(Octets), NEW j \in 0 .. Len(b) - 1, NEW i,
           FirstEnd(b, j, i)
    PROVE  /\ i < Len(b) - 1 => FirstEnd(b \o d, j, i)
           /\ i = Len(b) - 1 => \A k : FirstEnd(b \o d, i, k) => FirstEnd(b \o d, j, k)
<1>1. PICK c : c = b \o d  OBVIOUS
<1>2. /\ c \in Seq(Octets) /\ Len(c) \in Nat /\ Len(b) \in Nat /\ Len(b) <= Len(c)
      /\ \A k \in 1 .. Len(b) : c[k] = b[k]
      BY <1>1, Beginning
<1>3. i \in j .. Len(b) - 1 /\ i \in Nat /\ \A k \in j .. i - 1 : c[k + 1] # H!CR
  <2>1. i \in j .. Len(b) - 1  BY DEF FirstEnd
  <2>2. ASSUME NEW k \in j .. i - 1 PROVE c[k + 1] # H!CR
    <3>1. k + 1 \in 1 .. Len(b)  BY <1>2, <2>1
    <3> QED  BY <1>2, <3>1 DEF FirstEnd
  <2> QED  BY <2>1, <2>2
<1>4. ASSUME i < Len(b) - 1 PROVE FirstEnd(c, j, i)
  <2>1. c[i + 1] = H!CR
    <3>1. i + 1 \in 1 .. Len(b)  BY <1>2, <1>3
    <3> QED  BY <1>2, <1>4, <3>1 DEF FirstEnd
  <2>2. i \in j .. Len(c) - 1  BY <1>2, <1>3
  <2> QED  BY <1>3, <2>1, <2>2 DEF FirstEnd
<1>5. ASSUME i = Len(b) - 1, NEW k, FirstEnd(c, i, k) PROVE FirstEnd(c, j, k)
  <2>1. k \in i .. Len(c) - 1 /\ (k < Len(c) - 1 => c[k + 1] = H!CR)
        /\ \A l \in i .. k - 1 : c[l + 1] # H!CR
        BY <1>5 DEF FirstEnd
  <2>2. \A l \in j .. k - 1 : l \in j .. i - 1 \/ l \in i .. k - 1  BY <1>3, <2>1
  <2>3. k \in j .. Len(c) - 1  BY <1>2, <1>3, <2>1
  <2> QED  BY <1>3, <2>1, <2>2, <2>3 DEF FirstEnd
<1> QED  BY <1>1, <1>4, <1>5

Longer(m, d) == [m EXCEPT !.buffer = @ \o d]

(* parse_line() as seen from the end i of the line. *)
LineEnds(m, i, y) ==
    IF i >= Len(m.buffer) - 1 THEN y = [m EXCEPT !.read_ptr = i]
    ELSE IF m.buffer[i + 2] = H!LF
    THEN y = [H!crlf_found(m, SubSeq(m.buffer, m.parse_ptr + 1, i)) EXCEPT !.parse_ptr = i + 2, !.read_ptr = i + 2]
    ELSE y = [m EXCEPT !.read_ptr = i + 2]

LEMMA LineCases ==
    ASSUME NEW m, Parsing(m)
    PROVE  /\ m.error # "parsing" \/ m.read_ptr = Len(m.buffer) => H!parse_line(m) = m
           /\ m.error = "parsing" /\ m.read_ptr # Len(m.buffer) =>
                 /\ m.read_ptr \in 0 .. Len(m.buffer) - 1
                 /\ \E i : FirstEnd(m.buffer, m.read_ptr, i) /\ LineEnds(m, i, H!parse_line(m))
<1>1. m.error # "parsing" \/ m.read_ptr = Len(m.buffer) => H!parse_line(m) = m  BY DEF H!parse_line
<1>2. ASSUME m.error = "parsing", m.read_ptr # Len(m.buffer)
      PROVE  /\ m.read_ptr \in 0 .. Len(m.buffer) - 1
             /\ \E i : FirstEnd(m.buffer, m.read_ptr, i) /\ LineEnds(m, i, H!parse_line(m))
  <2>1. m.read_ptr \in 0 .. Len(m.buffer) - 1  BY <1>2 DEF Parsing
  <2>2. PICK i : i = H!seek(m, m.read_ptr)  OBVIOUS
  <2>3. FirstEnd(m.buffer, m.read_ptr, i)  BY <2>1, <2>2, SeekFirst DEF Parsing
  <2>4. LineEnds(m, i, H!parse_line(m))  BY <1>2, <2>2 DEF H!parse_line, LineEnds
  <2> QED  BY <2>1, <2>3, <2>4
<1> QED  BY <1>1, <1>2

LEMMA LineEndsOnce ==
    ASSUME NEW m, Parsing(m), m.error = "parsing", m.read_ptr # Len(m.buffer), NEW i,
           FirstEnd(m.buffer, m.read_ptr, i), NEW y, LineEnds(m, i, y)
    PROVE  H!parse_line(m) = y
<1>1. PICK k : FirstEnd(m.buffer, m.read_ptr, k) /\ LineEnds(m, k, H!parse_line(m))  BY LineCases
<1>2. i = k  BY <1>1, FirstUnique DEF Parsing
<1> QED  BY <1>1, <1>2 DEF LineEnds

(* A line leaves the buffer as it is and the pointers in it, and comes     *)
(* nearer to its end unless there is none.                                 *)
LEMMA LineStep ==
    ASSUME NEW m, Parsing(m)
    PROVE  /\ Parsing(H!parse_line(m)) /\ H!parse_line(m).buffer = m.buffer
           /\ H!parse_line(m) = m \/ H!parse_line(m).read_ptr > m.read_ptr
<1>1. CASE m.error # "parsing" \/ m.read_ptr = Len(m.buffer)
  <2>1. H!parse_line(m) = m  BY <1>1, LineCases
  <2> QED  BY <2>1
<1>2. CASE m.error = "parsing" /\ m.read_ptr # Len(m.buffer)
  <2>1. PICK y : y = H!parse_line(m)  OBVIOUS
  <2>2. PICK i : FirstEnd(m.buffer, m.read_ptr, i) /\ LineEnds(m, i, y)  BY <1>2, <2>1, LineCases
  <2>3. /\ i \in Nat /\ m.read_ptr <= i /\ i <= Len(m.buffer) - 1 /\ Len(m.buffer) \in Nat
        /\ m.read_ptr \in Nat /\ m.parse_ptr \in Nat /\ m.parse_ptr <= m.read_ptr
        /\ DOMAIN m = MessageFields /\ m.buffer \in Seq(Octets) /\ m.parser_state \in States
        /\ m = [f \in MessageFields |-> m[f]]
        BY <2>2 DEF FirstEnd, Parsing
  <2>4. CASE i >= Len(m.buffer) - 1
    <3>1. y = [m EXCEPT !.read_ptr = i]  BY <2>2, <2>4 DEF LineEnds
    <3>2. /\ DOMAIN y = MessageFields /\ y = [f \in MessageFields |-> y[f]] /\ y.read_ptr = i /\ y.buffer = m.buffer
          /\ y.parse_ptr = m.parse_ptr /\ y.parser_state = m.parser_state
          BY <2>3, <3>1 DEF MessageFields
    <3>3. Parsing(y)  BY <2>3, <3>2 DEF Parsing
    <3>4. i = m.read_ptr \/ i > m.read_ptr  BY <2>3
    <3>5. CASE i > m.read_ptr  BY <2>1, <3>2, <3>3, <3>5
    <3>6. CASE i = m.read_ptr
      <4>1. y = m  BY <2>3, <3>1, <3>6
      <4> QED  BY <2>1, <3>2, <3>3, <4>1 DEF Parsing
    <3> QED  BY <3>4, <3>5, <3>6
  <2>5. CASE i < Len(m.buffer) - 1
    <3>1. /\ DOMAIN y = MessageFields /\ y = [f \in MessageFields |-> y[f]] /\ y.buffer = m.buffer /\ y.parser_state \in States
          /\ y.read_ptr = i + 2 /\ y.parse_ptr \in {m.parse_ptr, i + 2}
      <4>1. CASE m.buffer[i + 2] = H!LF
        <5>1. PICK c : c = H!crlf_found(m, SubSeq(m.buffer, m.parse_ptr + 1, i))  OBVIOUS
        <5>2. Alike(m, m)  BY <2>3 DEF Alike
        <5>3. DOMAIN c = MessageFields /\ c.buffer = m.buffer /\ c.parser_state \in States
              BY <2>3, <5>1, <5>2, LineAlike DEF Alike
        <5>4. y = [c EXCEPT !.parse_ptr = i + 2, !.read_ptr = i + 2]
              BY <2>2, <2>3, <2>5, <4>1, <5>1 DEF LineEnds
        <5> QED  BY <5>3, <5>4 DEF MessageFields
      <4>2. CASE m.buffer[i + 2] # H!LF
        <5>1. y = [m EXCEPT !.read_ptr = i + 2]  BY <2>2, <2>3, <2>5, <4>2 DEF LineEnds
        <5> QED  BY <2>3, <5>1 DEF MessageFields
      <4> QED  BY <4>1, <4>2
    <3>2. Parsing(y) /\ y.read_ptr > m.read_ptr
      <4>1. y.read_ptr \in Nat /\ y.parse_ptr \in Nat /\ y.parse_ptr <= y.read_ptr
            /\ y.read_ptr <= Len(m.buffer) /\ y.read_ptr > m.read_ptr
            BY <2>3, <2>5, <3>1
      <4> QED  BY <2>3, <3>1, <4>1 DEF Parsing
    <3> QED  BY <2>1, <3>1, <3>2
  <2> QED  BY <2>3, <2>4, <2>5
<1> QED  BY <1>1, <1>2

LEMMA LongerFields ==
    ASSUME NEW m, Parsing(m), NEW d \in Seq(Octets)
    PROVE  /\ Parsing(Longer(m, d)) /\ Alike(m, Longer(m, d))
           /\ Longer(m, d).buffer = m.buffer \o d
           /\ Longer(m, d).parse_ptr = m.parse_ptr /\ Longer(m, d).read_ptr = m.read_ptr
<1>1. PICK e : e = Longer(m, d)  OBVIOUS
<1>2. DOMAIN m = MessageFields /\ m.buffer \in Seq(Octets)  BY DEF Parsing
<1>3. /\ e = [f \in MessageFields |-> e[f]] /\ e.buffer = m.buffer \o d
      /\ e.kind = m.kind /\ e.error = m.error /\ e.parser_state = m.parser_state
      /\ e.line = m.line /\ e.headers = m.headers
      /\ e.parse_ptr = m.parse_ptr /\ e.read_ptr = m.read_ptr
      BY <1>1, <1>2 DEF Longer, MessageFields
<1>4. m.buffer \o d \in Seq(Octets) /\ Len(m.buffer) <= Len(m.buffer \o d)  BY <1>2, Beginning
<1>5. Len(m.buffer) \in Nat /\ Len(e.buffer) \in Nat  BY <1>2, <1>3, <1>4
<1>6. Parsing(e)
  <2>1. /\ m.read_ptr \in Nat /\ m.parse_ptr \in Nat /\ m.parse_ptr <= m.read_ptr
        /\ m.read_ptr <= Len(m.buffer) /\ m.parser_state \in States
        BY DEF Parsing
  <2>2. Len(m.buffer) <= Len(e.buffer) /\ e.buffer \in Seq(Octets)  BY <1>3, <1>4
  <2>3. e.read_ptr <= Len(e.buffer)  BY <1>3, <1>5, <2>1, <2>2
  <2> QED  BY <1>3, <2>1, <2>2, <2>3 DEF Parsing
<1>7. DOMAIN e = MessageFields  BY <1>3
<1> QED  BY <1>1, <1>2, <1>3, <1>6, <1>7 DEF Alike

(* A line that was complete is found with more characters, too; one that   *)
(* was not is looked for from where it was given up.                       *)
LEMMA LineLonger ==
    ASSUME NEW m, Parsing(m), NEW d \in Seq(Octets)
    PROVE  \/ H!parse_line(Longer(m, d)) = Longer(H!parse_line(m), d)
           \/ H!parse_line(Longer(m, d)) = H!parse_line(Longer(H!parse_line(m), d))
<1>1. PICK y : y = H!parse_line(m)  OBVIOUS
<1>2. CASE m.error # "parsing" \/ m.read_ptr = Len(m.buffer)
  <2>1. y = m  BY <1>1, <1>2, LineCases
  <2> QED  BY <1>1, <2>1
<1>3. CASE m.error = "parsing" /\ m.read_ptr # Len(m.buffer)
  <2>1. PICK i : FirstEnd(m.buffer, m.read_ptr, i) /\ LineEnds(m, i, y)
        BY <1>1, <1>3, LineCases
  <2>2. m.read_ptr \in 0 .. Len(m.buffer) - 1  BY <1>3, LineCases
  <2>3. /\ i \in Nat /\ m.read_ptr <= i /\ i <= Len(m.buffer) - 1 /\ Len(m.buffer) \in Nat
        /\ m.buffer \in Seq(Octets) /\ m.parse_ptr \in Nat /\ m.parse_ptr <= i
        /\ DOMAIN m = MessageFields /\ m = [f \in MessageFields |-> m[f]]
        /\ m.parser_state \in States
        BY <2>1 DEF FirstEnd, Parsing
  <2>4. PICK e : e = Longer(m, d)  OBVIOUS
  <2>5. /\ Parsing(e) /\ Alike(m, e) /\ e.buffer = m.buffer \o d
        /\ e.parse_ptr = m.parse_ptr /\ e.read_ptr = m.read_ptr
        BY <2>4, LongerFields
  <2>6. /\ Len(e.buffer) \in Nat /\ Len(m.buffer) <= Len(e.buffer)
        /\ \A k \in 1 .. Len(m.buffer) : e.buffer[k] = m.buffer[k]
        /\ SubSeq(e.buffer, m.parse_ptr + 1, i) = SubSeq(m.buffer, m.parse_ptr + 1, i)
    <3>1. /\ Len(e.buffer) \in Nat /\ Len(m.buffer) <= Len(e.buffer)
          /\ \A k \in 1 .. Len(m.buffer) : e.buffer[k] = m.buffer[k]
      <4>1. e.buffer \in Seq(Octets)  BY <2>5 DEF Parsing
      <4> QED  BY <2>3, <2>5, <4>1, Beginning
    <3>2. m.parse_ptr + 1 \in Nat /\ 1 <= m.parse_ptr + 1 /\ i <= Len(m.buffer)  BY <2>3
    <3>3. SubSeq(m.buffer \o d, m.parse_ptr + 1, i) = SubSeq(m.buffer, m.parse_ptr + 1, i)
      <4>1. PICK j \in Nat : j = m.parse_ptr + 1  BY <3>2
      <4>2. PICK b \in Seq(Octets) : b = m.buffer  BY <2>3
      <4>3. SubSeq(b \o d, j, i) = SubSeq(b, j, i)
        <5>1. 1 <= j /\ i <= Len(b) /\ i \in Nat  BY <2>3, <3>2, <4>1, <4>2
        <5> QED  BY <5>1, SamePart
      <4> QED  BY <4>1, <4>2, <4>3
    <3> QED  BY <2>5, <3>1, <3>3
  <2>7. e.error = "parsing" /\ e.read_ptr # Len(e.buffer)
    <3>1. e.error = "parsing"  BY <1>3, <2>5 DEF Alike
    <3> QED  BY <2>3, <2>5, <2>6, <3>1
  <2>8. CASE i < Len(m.buffer) - 1
    <3>1. FirstEnd(e.buffer, e.read_ptr, i)  BY <2>1, <2>2, <2>3, <2>5, <2>8, FirstLonger
    <3>2. Parsing(y)  BY <1>1, LineStep
    <3>3. PICK z : z = Longer(y, d)  OBVIOUS
    <3>4. i + 2 \in 1 .. Len(m.buffer) /\ ~(i >= Len(m.buffer) - 1) /\ ~(i >= Len(e.buffer) - 1)
      <4>1. PICK k \in Nat, l \in Nat : k = Len(m.buffer) /\ l = Len(e.buffer)  BY <2>3, <2>6
      <4>2. i \in Nat /\ k <= l /\ i < k - 1  BY <2>3, <2>6, <2>8, <4>1
      <4>3. i + 2 \in 1 .. k /\ ~(i >= k - 1) /\ ~(i >= l - 1)  BY <4>2
      <4> QED  BY <4>1, <4>3
    <3>5. LineEnds(e, i, z)
      <4>1. CASE m.buffer[i + 2] = H!LF
        <5>1. PICK l : l = SubSeq(m.buffer, m.parse_ptr + 1, i)  OBVIOUS
        <5>2. PICK c : c = H!crlf_found(m, l)  OBVIOUS
        <5>3. PICK g : g = H!crlf_found(e, l)  OBVIOUS
        <5>4. Alike(c, g) /\ c.buffer = m.buffer  BY <2>3, <2>5, <5>2, <5>3, LineAlike
        <5>5. g.buffer = e.buffer
          <6>1. Alike(e, e) /\ e.parser_state \in States  BY <2>3, <2>5 DEF Alike
          <6> QED  BY <5>3, <6>1, LineAlike
        <5>6. y = [c EXCEPT !.parse_ptr = i + 2, !.read_ptr = i + 2]
              BY <2>1, <3>4, <4>1, <5>1, <5>2 DEF LineEnds
        <5>7. z = [g EXCEPT !.parse_ptr = i + 2, !.read_ptr = i + 2]
          <6>1. DOMAIN c = MessageFields /\ DOMAIN g = MessageFields  BY <5>4 DEF Alike
          <6>2. y.buffer = m.buffer /\ DOMAIN y = MessageFields  BY <5>4, <5>6, <6>1 DEF MessageFields
          <6>3. z = [y EXCEPT !.buffer = g.buffer]  BY <2>5, <3>3, <5>5, <6>2 DEF Longer
          <6> QED  BY <5>4, <5>6, <6>1, <6>3 DEF Alike, MessageFields
        <5>8. e.buffer[i + 2] = H!LF  BY <2>6, <3>4, <4>1
        <5>9. g = H!crlf_found(e, SubSeq(e.buffer, e.parse_ptr + 1, i))
              BY <2>5, <2>6, <5>1, <5>3
        <5> QED  BY <3>4, <5>7, <5>8, <5>9 DEF LineEnds
      <4>2. CASE m.buffer[i + 2] # H!LF
        <5>1. y = [m EXCEPT !.read_ptr = i + 2]  BY <2>1, <3>4, <4>2 DEF LineEnds
        <5>2. z = [e EXCEPT !.read_ptr = i + 2]
              BY <2>3, <2>4, <3>3, <5>1 DEF Longer, MessageFields
        <5>3. e.buffer[i + 2] # H!LF  BY <2>6, <3>4, <4>2
        <5> QED  BY <3>4, <5>2, <5>3 DEF LineEnds
      <4> QED  BY <4>1, <4>2
    <3>6. H!parse_line(e) = z  BY <2>5, <2>7, <3>1, <3>5, LineEndsOnce
    <3> QED  BY <1>1, <2>4, <3>3, <3>6
  <2>9. CASE i = Len(m.buffer) - 1
    <3>1. y = [m EXCEPT !.read_ptr = i]  BY <2>1, <2>3, <2>9 DEF LineEnds
    <3>2. Parsing(y)  BY <1>1, LineStep
    <3>3. PICK z : z = Longer(y, d)  OBVIOUS
    <3>4. /\ Parsing(z) /\ Alike(y, z) /\ z.buffer = y.buffer \o d
          /\ z.parse_ptr = y.parse_ptr /\ z.read_ptr = y.read_ptr
          BY <3>2, <3>3, LongerFields
    <3>5. /\ y.buffer = m.buffer /\ y.parse_ptr = m.parse_ptr /\ y.read_ptr = i /\ Alike(m, y)
          BY <2>3, <3>1 DEF MessageFields, Alike
    <3>6. /\ z.buffer = e.buffer /\ z.parse_ptr = e.parse_ptr /\ z.read_ptr = i /\ Alike(e, z)
          BY <2>5, <3>4, <3>5 DEF Alike
    <3>7. z.error = "parsing" /\ z.read_ptr # Len(z.buffer)
      <4>1. z.error = "parsing"  BY <2>7, <3>6 DEF Alike
      <4> QED  BY <2>3, <2>6, <2>9, <3>6, <4>1
    <3>8. PICK k : FirstEnd(z.buffer, z.read_ptr, k) /\ LineEnds(z, k, H!parse_line(z))
          BY <3>4, <3>7, LineCases
    <3>9. FirstEnd(e.buffer, e.read_ptr, k)
      <4>1. FirstEnd(m.buffer \o d, i, k)  BY <2>5, <3>6, <3>8
      <4>2. FirstEnd(m.buffer \o d, m.read_ptr, k)
            BY <2>1, <2>2, <2>3, <2>9, <4>1, FirstLonger
      <4> QED  BY <2>5, <4>2
    <3>10. LineEnds(e, k, H!parse_line(z))
      <4>1. PICK w : w = H!parse_line(z)  OBVIOUS
      <4>2. LineEnds(z, k, w)  BY <3>8, <4>1
      <4>3. /\ DOMAIN e = MessageFields /\ DOMAIN z = MessageFields
            /\ e = [f \in MessageFields |-> e[f]] /\ z = [f \in MessageFields |-> z[f]]
            BY <2>5, <3>4 DEF Parsing
      <4>4. \A x : [e EXCEPT !.read_ptr = x] = [z EXCEPT !.read_ptr = x]
            BY <3>6, <4>3 DEF Alike, MessageFields
      <4>5. \A l, x : [H!crlf_found(e, l) EXCEPT !.parse_ptr = x, !.read_ptr = x]
                      = [H!crlf_found(z, l) EXCEPT !.parse_ptr = x, !.read_ptr = x]
        <5> SUFFICES ASSUME NEW l, NEW x
                     PROVE  [H!crlf_found(e, l) EXCEPT !.parse_ptr = x, !.read_ptr = x]
                            = [H!crlf_found(z, l) EXCEPT !.parse_ptr = x, !.read_ptr = x]
            OBVIOUS
        <5>1. PICK c : c = H!crlf_found(e, l)  OBVIOUS
        <5>2. PICK g : g = H!crlf_found(z, l)  OBVIOUS
        <5>3. e.parser_state \in States /\ z.parser_state \in States  BY <2>5, <3>4 DEF Parsing
        <5>4. Alike(z, z)  BY <3>6 DEF Alike
        <5>5. Alike(c, g) /\ c.buffer = e.buffer  BY <3>6, <5>1, <5>2, <5>3, LineAlike
        <5>6. g.buffer = z.buffer  BY <5>2, <5>3, <5>4, LineAlike
        <5>7. [c EXCEPT !.parse_ptr = x, !.read_ptr = x] = [g EXCEPT !.parse_ptr = x, !.read_ptr = x]
              BY <3>6, <5>5, <5>6 DEF Alike, MessageFields
        <5> QED  BY <5>1, <5>2, <5>7
      <4>6. LineEnds(e, k, w)
        <5>1. CASE k >= Len(e.buffer) - 1
          <6>1. w = [z EXCEPT !.read_ptr = k]  BY <3>6, <4>2, <5>1 DEF LineEnds
          <6> QED  BY <4>4, <5>1, <6>1 DEF LineEnds
        <5>2. CASE ~(k >= Len(e.buffer) - 1) /\ e.buffer[k + 2] = H!LF
          <6>1. w = [H!crlf_found(z, SubSeq(e.buffer, e.parse_ptr + 1, k)) EXCEPT
                        !.parse_ptr = k + 2, !.read_ptr = k + 2]
                BY <3>6, <4>2, <5>2 DEF LineEnds
          <6> QED  BY <4>5, <5>2, <6>1 DEF LineEnds
        <5>3. CASE ~(k >= Len(e.buffer) - 1) /\ e.buffer[k + 2] # H!LF
          <6>1. w = [z EXCEPT !.read_ptr = k + 2]  BY <3>6, <4>2, <5>3 DEF LineEnds
          <6> QED  BY <4>4, <5>3, <6>1 DEF LineEnds
        <5> QED  BY <5>1, <5>2, <5>3
      <4> QED  BY <4>1, <4>6
    <3>11. H!parse_line(e) = H!parse_line(z)  BY <2>5, <2>7, <3>9, <3>10, LineEndsOnce
    <3> QED  BY <1>1, <2>4, <3>3, <3>11
  <2> QED  BY <2>3, <2>8, <2>9
<1> QED  BY <1>2, <1>3

(* The message after n lines, and after all of them. *)
Line(m, n) == Lines(m, n)[n]

Done(m) == Line(m, Len(m.buffer))

LEMMA LinesAt ==
    ASSUME NEW m, NEW k \in Nat, NEW n \in 0 .. k
    PROVE  Lines(m, k)[n] = IF n = 0 THEN m ELSE H!parse_line(Lines(m, k)[n - 1])
<1>1. PICK f : f = Lines(m, k)  OBVIOUS
<1>2. f = [i \in 0 .. k |-> IF i = 0 THEN m ELSE H!parse_line(f[i - 1])]  BY <1>1, LinesDef
<1>3. f[n] = IF n = 0 THEN m ELSE H!parse_line(f[n - 1])  BY <1>2
<1> QED  BY <1>1, <1>3

LEMMA LineNext ==
    ASSUME NEW m, NEW n \in Nat
    PROVE  Line(m, 0) = m /\ Line(m, n + 1) = H!parse_line(Line(m, n))
<1>0. \A k \in Nat : Lines(m, k)[0] = m
  <2> SUFFICES ASSUME NEW k \in Nat PROVE Lines(m, k)[0] = m  OBVIOUS
  <2>1. 0 \in 0 .. k  OBVIOUS
  <2> QED  BY <2>1, LinesAt
<1>1. Line(m, 0) = m  BY <1>0 DEF Line
<1>2. PICK f : f = Lines(m, n)  OBVIOUS
<1>3. PICK g : g = Lines(m, n + 1)  OBVIOUS
<1> DEFINE N == { i \in Nat : i <= n => g[i] = f[i] }
<1>4. 0 \in N  BY <1>0, <1>2, <1>3
<1>5. ASSUME NEW i \in Nat, i \in N PROVE i + 1 \in N
  <2> SUFFICES ASSUME i + 1 <= n PROVE g[i + 1] = f[i + 1]  OBVIOUS
  <2>1. PICK j \in Nat : j = i + 1 /\ j # 0 /\ j - 1 = i  OBVIOUS
  <2>2. j \in 0 .. n /\ j \in 0 .. n + 1 /\ i <= n /\ n + 1 \in Nat  BY <2>1
  <2>3. f[j] = H!parse_line(f[i])  BY <1>2, <2>1, <2>2, LinesAt
  <2>4. g[j] = H!parse_line(g[i])  BY <1>3, <2>1, <2>2, LinesAt
  <2>5. g[i] = f[i]  BY <1>5, <2>2
  <2> QED  BY <2>1, <2>3, <2>4, <2>5
<1> HIDE DEF N
<1>6. n \in N  BY <1>4, <1>5, AllNumbers
<1>7. g[n] = f[n]  BY <1>6 DEF N
<1>8. g[n + 1] = H!parse_line(g[n])
  <2>1. PICK j \in Nat : j = n + 1 /\ j # 0 /\ j - 1 = n  OBVIOUS
  <2>2. j \in 0 .. j  BY <2>1
  <2> QED  BY <1>3, <2>1, <2>2, LinesAt
<1> QED  BY <1>1, <1>2, <1>3, <1>7, <1>8 DEF Line

(* What holds of the messages on the way, and that all lines are read in   *)
(* fewer steps than there are characters.                                  *)
LEMMA LineSettles ==
    ASSUME NEW m, Parsing(m), NEW n \in Nat
    PROVE  /\ Parsing(Line(m, n)) /\ Line(m, n).buffer = m.buffer
           /\ H!parse_line(Line(m, n)) = Line(m, n) \/ Line(m, n).read_ptr >= n
<1> DEFINE N == { i \in Nat : /\ Parsing(Line(m, i)) /\ Line(m, i).buffer = m.buffer
                              /\ H!parse_line(Line(m, i)) = Line(m, i) \/ Line(m, i).read_ptr >= i }
<1>1. 0 \in N
  <2>1. Line(m, 0) = m  BY LineNext
  <2>2. m.read_ptr >= 0  BY DEF Parsing
  <2> QED  BY <2>1, <2>2
<1>2. ASSUME NEW i \in Nat, i \in N PROVE i + 1 \in N
  <2>1. PICK x : x = Line(m, i)  OBVIOUS
  <2>2. PICK y : y = Line(m, i + 1)  OBVIOUS
  <2>3. y = H!parse_line(x)  BY <2>1, <2>2, LineNext
  <2>4. Parsing(x) /\ x.buffer = m.buffer /\ (y = x \/ x.read_ptr >= i)  BY <1>2, <2>1, <2>3
  <2>5. Parsing(y) /\ y.buffer = x.buffer /\ (y = x \/ y.read_ptr > x.read_ptr)
        BY <2>3, <2>4, LineStep
  <2>6. y = x \/ y.read_ptr >= i + 1
    <3>1. x.read_ptr \in Nat /\ y.read_ptr \in Nat  BY <2>4, <2>5 DEF Parsing
    <3> QED  BY <2>4, <2>5, <3>1
  <2>7. H!parse_line(y) = y \/ y.read_ptr >= i + 1  BY <2>3, <2>6
  <2> QED  BY <2>2, <2>4, <2>5, <2>7
<1> HIDE DEF N
<1>3. n \in N  BY <1>1, <1>2, AllNumbers
<1> QED  BY <1>3 DEF N

LEMMA AllLines ==
    ASSUME NEW m, Parsing(m)
    PROVE  /\ Parsing(Done(m)) /\ Done(m).buffer = m.buffer /\ H!parse_line(Done(m)) = Done(m)
           /\ Len(m.buffer) \in Nat
<1>1. PICK l \in Nat : l = Len(m.buffer)  BY DEF Parsing
<1>2. PICK x : x = Line(m, l)  OBVIOUS
<1>3. Parsing(x) /\ x.buffer = m.buffer /\ (H!parse_line(x) = x \/ x.read_ptr >= l)
      BY <1>2, LineSettles
<1>4. x.read_ptr >= l => H!parse_line(x) = x
  <2>1. x.read_ptr >= l => x.read_ptr = Len(x.buffer)  BY <1>1, <1>3 DEF Parsing
  <2> QED  BY <1>3, <2>1, LineCases
<1> QED  BY <1>1, <1>2, <1>3, <1>4 DEF Done

(* It does not matter whether the first line was read before. *)
LEMMA OneLineAhead ==
    ASSUME NEW m, Parsing(m)
    PROVE  Done(H!parse_line(m)) = Done(m)
<1>1. PICK y : y = H!parse_line(m)  OBVIOUS
<1>2. PICK l \in Nat : l = Len(m.buffer)  BY DEF Parsing
<1>3. Len(y.buffer) = l  BY <1>1, <1>2, LineStep
<1> DEFINE N == { n \in Nat : Line(y, n) = Line(m, n + 1) }
<1>4. 0 \in N
  <2>1. Line(y, 0) = y /\ Line(m, 0) = m  BY LineNext
  <2>2. Line(m, 0 + 1) = H!parse_line(Line(m, 0))  BY LineNext
  <2> QED  BY <1>1, <2>1, <2>2
<1>5. ASSUME NEW n \in Nat, n \in N PROVE n + 1 \in N
  <2>1. PICK k \in Nat : k = n + 1  OBVIOUS
  <2>2. Line(y, k) = H!parse_line(Line(y, n))  BY <2>1, LineNext
  <2>3. Line(m, k + 1) = H!parse_line(Line(m, k))  BY <2>1, LineNext
  <2>4. Line(y, n) = Line(m, k)  BY <1>5, <2>1
  <2> QED  BY <2>1, <2>2, <2>3, <2>4
<1> HIDE DEF N
<1>6. l \in N  BY <1>4, <1>5, AllNumbers
<1>7. Line(y, l) = Line(m, l + 1)  BY <1>6 DEF N
<1>8. Line(m, l + 1) = H!parse_line(Line(m, l))  BY LineNext
<1>9. H!parse_line(Line(m, l)) = Line(m, l)  BY <1>2, AllLines DEF Done
<1> QED  BY <1>1, <1>2, <1>3, <1>7, <1>8, <1>9 DEF Done

(* What has been read before the rest arrives makes no difference. *)
LEMMA ReadAhead ==
    ASSUME NEW m, Parsing(m), NEW d \in Seq(Octets)
    PROVE  Done(Longer(Done(m), d)) = Done(Longer(m, d))
<1> DEFINE N == { n \in Nat : Done(Longer(Line(m, n), d)) = Done(Longer(m, d)) }
<1>1. 0 \in N
  <2>1. Line(m, 0) = m  BY LineNext
  <2> QED  BY <2>1
<1>2. ASSUME NEW n \in Nat, n \in N PROVE n + 1 \in N
  <2>1. PICK x : x = Line(m, n)  OBVIOUS
  <2>2. PICK y : y = Line(m, n + 1)  OBVIOUS
  <2>3. y = H!parse_line(x)  BY <2>1, <2>2, LineNext
  <2>4. Parsing(x)  BY <2>1, LineSettles
  <2>5. Parsing(y)  BY <2>3, <2>4, LineStep
  <2>6. PICK a : a = Longer(x, d)  OBVIOUS
  <2>7. PICK b : b = Longer(y, d)  OBVIOUS
  <2>8. Parsing(a) /\ Parsing(b)  BY <2>4, <2>5, <2>6, <2>7, LongerFields
  <2>9. H!parse_line(a) = b \/ H!parse_line(a) = H!parse_line(b)
        BY <2>3, <2>4, <2>6, <2>7, LineLonger
  <2>10. Done(a) = Done(b)  BY <2>8, <2>9, OneLineAhead
  <2>11. Done(a) = Done(Longer(m, d))  BY <1>2, <2>1, <2>6
  <2> QED  BY <2>2, <2>7, <2>10, <2>11
<1> HIDE DEF N
<1>3. PICK l \in Nat : l = Len(m.buffer)  BY DEF Parsing
<1>4. l \in N  BY <1>1, <1>2, AllNumbers
<1> QED  BY <1>3, <1>4 DEF N, Done

LEMMA Parsed ==
    ASSUME NEW m, Parsing(m), NEW d \in Seq(Octets)
    PROVE  /\ H!parse(m, d) = H!BufferFull(Done(Longer(m, d)))
           /\ Parsing(Longer(m, d)) /\ Parsing(H!parse(m, d)) /\ H!parse(m, d).buffer = m.buffer \o d
           /\ H!parse(m, d).error = "parsing" => Len(m.buffer \o d) # BufferSize
           /\ H!parse(m, d).error # "buffer_full" => H!parse(m, d) = Done(Longer(m, d))
<1>1. PICK a : a = Longer(m, d)  OBVIOUS
<1>2. Parsing(a) /\ a.buffer = m.buffer \o d  BY <1>1, LongerFields
<1>3. PICK x : x = Done(a)  OBVIOUS
<1>4. Parsing(x) /\ x.buffer = m.buffer \o d  BY <1>2, <1>3, AllLines
<1>5. H!parse(m, d) = H!BufferFull(x)  BY <1>1, <1>3, ParseDef DEF Longer, Done, Line
<1>6. PICK y : y = H!BufferFull(x)  OBVIOUS
<1>7. /\ Parsing(y) /\ y.buffer = m.buffer \o d
      /\ (y.error = "parsing" => Len(m.buffer \o d) # BufferSize)
      /\ (y.error # "buffer_full" => y = x)
  <2>1. CASE Len(x.buffer) = BufferSize /\ x.error = "parsing"
    <3>1. y = [x EXCEPT !.error = "buffer_full"]  BY <1>6, <2>1 DEF H!BufferFull
    <3>2. x = [f \in MessageFields |-> x[f]]  BY <1>4 DEF Parsing
    <3>3. /\ y = [f \in MessageFields |-> y[f]] /\ y.error = "buffer_full"
          /\ y.buffer = x.buffer /\ y.parser_state = x.parser_state /\ y.parse_ptr = x.parse_ptr
          /\ y.read_ptr = x.read_ptr
          BY <3>1, <3>2 DEF MessageFields
    <3> QED  BY <1>4, <3>3 DEF Parsing
  <2>2. CASE ~(Len(x.buffer) = BufferSize /\ x.error = "parsing")
    <3>1. y = x  BY <1>6, <2>2 DEF H!BufferFull
    <3> QED  BY <1>4, <2>2, <3>1
  <2> QED  BY <2>1, <2>2
<1> QED  BY <1>1, <1>2, <1>3, <1>5, <1>6, <1>7

(* A header is understood in the same way however the network cuts it into *)
(* pieces (message.cpp:96): parsing the rest of it after a first part      *)
(* gives the message that both of them in one piece give.                  *)
THEOREM HeaderInPieces ==
    ASSUME NEW m, Parsing(m), NEW first \in Seq(Octets), NEW rest \in Seq(Octets),
           H!parse(m, first).error # "buffer_full"
    PROVE  H!parse(H!parse(m, first), rest) = H!parse(m, first \o rest)
<1>1. PICK x : x = H!parse(m, first)  OBVIOUS
<1>2. PICK a : a = Longer(m, first)  OBVIOUS
<1>3. x = Done(a) /\ Parsing(x) /\ Parsing(a)  BY <1>1, <1>2, Parsed
<1>4. H!parse(x, rest) = H!BufferFull(Done(Longer(x, rest)))  BY <1>3, Parsed
<1>5. Done(Longer(x, rest)) = Done(Longer(a, rest))  BY <1>3, ReadAhead
<1>6. Longer(a, rest) = Longer(m, first \o rest)
  <2>1. m.buffer \in Seq(Octets) /\ m = [f \in MessageFields |-> m[f]]  BY DEF Parsing
  <2>2. (m.buffer \o first) \o rest = m.buffer \o (first \o rest)  BY <2>1, Associative
  <2>3. a.buffer = m.buffer \o first  BY <1>2, LongerFields
  <2>4. PICK c : c = m.buffer \o (first \o rest)  OBVIOUS
  <2>5. Longer(a, rest) = [a EXCEPT !.buffer = c]  BY <2>2, <2>3, <2>4 DEF Longer
  <2>6. Longer(m, first \o rest) = [m EXCEPT !.buffer = c]  BY <2>4 DEF Longer
  <2>7. PICK b : b = m.buffer \o first  OBVIOUS
  <2>8. a = [m EXCEPT !.buffer = b]  BY <1>2, <2>7 DEF Longer
  <2> QED  BY <2>1, <2>5, <2>6, <2>8 DEF MessageFields
<1>7. first \o rest \in Seq(Octets)  OBVIOUS
<1>8. H!parse(m, first \o rest) = H!BufferFull(Done(Longer(m, first \o rest)))  BY <1>7, Parsed
<1> QED  BY <1>1, <1>4, <1>5, <1>6, <1>8

-----------------------------------------------------------------------------
(* The ring of TransferBuffer *)

USE PoolAssumption, ProxyAssumption

BufferFields ==
    {"buffer", "unparsed", "start", "end", "body_size", "state", "current_chunk", "chunked_state",
     "error"}

(* The places of the ring that hold data, in order. *)
Filled(t) == IF t.start > t.end THEN Size - t.start + t.end ELSE t.end - t.start

Place(t, k) == IF t.start + k - 1 < Size THEN t.start + k - 1 ELSE t.start + k - 1 - Size

Content(t) == [k \in 1 .. Filled(t) |-> t.buffer[Place(t, k)]]

(* Where the next character is read to. *)
From(t) == IF t.end = Size THEN 0 ELSE t.end

(* How much of the content is in one piece. *)
Contiguous(t) == (IF t.start > t.end THEN Size ELSE t.end) - t.start

RingType(t) ==
    /\ DOMAIN t = BufferFields
    /\ DOMAIN t.buffer = 0 .. Size - 1 /\ t.unparsed \in Seq(Octets)
    /\ t.start \in 0 .. Size - 1 /\ t.end \in 0 .. Size
    /\ \A k \in 1 .. Filled(t) : t.buffer[Place(t, k)] \in Octets

(* size places from at on are free, and stay so while others are emptied. *)
Room(t, at, size) ==
    /\ at = From(t) /\ size \in Nat /\ at + size <= Size
    /\ t.start > t.end \/ t.end = Size => at + size < t.start

LEMMA ContentType ==
    ASSUME NEW t, RingType(t)
    PROVE  /\ Filled(t) \in Nat /\ Content(t) \in Seq(Octets) /\ Len(Content(t)) = Filled(t)
           /\ \A k \in 1 .. Filled(t) : Place(t, k) \in 0 .. Size - 1
<1>1. t.start \in 0 .. Size - 1 /\ t.end \in 0 .. Size  BY DEF RingType
<1>2. Filled(t) \in Nat  BY <1>1 DEF Filled
<1>3. ASSUME NEW k \in 1 .. Filled(t) PROVE Place(t, k) \in 0 .. Size - 1
      BY <1>1 DEF Filled, Place
<1>4. PICK n \in Nat : n = Filled(t)  BY <1>2
<1>5. \A k \in 1 .. n : t.buffer[Place(t, k)] \in Octets  BY <1>4 DEF RingType
<1>6. PICK c : c = [k \in 1 .. n |-> t.buffer[Place(t, k)]]  OBVIOUS
<1>7. c \in Seq(Octets) /\ Len(c) = n  BY <1>5, <1>6
<1> QED  BY <1>2, <1>3, <1>4, <1>6, <1>7 DEF Content

(* The same in numbers: s and e are the start and the end of the region    *)
(* that is filled, a is where n characters are read to.                    *)
LEMMA RingNumbers ==
    ASSUME NEW s \in 0 .. Size - 1, NEW e \in 0 .. Size, NEW n \in Nat, n >= 1,
           NEW a, a = IF e = Size THEN 0 ELSE e, a + n <= Size, s > e \/ e = Size => a + n < s,
           NEW f, f = IF s > e THEN Size - s + e ELSE e - s,
           NEW z, z = IF a + n = Size /\ s # 0 THEN 0 ELSE a + n
    PROVE  /\ z \in 0 .. Size /\ (IF s > z THEN Size - s + z ELSE z - s) = f + n
           /\ (IF s > e THEN Size ELSE e) - s <= (IF s > z THEN Size ELSE z) - s
           /\ \A k \in 1 .. f :
                 (IF s + k - 1 < Size THEN s + k - 1 ELSE s + k - 1 - Size) \notin a .. a + n - 1
           /\ \A k \in 1 .. n :
                 (IF s + (f + k) - 1 < Size THEN s + (f + k) - 1 ELSE s + (f + k) - 1 - Size) = a + k - 1
<1>0. Size \in Nat /\ Size # 0  OBVIOUS
<1>1. CASE s > e
  <2>1. a = e /\ a + n < s /\ f = Size - s + e /\ z = a + n  BY <1>0, <1>1
  <2> QED  BY <1>0, <1>1, <2>1
<1>2. CASE e = Size
  <2>1. a = 0 /\ n < s /\ f = Size - s /\ z = n  BY <1>0, <1>2
  <2> QED  BY <1>0, <1>2, <2>1
<1>3. CASE s <= e /\ e # Size
  <2>1. a = e /\ f = e - s  BY <1>0, <1>3
  <2>2. CASE a + n = Size /\ s # 0  BY <1>0, <1>3, <2>1, <2>2
  <2>3. CASE ~(a + n = Size /\ s # 0)  BY <1>0, <1>3, <2>1, <2>3
  <2> QED  BY <2>2, <2>3
<1> QED  BY <1>0, <1>1, <1>2, <1>3

(* The data of a read that has ended is appended to the content: none of   *)
(* it is overwritten and nothing comes in between.                         *)
LEMMA RingAppend ==
    ASSUME NEW t, RingType(t), NEW at, NEW size, Room(t, at, size),
           NEW data \in Seq(Octets), Len(data) \in 1 .. size,
           NEW u, DOMAIN u = BufferFields, u.unparsed = t.unparsed, u.start = t.start,
           DOMAIN u.buffer = 0 .. Size - 1,
           \A i \in 0 .. Size - 1 :
              u.buffer[i] = IF i \in at .. at + Len(data) - 1 THEN data[i - at + 1] ELSE t.buffer[i],
           u.end = IF From(t) + Len(data) = Size /\ t.start # 0 THEN 0 ELSE From(t) + Len(data)
    PROVE  /\ RingType(u) /\ Content(u) = Content(t) \o data
           /\ Contiguous(t) <= Contiguous(u)
<1>1. PICK n \in Nat : n = Len(data)  OBVIOUS
<1>2. /\ t.start \in 0 .. Size - 1 /\ t.end \in 0 .. Size /\ DOMAIN t.buffer = 0 .. Size - 1
      /\ n \in 1 .. size /\ size \in Nat /\ Size \in Nat
      BY <1>1 DEF RingType, Room
<1>3. /\ at = From(t) /\ at \in 0 .. Size - 1 /\ at + n <= Size
      /\ t.start > t.end \/ t.end = Size => at + n < t.start
      BY <1>1, <1>2 DEF Room, From
<1>4. u.end = IF at + n = Size /\ t.start # 0 THEN 0 ELSE at + n  BY <1>1, <1>3
<1>5. PICK s \in 0 .. Size - 1, e \in 0 .. Size : s = t.start /\ e = t.end  BY <1>2
<1>6. PICK f \in Nat : f = Filled(t)  BY ContentType
<1>7. PICK z : z = u.end  OBVIOUS
<1>a. /\ at = (IF e = Size THEN 0 ELSE e) /\ (s > e \/ e = Size => at + n < s)
      /\ f = (IF s > e THEN Size - s + e ELSE e - s) /\ n >= 1
      /\ z = (IF at + n = Size /\ s # 0 THEN 0 ELSE at + n)
      BY <1>2, <1>3, <1>4, <1>5, <1>6, <1>7 DEF From, Filled
<1>b. /\ z \in 0 .. Size /\ (IF s > z THEN Size - s + z ELSE z - s) = f + n
      /\ (IF s > e THEN Size ELSE e) - s <= (IF s > z THEN Size ELSE z) - s
      /\ \A k \in 1 .. f :
            (IF s + k - 1 < Size THEN s + k - 1 ELSE s + k - 1 - Size) \notin at .. at + n - 1
      /\ \A k \in 1 .. n :
            (IF s + (f + k) - 1 < Size THEN s + (f + k) - 1 ELSE s + (f + k) - 1 - Size) = at + k - 1
      BY <1>3, <1>a, RingNumbers
<1>8. \A k : Place(u, k) = Place(t, k)
             /\ Place(t, k) = IF s + k - 1 < Size THEN s + k - 1 ELSE s + k - 1 - Size
      BY <1>5 DEF Place
<1>c. Filled(u) = f + n /\ Contiguous(t) <= Contiguous(u)
      BY <1>5, <1>7, <1>b DEF Filled, Contiguous
<1>9. \A k \in 1 .. f : Place(t, k) \in 0 .. Size - 1 /\ Place(t, k) \notin at .. at + n - 1
      BY <1>6, <1>8, <1>b, ContentType
<1>10. \A k \in 1 .. n : Place(t, f + k) = at + k - 1  BY <1>8, <1>b
<1>11. \A i \in 0 .. Size - 1 :
          u.buffer[i] = IF i \in at .. at + n - 1 THEN data[i - at + 1] ELSE t.buffer[i]
      BY <1>1, <1>2
<1>12. \A k \in 1 .. f : u.buffer[Place(u, k)] = t.buffer[Place(t, k)]
  <2> SUFFICES ASSUME NEW k \in 1 .. f PROVE u.buffer[Place(u, k)] = t.buffer[Place(t, k)]  OBVIOUS
  <2>1. PICK i \in 0 .. Size - 1 : i = Place(t, k) /\ i \notin at .. at + n - 1  BY <1>9
  <2>2. u.buffer[i] = t.buffer[i]  BY <1>11, <2>1
  <2> QED  BY <1>8, <2>1, <2>2
<1>13. \A k \in 1 .. n : u.buffer[Place(u, f + k)] = data[k]
  <2> SUFFICES ASSUME NEW k \in 1 .. n PROVE u.buffer[Place(u, f + k)] = data[k]  OBVIOUS
  <2>1. PICK i \in Int : i = at + k - 1  BY <1>3
  <2>2. i \in 0 .. Size - 1 /\ i \in at .. at + n - 1 /\ i - at + 1 = k
    <3>1. at \in Nat /\ k \in Nat /\ 1 <= k /\ k <= n /\ at + n <= Size  BY <1>3
    <3> QED  BY <2>1, <3>1
  <2>3. u.buffer[i] = data[k]  BY <1>11, <2>2
  <2>4. Place(u, f + k) = i  BY <1>8, <1>10, <2>1
  <2> QED  BY <2>3, <2>4
<1>14. PICK c \in Seq(Octets) : c = Content(t) /\ Len(c) = f  BY <1>6, ContentType
<1>15. \A k \in 1 .. f : c[k] = t.buffer[Place(t, k)]  BY <1>6, <1>14 DEF Content
<1>16. PICK g : g = Cat(c, data)  OBVIOUS
<1>17. /\ g \in Seq(Octets) /\ Len(g) = f + n
       /\ \A k \in 1 .. f : g[k] = c[k]
       /\ \A k \in 1 .. n : g[f + k] = data[k]
  <2>1. data \in Seq(Octets) /\ Len(data) = n  BY <1>1
  <2>2. OneThen(g, c, data, f, n)  BY <1>14, <1>16, <2>1, Joined, ZenonT(60)
  <2> QED  BY <2>2 DEF OneThen
<1>18. \A k \in 1 .. f + n : u.buffer[Place(u, k)] = g[k]
  <2> SUFFICES ASSUME NEW k \in 1 .. f + n PROVE u.buffer[Place(u, k)] = g[k]  OBVIOUS
  <2>1. CASE k <= f
    <3>1. k \in 1 .. f  BY <2>1
    <3> QED  BY <1>12, <1>15, <1>17, <3>1
  <2>2. CASE k > f
    <3>1. PICK j \in 1 .. n : k = f + j
      <4>1. k - f \in 1 .. n /\ k = f + (k - f)  BY <2>2
      <4> QED  BY <4>1
    <3>2. g[f + j] = data[j]  BY <1>17, <3>1
    <3> QED  BY <1>13, <3>1, <3>2
  <2> QED  BY <2>1, <2>2
<1>19. Content(u) = g
  <2>1. Content(u) = [k \in 1 .. f + n |-> g[k]]  BY <1>c, <1>18 DEF Content
  <2> QED  BY <1>17, <2>1
<1>20. RingType(u)
  <2>1. \A k \in 1 .. Filled(u) : u.buffer[Place(u, k)] \in Octets
    <3>1. \A k \in 1 .. Len(g) : g[k] \in Octets  BY <1>17
    <3>2. \A k \in 1 .. f + n : g[k] \in Octets  BY <1>17, <3>1
    <3> QED  BY <1>c, <1>18, <3>2
  <2>2. DOMAIN u.buffer = 0 .. Size - 1  OBVIOUS
  <2>3. u.start \in 0 .. Size - 1 /\ u.end \in 0 .. Size  BY <1>2, <1>7, <1>b
  <2>4. u.unparsed \in Seq(Octets)  BY DEF RingType
  <2> QED  BY <2>1, <2>2, <2>3, <2>4 DEF RingType
<1> QED  BY <1>14, <1>16, <1>c, <1>19, <1>20 DEF Cat

(* What was written is taken from the front of it. *)
LEMMA RingDrop ==
    ASSUME NEW t, RingType(t), t.unparsed = <<>>, NEW n \in Nat, n >= 1, n <= Contiguous(t)
    PROVE  LET u == T!data_read(t, n)
           IN  /\ RingType(u) /\ u.unparsed = <<>>
               /\ Content(t) = [i \in 1 .. n |-> t.buffer[t.start + i - 1]] \o Content(u)
               /\ \A at, size : Room(t, at, size) => Room(u, at, size)
<1>1. PICK u : u = T!data_read(t, n)  OBVIOUS
<1>2. PICK s \in 0 .. Size - 1, e \in 0 .. Size : s = t.start /\ e = t.end  BY DEF RingType
<1>3. /\ DOMAIN u = BufferFields /\ u.buffer = t.buffer /\ u.unparsed = <<>>
      /\ u.start = (IF s + n = Size THEN 0 ELSE s + n)
      /\ u.end = (IF s + n = Size /\ e = Size THEN 0 ELSE e)
      BY <1>1, <1>2 DEF T!data_read, RingType, BufferFields
<1>4. PICK x, y : x = u.start /\ y = u.end  OBVIOUS
<1>5. n <= (IF s > e THEN Size ELSE e) - s  BY <1>2 DEF Contiguous
<1>6. PICK f \in Nat : f = Filled(t)  BY ContentType
<1>7. f = IF s > e THEN Size - s + e ELSE e - s  BY <1>2, <1>6 DEF Filled
<1>8. /\ x \in 0 .. Size - 1 /\ y \in 0 .. Size /\ n <= f
      /\ (IF x > y THEN Size - x + y ELSE y - x) = f - n
      /\ \A k \in 1 .. f - n :
            (IF x + k - 1 < Size THEN x + k - 1 ELSE x + k - 1 - Size)
            = (IF s + (n + k) - 1 < Size THEN s + (n + k) - 1 ELSE s + (n + k) - 1 - Size)
      /\ \A k \in 1 .. n : s + k - 1 < Size
  <2>0. Size \in Nat /\ Size # 0  OBVIOUS
  <2>1. x = (IF s + n = Size THEN 0 ELSE s + n) /\ y = (IF s + n = Size /\ e = Size THEN 0 ELSE e)
        BY <1>3, <1>4
  <2>2. CASE s + n = Size  BY <2>0, <2>1, <2>2, <1>5, <1>7
  <2>3. CASE s + n # Size  BY <2>0, <2>1, <2>3, <1>5, <1>7
  <2> QED  BY <2>2, <2>3
<1>9. Filled(u) = f - n  BY <1>4, <1>8 DEF Filled
<1>10. \A k \in 1 .. f - n : Place(u, k) = Place(t, n + k)  BY <1>2, <1>4, <1>8 DEF Place
<1>11. \A k \in 1 .. n : Place(t, k) = t.start + k - 1  BY <1>2, <1>8 DEF Place
<1>12. RingType(u)
  <2>1. ASSUME NEW k \in 1 .. Filled(u) PROVE u.buffer[Place(u, k)] \in Octets
    <3>1. PICK j \in 1 .. f : j = n + k  BY <1>8, <1>9
    <3>2. t.buffer[Place(t, j)] \in Octets  BY <1>6, <3>1 DEF RingType
    <3> QED  BY <1>3, <1>9, <1>10, <3>1, <3>2
  <2>2. DOMAIN u.buffer = 0 .. Size - 1  BY <1>3 DEF RingType
  <2>3. u.unparsed \in Seq(Octets)  BY <1>3
  <2> QED  BY <1>3, <1>4, <1>8, <2>1, <2>2, <2>3 DEF RingType
<1>13. PICK c \in Seq(Octets) : c = Content(u) /\ Len(c) = f - n  BY <1>9, <1>12, ContentType
<1>14. PICK d : d = [i \in 1 .. n |-> t.buffer[t.start + i - 1]]  OBVIOUS
<1>15. d \in Seq(Octets) /\ Len(d) = n /\ \A k \in 1 .. n : d[k] = t.buffer[Place(t, k)]
  <2>1. \A k \in 1 .. n : d[k] = t.buffer[Place(t, k)]  BY <1>11, <1>14
  <2>2. \A k \in 1 .. n : k \in 1 .. f  BY <1>8
  <2>3. \A k \in 1 .. n : d[k] \in Octets  BY <1>6, <2>1, <2>2 DEF RingType
  <2>4. d \in [1 .. n -> Octets]  BY <1>14, <2>3
  <2> QED  BY <2>1, <2>4
<1>16. \A k \in 1 .. f - n : c[k] = t.buffer[Place(t, n + k)]
      BY <1>3, <1>9, <1>10, <1>13 DEF Content
<1>17. PICK g : g = Cat(d, c)  OBVIOUS
<1>18. /\ g \in Seq(Octets) /\ Len(g) = f /\ \A k \in 1 .. n : g[k] = d[k]
       /\ \A k \in 1 .. f - n : g[n + k] = c[k]
  <2>1. n + (f - n) = f  OBVIOUS
  <2>2. PICK l : l = f - n  OBVIOUS
  <2>3. /\ g \in Seq(Octets) /\ Len(g) = n + l /\ \A k \in 1 .. n : g[k] = d[k]
        /\ \A k \in 1 .. l : g[n + k] = c[k]
    <3>1. Len(c) = l  BY <1>13, <2>2
    <3>2. OneThen(g, d, c, n, l)  BY <1>13, <1>15, <1>17, <3>1, Joined, ZenonT(60)
    <3> QED  BY <3>2 DEF OneThen
  <2> QED  BY <2>1, <2>2, <2>3
<1>19. \A k \in 1 .. f : g[k] = t.buffer[Place(t, k)]
  <2> SUFFICES ASSUME NEW k \in 1 .. f PROVE g[k] = t.buffer[Place(t, k)]  OBVIOUS
  <2>1. CASE k <= n
    <3>1. k \in 1 .. n  BY <2>1
    <3> QED  BY <1>15, <1>18, <3>1
  <2>2. CASE k > n
    <3>1. PICK j \in 1 .. f - n : k = n + j
      <4>1. k - n \in 1 .. f - n /\ k = n + (k - n)  BY <2>2
      <4> QED  BY <4>1
    <3>2. g[n + j] = c[j]  BY <1>18, <3>1
    <3> QED  BY <1>16, <3>1, <3>2
  <2> QED  BY <2>1, <2>2
<1>20. Content(t) = g
  <2>1. Content(t) = [k \in 1 .. f |-> g[k]]  BY <1>6, <1>19 DEF Content
  <2> QED  BY <1>18, <2>1
<1>21. ASSUME NEW at, NEW size, Room(t, at, size) PROVE Room(u, at, size)
  <2>1. /\ at = (IF e = Size THEN 0 ELSE e) /\ size \in Nat /\ at + size <= Size
        /\ s > e \/ e = Size => at + size < s
        BY <1>2, <1>21 DEF Room, From
  <2>2. /\ at = (IF y = Size THEN 0 ELSE y)
        /\ x > y \/ y = Size => at + size < x
    <3>1. x = (IF s + n = Size THEN 0 ELSE s + n) /\ y = (IF s + n = Size /\ e = Size THEN 0 ELSE e)
          BY <1>3, <1>4
    <3>2. CASE s + n = Size  BY <1>5, <2>1, <3>1, <3>2
    <3>3. CASE s + n # Size  BY <1>5, <2>1, <3>1, <3>3
    <3> QED  BY <3>2, <3>3
  <2> QED  BY <1>4, <2>1, <2>2 DEF Room, From
<1> QED  BY <1>1, <1>3, <1>12, <1>13, <1>14, <1>17, <1>20, <1>21 DEF Cat

-----------------------------------------------------------------------------
(* A chunked body that comes in pieces *)

(* The part of the buffer that follows the chunks. *)
FrameFields == {"state", "current_chunk", "chunked_state", "error"}

Frame(t) ==
    [state |-> t.state, current_chunk |-> t.current_chunk, chunked_state |-> t.chunked_state,
     error |-> t.error]

IsFrame(x) == x = [f \in FrameFields |-> x[f]]

NextFrame(x, c) == IF x.state = "done" \/ x.error THEN x ELSE T!chunk_char(x, c)

Frames(x, data) ==
    CHOOSE f : f = [i \in 0 .. Len(data) |-> IF i = 0 THEN x ELSE NextFrame(f[i - 1], data[i])]

LastFrame(x, data) == Frames(x, data)[Len(data)]

LEMMA FramesDef ==
    ASSUME NEW x, NEW data, Len(data) \in Nat
    PROVE  Frames(x, data) =
              [i \in 0 .. Len(data) |-> IF i = 0 THEN x ELSE NextFrame(Frames(x, data)[i - 1], data[i])]
<1> DEFINE N == { j \in Nat : \E f : f = [n \in 0 .. j |-> IF n = 0 THEN x ELSE NextFrame(f[n - 1], data[n])] }
<1>1. 0 \in N
  <2>1. PICK f : f = [n \in 0 .. 0 |-> x]  OBVIOUS
  <2>2. f = [n \in 0 .. 0 |-> IF n = 0 THEN x ELSE NextFrame(f[n - 1], data[n])]  BY <2>1
  <2> QED  BY <2>2
<1>2. ASSUME NEW j \in Nat, j \in N PROVE j + 1 \in N
  <2>1. PICK f : f = [n \in 0 .. j |-> IF n = 0 THEN x ELSE NextFrame(f[n - 1], data[n])]  BY <1>2
  <2>2. PICK y : y = NextFrame(f[j], data[j + 1])  OBVIOUS
  <2>3. PICK g : g = [n \in 0 .. j + 1 |-> IF n = j + 1 THEN y ELSE f[n]]  OBVIOUS
  <2>4. ASSUME NEW n \in 0 .. j + 1
        PROVE  g[n] = IF n = 0 THEN x ELSE NextFrame(g[n - 1], data[n])
    <3>1. CASE n = j + 1
      <4>1. g[n] = y /\ g[n - 1] = f[j] /\ n # 0  BY <2>3, <3>1
      <4> QED  BY <2>2, <3>1, <4>1
    <3>2. CASE n # j + 1
      <4>1. n \in 0 .. j /\ g[n] = f[n]  BY <2>3, <3>2
      <4>2. n # 0 => n - 1 \in 0 .. j + 1 /\ n - 1 # j + 1  BY <4>1
      <4>3. n # 0 => g[n - 1] = f[n - 1]  BY <2>3, <4>2
      <4>4. f[n] = IF n = 0 THEN x ELSE NextFrame(f[n - 1], data[n])  BY <2>1, <4>1
      <4> QED  BY <4>1, <4>3, <4>4
    <3> QED  BY <3>1, <3>2
  <2>5. g = [n \in 0 .. j + 1 |-> g[n]]  BY <2>3
  <2>6. g = [n \in 0 .. j + 1 |-> IF n = 0 THEN x ELSE NextFrame(g[n - 1], data[n])]  BY <2>4, <2>5
  <2> QED  BY <2>6
<1> HIDE DEF N
<1>3. Len(data) \in N  BY <1>1, <1>2, AllNumbers
<1>4. \E f : f = [n \in 0 .. Len(data) |-> IF n = 0 THEN x ELSE NextFrame(f[n - 1], data[n])]
      BY <1>3 DEF N
<1> QED  BY <1>4 DEF Frames

LEMMA FramesAt ==
    ASSUME NEW x, NEW data, Len(data) \in Nat
    PROVE  /\ Frames(x, data)[0] = x
           /\ \A i \in Nat : i + 1 <= Len(data) =>
                 Frames(x, data)[i + 1] = NextFrame(Frames(x, data)[i], data[i + 1])
<1>1. PICK f : f = Frames(x, data)  OBVIOUS
<1>2. f = [i \in 0 .. Len(data) |-> IF i = 0 THEN x ELSE NextFrame(f[i - 1], data[i])]
      BY <1>1, FramesDef
<1>3. 0 \in 0 .. Len(data)  OBVIOUS
<1>4. f[0] = x  BY <1>2, <1>3
<1>5. ASSUME NEW i \in Nat, i + 1 <= Len(data) PROVE f[i + 1] = NextFrame(f[i], data[i + 1])
  <2>1. PICK j \in 0 .. Len(data) : j = i + 1 /\ j # 0 /\ j - 1 = i  BY <1>5
  <2>2. f[j] = NextFrame(f[j - 1], data[j])  BY <1>2, <2>1
  <2> QED  BY <2>1, <2>2
<1> QED  BY <1>1, <1>4, <1>5

LEMMA ChunkedDef ==
    ASSUME NEW t, NEW data
    PROVE  LET b == LastFrame(Frame(t), data)
           IN  T!handle_chunked_write(t, data) =
                  [t EXCEPT !.state = b.state, !.current_chunk = b.current_chunk,
                            !.chunked_state = b.chunked_state, !.error = b.error]
BY DEF T!handle_chunked_write, LastFrame, Frames, Frame, NextFrame

(* A character changes only this part, and the state only to the end. *)
OneOf(y, x) ==
    \/ y = x \/ y = [x EXCEPT !.state = "done"] \/ y = [x EXCEPT !.error = TRUE]
    \/ \E i : y = [x EXCEPT !.current_chunk = i]
    \/ \E s : y = [x EXCEPT !.chunked_state = s]
    \/ \E i, s : y = [x EXCEPT !.current_chunk = i, !.chunked_state = s]

LEMMA TrailerCases ==
    ASSUME NEW x, NEW c
    PROVE  OneOf(T!trailer_char(x, c), x)
<1> DEFINE s == x.chunked_state
           C == <<"CR">>
           L == <<"LF">>
<1>1. PICK e1, e2, e3, e4, e5, y :
         /\ e1 = [x EXCEPT !.chunked_state = IF c = C THEN "chunk_last_trailer_lf" ELSE "chunk_trailer"]
         /\ e2 = (IF c = C THEN [x EXCEPT !.chunked_state = "chunk_trailer_lf"] ELSE x)
         /\ e3 = [x EXCEPT !.chunked_state = "chunk_trailer_start"]
         /\ e4 = [x EXCEPT !.state = "done"]
         /\ e5 = [x EXCEPT !.error = TRUE]
         /\ y = T!trailer_char(x, c)
      OBVIOUS
<1>2. y = CASE s = "chunk_trailer_start" -> e1 [] s = "chunk_trailer" -> e2
            [] s = "chunk_trailer_lf" /\ c = L -> e3 [] s = "chunk_last_trailer_lf" /\ c = L -> e4
            [] OTHER -> e5
      BY <1>1, Zenon DEF T!trailer_char
<1>3. y = e1 \/ y = e2 \/ y = e3 \/ y = e4 \/ y = e5  BY <1>2, SMT
<1>4. \E a : e1 = [x EXCEPT !.chunked_state = a]  BY <1>1, Zenon
<1>5. e2 = x \/ \E a : e2 = [x EXCEPT !.chunked_state = a]  BY <1>1, Zenon
<1>6. \E a : e3 = [x EXCEPT !.chunked_state = a]  BY <1>1, Zenon
<1>7. OneOf(y, x)
  <2>1. CASE y = e1  BY <1>4, <2>1, Zenon DEF OneOf
  <2>2. CASE y = e2  BY <1>5, <2>2, Zenon DEF OneOf
  <2>3. CASE y = e3  BY <1>6, <2>3, Zenon DEF OneOf
  <2>4. CASE y = e4 \/ y = e5  BY <1>1, <2>4, Zenon DEF OneOf
  <2> QED  BY <1>3, <2>1, <2>2, <2>3, <2>4
<1> QED  BY <1>1, <1>7

LEMMA CharCases ==
    ASSUME NEW x, NEW c
    PROVE  OneOf(T!chunk_char(x, c), x)
<1> DEFINE s == x.chunked_state
           C == <<"CR">>
           L == <<"LF">>
           more == x.current_chunk <= MaxSize \div 16
           size == (x.current_chunk + 2) % (MaxSize + 1)
<1>0. PICK b \in BOOLEAN : b <=> more  OBVIOUS
<1>1. PICK e1, e2, e3, e4, e5, e6, e7, e8, y :
         /\ e1 = [x EXCEPT !.current_chunk = c[2], !.chunked_state = "chunk_size"]
         /\ e2 = [x EXCEPT !.current_chunk = 16 * @ + c[2]]
         /\ e3 = [x EXCEPT !.chunked_state = "chunk_size_lf"]
         /\ e4 = [x EXCEPT !.chunked_state = "chunk_extension"]
         /\ e5 = (IF x.current_chunk = 0 THEN [x EXCEPT !.chunked_state = "chunk_trailer_start"]
                  ELSE [x EXCEPT !.current_chunk = size, !.chunked_state = "chunk_data"])
         /\ e6 = [x EXCEPT !.current_chunk = @ - 1,
                           !.chunked_state = IF x.current_chunk = 1 THEN "chunk_size_start" ELSE @]
         /\ e7 = T!trailer_char(x, c)
         /\ e8 = [x EXCEPT !.error = TRUE]
         /\ y = T!chunk_char(x, c)
      OBVIOUS
<1>2. y = CASE s = "chunk_size_start" /\ c[1] = "hex" -> e1
            [] s = "chunk_size" /\ c[1] = "hex" /\ b -> e2
            [] s \in {"chunk_size", "chunk_extension"} /\ c = C -> e3
            [] s = "chunk_size" /\ c[1] \notin {"hex", "CR"} -> e4
            [] s = "chunk_extension" /\ c # C -> x
            [] s = "chunk_size_lf" /\ c = L -> e5
            [] s = "chunk_data" -> e6
            [] s \in {"chunk_trailer_start", "chunk_trailer", "chunk_trailer_lf", "chunk_last_trailer_lf"} -> e7
            [] OTHER -> e8
      BY <1>0, <1>1, Zenon DEF T!chunk_char
<1>3. y = e1 \/ y = e2 \/ y = e3 \/ y = e4 \/ y = x \/ y = e5 \/ y = e6 \/ y = e7 \/ y = e8
      BY <1>2, SMT
<1>4. \E i, a : e1 = [x EXCEPT !.current_chunk = i, !.chunked_state = a]  BY <1>1, Zenon
<1>5. \E i : e2 = [x EXCEPT !.current_chunk = i]  BY <1>1, Zenon
<1>6. (\E a : e3 = [x EXCEPT !.chunked_state = a]) /\ (\E a : e4 = [x EXCEPT !.chunked_state = a])
      BY <1>1, Zenon
<1>7. \/ \E i, a : e5 = [x EXCEPT !.current_chunk = i, !.chunked_state = a]
      \/ \E a : e5 = [x EXCEPT !.chunked_state = a]
  <2>1. CASE x.current_chunk = 0
    <3>1. e5 = [x EXCEPT !.chunked_state = "chunk_trailer_start"]  BY <1>1, <2>1, Zenon
    <3> QED  BY <3>1, Zenon
  <2>2. CASE x.current_chunk # 0
    <3>1. e5 = [x EXCEPT !.current_chunk = size, !.chunked_state = "chunk_data"]  BY <1>1, <2>2, Zenon
    <3> QED  BY <3>1, Zenon
  <2> QED  BY <2>1, <2>2
<1>8. \E i, a : e6 = [x EXCEPT !.current_chunk = i, !.chunked_state = a]  BY <1>1, Zenon
<1>9. OneOf(y, x)
  <2>1. CASE y = e1  BY <1>4, <2>1, Zenon DEF OneOf
  <2>2. CASE y = e2  BY <1>5, <2>2, Zenon DEF OneOf
  <2>3. CASE y = e3  BY <1>6, <2>3, Zenon DEF OneOf
  <2>4. CASE y = e4  BY <1>6, <2>4, Zenon DEF OneOf
  <2>5. CASE y = e5  BY <1>7, <2>5, Zenon DEF OneOf
  <2>6. CASE y = e6  BY <1>8, <2>6, Zenon DEF OneOf
  <2>7. CASE y = e7  BY <1>1, <2>7, TrailerCases
  <2>8. CASE y = e8 \/ y = x  BY <1>1, <2>8, Zenon DEF OneOf
  <2> QED  BY <1>3, <2>1, <2>2, <2>3, <2>4, <2>5, <2>6, <2>7, <2>8
<1> QED  BY <1>1, <1>9

LEMMA CharType ==
    ASSUME NEW x, IsFrame(x), NEW c
    PROVE  IsFrame(NextFrame(x, c)) /\ NextFrame(x, c).state \in {x.state, "done"}
<1>1. ASSUME NEW y, OneOf(y, x) PROVE IsFrame(y) /\ y.state \in {x.state, "done"}
      BY <1>1 DEF OneOf, IsFrame, FrameFields
<1>2. PICK y : y = T!chunk_char(x, c)  OBVIOUS
<1>3. IsFrame(y) /\ y.state \in {x.state, "done"}  BY <1>1, <1>2, CharCases
<1> QED  BY <1>2, <1>3 DEF NextFrame

LEMMA FramesType ==
    ASSUME NEW x, IsFrame(x), NEW data, Len(data) \in Nat
    PROVE  IsFrame(LastFrame(x, data)) /\ LastFrame(x, data).state \in {x.state, "done"}
<1>1. PICK f : f = Frames(x, data)  OBVIOUS
<1>2. f[0] = x /\ \A i \in Nat : i + 1 <= Len(data) => f[i + 1] = NextFrame(f[i], data[i + 1])
      BY <1>1, FramesAt
<1> DEFINE N == { i \in Nat : i <= Len(data) => IsFrame(f[i]) /\ f[i].state \in {x.state, "done"} }
<1>3. 0 \in N  BY <1>2
<1>4. ASSUME NEW i \in Nat, i \in N PROVE i + 1 \in N
  <2>1. CASE i + 1 <= Len(data)
    <3>1. IsFrame(f[i]) /\ f[i].state \in {x.state, "done"}  BY <1>4, <2>1
    <3>2. PICK y, c : y = f[i] /\ c = data[i + 1]  OBVIOUS
    <3>3. IsFrame(NextFrame(y, c)) /\ NextFrame(y, c).state \in {y.state, "done"}  BY <3>1, <3>2, CharType
    <3> QED  BY <1>2, <2>1, <3>1, <3>2, <3>3
  <2>2. CASE ~(i + 1 <= Len(data))  BY <2>2
  <2> QED  BY <2>1, <2>2
<1> HIDE DEF N
<1>5. Len(data) \in N  BY <1>3, <1>4, AllNumbers
<1> QED  BY <1>1, <1>5 DEF N, LastFrame

LEMMA FramesSplit ==
    ASSUME NEW x, NEW c \in Seq(Octets), NEW d \in Seq(Octets)
    PROVE  LastFrame(LastFrame(x, c), d) = LastFrame(x, c \o d)
<1>0. c \o d \in Seq(Octets)  OBVIOUS
<1>1. PICK e \in Seq(Octets) : e = c \o d  BY <1>0
<1>2. PICK k \in Nat, l \in Nat : k = Len(c) /\ l = Len(d)  OBVIOUS
<1>3. /\ Len(e) = k + l /\ \A i \in 1 .. k : e[i] = c[i]
      /\ \A i \in 1 .. l : e[k + i] = d[i]
      BY <1>1, <1>2, Beginning
<1>4. PICK y, f, g, h : f = Frames(x, c) /\ y = f[k] /\ g = Frames(y, d) /\ h = Frames(x, e)  OBVIOUS
<1>5. f[0] = x /\ \A i \in Nat : i + 1 <= k => f[i + 1] = NextFrame(f[i], c[i + 1])
      BY <1>2, <1>4, FramesAt
<1>6. g[0] = y /\ \A i \in Nat : i + 1 <= l => g[i + 1] = NextFrame(g[i], d[i + 1])
      BY <1>2, <1>4, FramesAt
<1>7. h[0] = x /\ \A i \in Nat : i + 1 <= k + l => h[i + 1] = NextFrame(h[i], e[i + 1])
  <2>1. Len(e) \in Nat  OBVIOUS
  <2>2. /\ Frames(x, e)[0] = x
        /\ \A i \in Nat : i + 1 <= Len(e) => Frames(x, e)[i + 1] = NextFrame(Frames(x, e)[i], e[i + 1])
        BY <2>1, FramesAt
  <2>3. Len(e) = k + l  BY <1>3
  <2> QED  BY <1>4, <2>2, <2>3
<1> DEFINE N == { i \in Nat : i <= k => h[i] = f[i] }
           M == { i \in Nat : i <= l => h[k + i] = g[i] }
<1>8. 0 \in N  BY <1>5, <1>7
<1>9. ASSUME NEW i \in Nat, i \in N PROVE i + 1 \in N
  <2>1. CASE i + 1 <= k
    <3>1. h[i] = f[i] /\ i + 1 \in 1 .. k /\ i + 1 <= k + l  BY <1>9, <2>1
    <3>2. e[i + 1] = c[i + 1]  BY <1>3, <3>1
    <3> QED  BY <1>5, <1>7, <2>1, <3>1, <3>2
  <2>2. CASE ~(i + 1 <= k)  BY <2>2
  <2> QED  BY <2>1, <2>2
<1>10. k \in N
  <2> HIDE DEF N
  <2> QED  BY <1>8, <1>9, AllNumbers
<1>11. h[k] = y  BY <1>4, <1>10
<1>12. 0 \in M  BY <1>6, <1>11
<1>13. ASSUME NEW i \in Nat, i \in M PROVE i + 1 \in M
  <2>1. CASE i + 1 <= l
    <3>1. h[k + i] = g[i] /\ i + 1 \in 1 .. l  BY <1>13, <2>1
    <3>2. PICK j \in Nat : j = k + i /\ j + 1 <= k + l /\ j + 1 = k + (i + 1)  BY <2>1
    <3>3. e[j + 1] = d[i + 1]  BY <1>3, <3>1, <3>2
    <3>4. h[j + 1] = NextFrame(h[j], e[j + 1])  BY <1>7, <3>2
    <3>5. g[i + 1] = NextFrame(g[i], d[i + 1])  BY <1>6, <2>1
    <3>6. h[k + (i + 1)] = g[i + 1]  BY <3>1, <3>2, <3>3, <3>4, <3>5
    <3> QED  BY <3>6
  <2>2. CASE ~(i + 1 <= l)  BY <2>2
  <2> QED  BY <2>1, <2>2
<1>14. l \in M
  <2> HIDE DEF M
  <2> QED  BY <1>12, <1>13, AllNumbers
<1>15. h[k + l] = g[l]  BY <1>14
<1>16. LastFrame(x, c) = y /\ LastFrame(y, d) = g[l] /\ LastFrame(x, e) = h[k + l]
      BY <1>2, <1>3, <1>4 DEF LastFrame
<1> QED  BY <1>1, <1>15, <1>16

(* handle_chunked_write() changes this part and nothing else. *)
LEMMA Chunked ==
    ASSUME NEW t, DOMAIN t = BufferFields, NEW data \in Seq(Octets)
    PROVE  LET u == T!handle_chunked_write(t, data)
           IN  /\ DOMAIN u = BufferFields /\ Frame(u) = LastFrame(Frame(t), data)
               /\ u.state \in {t.state, "done"} /\ u.state = LastFrame(Frame(t), data).state
               /\ u.buffer = t.buffer /\ u.unparsed = t.unparsed
               /\ u.start = t.start /\ u.end = t.end /\ u.body_size = t.body_size
<1>1. PICK x : x = Frame(t)  OBVIOUS
<1>2. IsFrame(x) /\ x.state = t.state  BY <1>1 DEF Frame, IsFrame, FrameFields
<1>3. PICK b : b = LastFrame(x, data)  OBVIOUS
<1>4. IsFrame(b) /\ b.state \in {t.state, "done"}  BY <1>2, <1>3, FramesType
<1>5. PICK u : u = T!handle_chunked_write(t, data)  OBVIOUS
<1>6. u = [t EXCEPT !.state = b.state, !.current_chunk = b.current_chunk,
                    !.chunked_state = b.chunked_state, !.error = b.error]
      BY <1>1, <1>3, <1>5, ChunkedDef
<1>7. /\ DOMAIN u = BufferFields /\ u.state = b.state /\ u.current_chunk = b.current_chunk
      /\ u.chunked_state = b.chunked_state /\ u.error = b.error
      /\ u.buffer = t.buffer /\ u.unparsed = t.unparsed
      /\ u.start = t.start /\ u.end = t.end /\ u.body_size = t.body_size
      BY <1>6 DEF BufferFields
<1>8. Frame(u) = b
  <2>1. Frame(u) = [state |-> b.state, current_chunk |-> b.current_chunk,
                    chunked_state |-> b.chunked_state, error |-> b.error]  BY <1>7 DEF Frame
  <2>2. b = [f \in {"state", "current_chunk", "chunked_state", "error"} |-> b[f]]
        BY <1>4 DEF IsFrame, FrameFields
  <2> QED  BY <2>1, <2>2
<1> QED  BY <1>1, <1>3, <1>4, <1>5, <1>7, <1>8

(* The state of the chunk parser after two packets is the one after both   *)
(* in one.                                                                 *)
ChunksInPieces ==
    \A t : DOMAIN t = BufferFields => \A c, d \in Seq(Octets) :
       Frame(T!handle_chunked_write(T!handle_chunked_write(t, c), d)) = Frame(T!handle_chunked_write(t, c \o d))

(* The chunks of a body are followed in the same way however the network   *)
(* cuts them: handle_chunked_write() (transfer_buffer.h:290) keeps all it  *)
(* needs from one call to the next, within a size, an extension, a line    *)
(* end, the data or the trailer.                                           *)
THEOREM ChunksSplit == ChunksInPieces
<1> SUFFICES ASSUME NEW t, DOMAIN t = BufferFields, NEW c \in Seq(Octets), NEW d \in Seq(Octets)
             PROVE  Frame(T!handle_chunked_write(T!handle_chunked_write(t, c), d))
                      = Frame(T!handle_chunked_write(t, c \o d))
    BY DEF ChunksInPieces
<1>1. PICK x, u : x = Frame(t) /\ u = T!handle_chunked_write(t, c)  OBVIOUS
<1>2. DOMAIN u = BufferFields /\ Frame(u) = LastFrame(x, c)  BY <1>1, Chunked
<1>3. Frame(T!handle_chunked_write(u, d)) = LastFrame(Frame(u), d)  BY <1>2, Chunked
<1>4. c \o d \in Seq(Octets)  OBVIOUS
<1>5. Frame(T!handle_chunked_write(t, c \o d)) = LastFrame(x, c \o d)  BY <1>1, <1>4, Chunked
<1> QED  BY <1>1, <1>2, <1>3, <1>5, FramesSplit

-----------------------------------------------------------------------------
(* What the ring holds and what is still expected, over a read *)

(* A sequence and the pieces of it. *)
LEMMA Pieces ==
    ASSUME NEW o \in Seq(Octets), NEW n \in 0 .. Len(o)
    PROVE  LET c == SubSeq(o, 1, n)
               d == SubSeq(o, n + 1, Len(o))
           IN  /\ c \in Seq(Octets) /\ d \in Seq(Octets) /\ Len(c) = n /\ Len(d) = Len(o) - n
               /\ c \o d = o
               /\ \A m \in 0 .. Len(d) : c \o SubSeq(d, 1, m) = SubSeq(o, 1, n + m)
<1>1. PICK l \in Nat : l = Len(o) /\ n \in Nat /\ n <= l  OBVIOUS
<1>2. PICK c, d : c = SubSeq(o, 1, n) /\ d = SubSeq(o, n + 1, l)  OBVIOUS
<1>3. c \in Seq(Octets) /\ d \in Seq(Octets) /\ Len(c) = n /\ Len(d) = l - n
      BY <1>1, <1>2
<1>4. (\A i \in 1 .. n : c[i] = o[i]) /\ (\A i \in 1 .. l - n : d[i] = o[n + i])
  <2>1. ASSUME NEW i \in 1 .. n PROVE c[i] = o[i]  BY <1>1, <1>2
  <2>2. ASSUME NEW i \in 1 .. l - n PROVE d[i] = o[n + i]
    <3>1. d[i] = o[(n + 1) + i - 1] /\ (n + 1) + i - 1 = n + i  BY <1>1, <1>2
    <3> QED  BY <3>1
  <2> QED  BY <2>1, <2>2
<1>5. ASSUME NEW m \in 0 .. l - n PROVE c \o SubSeq(d, 1, m) = SubSeq(o, 1, n + m)
  <2>1. PICK e : e = SubSeq(d, 1, m)  OBVIOUS
  <2>2. /\ e \in Seq(Octets) /\ Len(e) = m /\ m \in Nat /\ n + m <= l
        /\ \A i \in 1 .. m : e[i] = o[n + i]
    <3>1. m \in Nat /\ m <= l - n /\ n + m <= l  BY <1>1
    <3>2. e \in Seq(Octets) /\ Len(e) = m  BY <1>3, <2>1, <3>1
    <3>3. ASSUME NEW i \in 1 .. m PROVE e[i] = o[n + i]
      <4>1. e[i] = d[i] /\ i \in 1 .. l - n  BY <1>3, <2>1, <3>1
      <4> QED  BY <1>4, <4>1
    <3> QED  BY <3>1, <3>2, <3>3
  <2>3. PICK g : g = Cat(c, e)  OBVIOUS
  <2>4. /\ g \in Seq(Octets) /\ Len(g) = n + m /\ \A i \in 1 .. n : g[i] = c[i]
        /\ \A i \in 1 .. m : g[n + i] = e[i]
    <3>1. OneThen(g, c, e, n, m)  BY <1>3, <2>2, <2>3, Joined, ZenonT(60)
    <3> QED  BY <3>1 DEF OneThen
  <2>5. PICK h : h = SubSeq(o, 1, n + m)  OBVIOUS
  <2>6. h \in Seq(Octets) /\ Len(h) = n + m /\ \A i \in 1 .. n + m : h[i] = o[i]
        BY <1>1, <2>2, <2>5, SMTT(30)
  <2>7. ASSUME NEW i \in 1 .. n + m PROVE g[i] = h[i]
    <3>1. CASE i <= n
      <4>1. i \in 1 .. n  BY <1>1, <3>1
      <4> QED  BY <1>4, <2>4, <2>6, <4>1
    <3>2. CASE i > n
      <4>1. PICK j \in 1 .. m : i = n + j
        <5>1. i - n \in 1 .. m /\ i = n + (i - n)  BY <1>1, <2>2, <3>2
        <5> QED  BY <5>1
      <4>2. g[n + j] = e[j]  BY <2>4, <4>1
      <4> QED  BY <2>2, <2>6, <4>1, <4>2
    <3> QED  BY <1>1, <2>2, <3>1, <3>2
  <2>8. g = [i \in 1 .. n + m |-> g[i]] /\ h = [i \in 1 .. n + m |-> h[i]]  BY <2>4, <2>6
  <2>9. g = h  BY <2>7, <2>8
  <2> QED  BY <2>1, <2>3, <2>5, <2>9 DEF Cat
<1>6. c \o d = o
  <2>1. PICK m \in 0 .. l - n : m = l - n /\ n + m = l  BY <1>1
  <2>2. SubSeq(d, 1, m) = d /\ SubSeq(o, 1, l) = o  BY <1>1, <1>3, <2>1
  <2> QED  BY <1>5, <2>1, <2>2
<1> QED  BY <1>1, <1>2, <1>3, <1>5, <1>6

(* Not yet passed on to the client. *)
Kept(t) == t.unparsed \o Content(t)

(* o is all that the origin will send, and not more than it announced. *)
Expected(t, o) ==
    /\ t.state \in {"no_size_given", "size_given", "chunked", "done"}
    /\ t.state = "no_size_given" => t.body_size = Size
    /\ t.state = "size_given" => t.body_size \in Nat \ {0} /\ Len(o) <= t.body_size
    /\ t.state = "chunked" =>
          /\ t.body_size = Size
          /\ \A n \in 0 .. Len(o) : T!handle_chunked_write(t, SubSeq(o, 1, n)).state = "done" => n = Len(o)
    /\ t.state = "done" => o = <<>>

LEMMA SameExpected ==
    ASSUME NEW t, NEW u, NEW o \in Seq(Octets), DOMAIN t = BufferFields, DOMAIN u = BufferFields,
           Frame(u) = Frame(t), u.body_size = t.body_size, Expected(t, o)
    PROVE  Expected(u, o)
<1>1. u.state = t.state
  <2>1. Frame(u).state = u.state /\ Frame(t).state = t.state  BY DEF Frame
  <2> QED  BY <2>1
<1>2. ASSUME NEW n \in 0 .. Len(o)
      PROVE  T!handle_chunked_write(u, SubSeq(o, 1, n)).state = T!handle_chunked_write(t, SubSeq(o, 1, n)).state
  <2>1. PICK d \in Seq(Octets) : d = SubSeq(o, 1, n)
    <3>1. SubSeq(o, 1, n) \in Seq(Octets)  BY Pieces
    <3> QED  BY <3>1
  <2>2. T!handle_chunked_write(u, d).state = T!handle_chunked_write(t, d).state  BY Chunked
  <2> QED  BY <2>1, <2>2
<1> QED  BY <1>1, <1>2 DEF Expected

(* The chunks of which some have been read. *)
LEMMA ChunksExpected ==
    ASSUME NEW t, NEW u, NEW o \in Seq(Octets), NEW n \in 0 .. Len(o),
           DOMAIN t = BufferFields, DOMAIN u = BufferFields,
           t.state = "chunked", u.body_size = Size, Frame(u) = LastFrame(Frame(t), SubSeq(o, 1, n)),
           \A k \in 0 .. Len(o) : T!handle_chunked_write(t, SubSeq(o, 1, k)).state = "done" => k = Len(o)
    PROVE  Expected(u, SubSeq(o, n + 1, Len(o)))
<1>1. PICK l \in Nat : l = Len(o) /\ n \in Nat /\ n <= l  OBVIOUS
<1>2. PICK c, d : c = SubSeq(o, 1, n) /\ d = SubSeq(o, n + 1, Len(o))  OBVIOUS
<1>a. /\ c \in Seq(Octets) /\ d \in Seq(Octets) /\ Len(c) = n /\ Len(d) = Len(o) - n
      /\ \A m \in 0 .. Len(d) : c \o SubSeq(d, 1, m) = SubSeq(o, 1, n + m)
      BY <1>2, Pieces, SMTT(30)
<1>3. /\ c \in Seq(Octets) /\ d \in Seq(Octets) /\ Len(c) = n /\ Len(d) = l - n
      /\ \A m \in 0 .. Len(d) : c \o SubSeq(d, 1, m) = SubSeq(o, 1, n + m)
      BY <1>1, <1>a
<1>4. PICK x : x = Frame(t)  OBVIOUS
<1>5. Frame(u) = LastFrame(x, c)  BY <1>2, <1>4
<1>6. IsFrame(x) /\ x.state = "chunked"  BY <1>4 DEF Frame, IsFrame, FrameFields
<1>7. u.state \in {"chunked", "done"} /\ u.state = LastFrame(x, c).state
  <2>1. Frame(u).state = u.state  BY DEF Frame
  <2>2. LastFrame(x, c).state \in {"chunked", "done"}  BY <1>3, <1>6, FramesType
  <2> QED  BY <1>5, <2>1, <2>2
<1>8. ASSUME NEW k \in 0 .. l, LastFrame(x, SubSeq(o, 1, k)).state = "done" PROVE k = l
  <2>1. PICK e \in Seq(Octets) : e = SubSeq(o, 1, k)
    <3>1. SubSeq(o, 1, k) \in Seq(Octets)  BY <1>1, Pieces
    <3> QED  BY <3>1
  <2>2. T!handle_chunked_write(t, e).state = LastFrame(Frame(t), e).state  BY Chunked
  <2>3. T!handle_chunked_write(t, e).state = "done"  BY <1>4, <1>8, <2>1, <2>2
  <2> QED  BY <1>1, <2>1, <2>3
<1>9. u.state = "done" => d = <<>>
  <2>1. ASSUME u.state = "done" PROVE d = <<>>
    <3>1. n = l  BY <1>1, <1>2, <1>7, <1>8, <2>1
    <3>2. Len(d) = 0  BY <1>3, <3>1
    <3> QED  BY <1>3, <3>2
  <2> QED  BY <2>1
<1>10. ASSUME NEW m \in 0 .. Len(d), T!handle_chunked_write(u, SubSeq(d, 1, m)).state = "done"
       PROVE  m = Len(d)
  <2>1. PICK e \in Seq(Octets) : e = SubSeq(d, 1, m)
    <3>1. SubSeq(d, 1, m) \in Seq(Octets)  BY <1>3, Pieces
    <3> QED  BY <3>1
  <2>2. LastFrame(Frame(u), e).state = "done"  BY <1>10, <2>1, Chunked
  <2>3. LastFrame(x, c \o e).state = "done"
    <3>1. LastFrame(LastFrame(x, c), e) = LastFrame(x, c \o e)  BY <1>3, FramesSplit
    <3> QED  BY <1>5, <2>2, <3>1
  <2>4. c \o e = SubSeq(o, 1, n + m)  BY <1>3, <2>1
  <2>5. PICK k \in 0 .. l : k = n + m  BY <1>1, <1>3
  <2>6. k = l  BY <1>8, <2>3, <2>4, <2>5
  <2> QED  BY <1>1, <1>3, <2>5, <2>6
<1>11. Expected(u, d)
  <2>1. CASE u.state = "done"  BY <1>9, <2>1 DEF Expected
  <2>2. CASE u.state = "chunked"  BY <1>10, <2>2 DEF Expected
  <2> QED  BY <1>7, <2>1, <2>2
<1> QED  BY <1>1, <1>2, <1>11

(* What is read into the ring is read back from it. *)
LEMMA DataWritten ==
    ASSUME NEW t, RingType(t), NEW o \in Seq(Octets), Expected(t, o),
           NEW at, NEW size, Room(t, at, size), t.state = "size_given" => size <= t.body_size,
           NEW n \in Nat, 1 <= n, n <= size, n <= Len(o)
    PROVE  LET u == T!data_written(t, at, SubSeq(o, 1, n))
           IN  /\ RingType(u) /\ Content(u) = Content(t) \o SubSeq(o, 1, n)
               /\ Expected(u, SubSeq(o, n + 1, Len(o)))
               /\ u.unparsed = t.unparsed /\ u.start = t.start /\ Contiguous(t) <= Contiguous(u)
<1>1. PICK data, rest : data = SubSeq(o, 1, n) /\ rest = SubSeq(o, n + 1, Len(o))  OBVIOUS
<1>2. n \in 0 .. Len(o) /\ Len(o) \in Nat  OBVIOUS
<1>3. data \in Seq(Octets) /\ rest \in Seq(Octets) /\ Len(data) = n /\ Len(rest) = Len(o) - n
      BY <1>1, <1>2, Pieces
<1>4. PICK u : u = T!data_written(t, at, data)  OBVIOUS
<1> DEFINE F == IF t.end = Size THEN 0 ELSE t.end
           W == [t EXCEPT !.buffer = [i \in DOMAIN @ |->
                    IF i \in at .. at + Len(data) - 1 THEN data[i - at + 1] ELSE @[i]]]
           S(w, from) ==
              IF t.state = "no_size_given" THEN [w EXCEPT !.state = IF Len(data) = 0 THEN "done" ELSE @]
              ELSE IF t.state = "size_given"
              THEN [w EXCEPT !.body_size = @ - Len(data),
                             !.state = IF t.body_size = Len(data) THEN "done" ELSE @]
              ELSE T!handle_chunked_write(w, [i \in 1 .. Len(data) |-> w.buffer[from + i - 1]])
           Z(from) == IF from + Len(data) = Size /\ t.start # 0 THEN 0 ELSE from + Len(data)
<1>a. u = [S(W, F) EXCEPT !.end = Z(F)]  BY <1>4 DEF T!data_written
<1>5. PICK from, w : from = F /\ w = W  OBVIOUS
<1>s. Size \in Nat /\ Size # 0 /\ n \in Nat  OBVIOUS
<1>6. /\ DOMAIN t = BufferFields /\ DOMAIN t.buffer = 0 .. Size - 1 /\ from = From(t) /\ at = from
      /\ t.start \in 0 .. Size - 1 /\ t.end \in 0 .. Size /\ from + n <= Size /\ from \in Nat
  <2>1. /\ DOMAIN t = BufferFields /\ DOMAIN t.buffer = 0 .. Size - 1 /\ from = From(t) /\ at = from
        /\ t.start \in 0 .. Size - 1 /\ t.end \in 0 .. Size /\ size \in Nat /\ at + size <= Size
        BY <1>5 DEF RingType, Room, From
  <2>2. from \in Nat
    <3>1. PICK e \in 0 .. Size : e = t.end  BY <2>1
    <3> QED  BY <1>s, <1>5, <3>1
  <2> QED  BY <1>s, <2>1, <2>2
<1>7. /\ DOMAIN w = BufferFields /\ w.unparsed = t.unparsed /\ w.start = t.start /\ w.end = t.end
      /\ w.buffer = [i \in DOMAIN t.buffer |->
                        IF i \in at .. at + n - 1 THEN data[i - at + 1] ELSE t.buffer[i]]
      /\ w.state = t.state /\ w.body_size = t.body_size /\ w.current_chunk = t.current_chunk
      /\ w.chunked_state = t.chunked_state /\ w.error = t.error
      BY <1>3, <1>5, <1>6 DEF BufferFields
<1>8. PICK z, s : z = Z(from) /\ s = S(w, from) /\ u = [s EXCEPT !.end = z]
  <2> HIDE DEF S, Z, W, F
  <2>1. u = [S(w, from) EXCEPT !.end = Z(from)]  BY <1>5, <1>a
  <2> QED  BY <2>1
<1>9. /\ z = (IF from + n = Size /\ t.start # 0 THEN 0 ELSE from + n) /\ u = [s EXCEPT !.end = z]
      /\ s = (IF t.state = "no_size_given" THEN [w EXCEPT !.state = IF n = 0 THEN "done" ELSE @]
              ELSE IF t.state = "size_given"
              THEN [w EXCEPT !.body_size = @ - n, !.state = IF t.body_size = n THEN "done" ELSE @]
              ELSE T!handle_chunked_write(w, [i \in 1 .. n |-> w.buffer[from + i - 1]]))
      BY <1>3, <1>8, Zenon
<1>10. ASSUME DOMAIN s = BufferFields, s.unparsed = t.unparsed, s.start = t.start, s.buffer = w.buffer
       PROVE  /\ RingType(u) /\ Content(u) = Content(t) \o data
              /\ u.unparsed = t.unparsed /\ u.start = t.start /\ Contiguous(t) <= Contiguous(u)
              /\ DOMAIN u = BufferFields /\ u.state = s.state /\ u.body_size = s.body_size
              /\ Frame(u) = Frame(s)
  <2>1. /\ DOMAIN u = BufferFields /\ u.unparsed = t.unparsed /\ u.start = t.start /\ u.buffer = w.buffer
        /\ u.end = z /\ u.state = s.state /\ u.body_size = s.body_size
        /\ u.current_chunk = s.current_chunk /\ u.chunked_state = s.chunked_state /\ u.error = s.error
        BY <1>9, <1>10 DEF BufferFields
  <2>2. Len(data) \in 1 .. size /\ size \in Nat  BY <1>3 DEF Room
  <2>3. RingType(u) /\ Content(u) = Content(t) \o data /\ Contiguous(t) <= Contiguous(u)
    <3>1. u.end = IF From(t) + Len(data) = Size /\ t.start # 0 THEN 0 ELSE From(t) + Len(data)
          BY <1>3, <1>6, <1>9, <2>1
    <3>2. /\ DOMAIN u.buffer = 0 .. Size - 1
          /\ \A i \in 0 .. Size - 1 :
                u.buffer[i] = IF i \in at .. at + Len(data) - 1 THEN data[i - at + 1] ELSE t.buffer[i]
          BY <1>3, <1>6, <1>7, <2>1
    <3>3. data \in Seq(Octets) /\ DOMAIN u = BufferFields /\ u.unparsed = t.unparsed /\ u.start = t.start  BY <1>3, <2>1
    <3> QED  BY <2>2, <3>1, <3>2, <3>3, RingAppend, ZenonT(60)
  <2> QED  BY <2>1, <2>3 DEF Frame
<1>11. t.state # "done"
  <2>1. t.state = "done" => o = <<>>  BY DEF Expected
  <2> QED  BY <2>1
<1>12. CASE t.state = "no_size_given"
  <2>1. s = [w EXCEPT !.state = IF n = 0 THEN "done" ELSE @]  BY <1>9, <1>12
  <2>2. /\ DOMAIN s = BufferFields /\ s.unparsed = t.unparsed /\ s.start = t.start /\ s.buffer = w.buffer
        /\ s.state = "no_size_given" /\ s.body_size = t.body_size
        BY <1>7, <1>12, <2>1 DEF BufferFields
  <2>3. Expected(u, rest)  BY <1>10, <1>12, <2>2 DEF Expected
  <2> QED  BY <1>1, <1>4, <1>10, <2>2, <2>3
<1>13. CASE t.state = "size_given"
  <2>1. s = [w EXCEPT !.body_size = @ - n, !.state = IF t.body_size = n THEN "done" ELSE @]
        BY <1>9, <1>13
  <2>2. /\ DOMAIN s = BufferFields /\ s.unparsed = t.unparsed /\ s.start = t.start /\ s.buffer = w.buffer
        /\ s.state = (IF t.body_size = n THEN "done" ELSE "size_given") /\ s.body_size = t.body_size - n
        BY <1>7, <1>13, <2>1 DEF BufferFields
  <2>3. t.body_size \in Nat /\ Len(o) <= t.body_size /\ n <= t.body_size
        BY <1>2, <1>13 DEF Expected, Room
  <2>6. Expected(u, rest)
    <3>4. CASE t.body_size = n
      <4>1. Len(rest) = 0  BY <1>2, <1>3, <2>3, <3>4
      <4>2. rest = <<>>  BY <1>3, <4>1
      <4>3. u.state = "done"  BY <1>10, <2>2, <3>4
      <4> QED  BY <4>2, <4>3 DEF Expected
    <3>5. CASE t.body_size # n
      <4>1. u.state = "size_given" /\ u.body_size = t.body_size - n  BY <1>10, <2>2, <3>5
      <4>2. t.body_size - n \in Nat \ {0} /\ Len(rest) <= t.body_size - n  BY <1>2, <1>3, <2>3, <3>5
      <4> QED  BY <4>1, <4>2 DEF Expected
    <3> QED  BY <3>4, <3>5
  <2> QED  BY <1>1, <1>4, <1>10, <2>2, <2>6
<1>14. CASE t.state = "chunked"
  <2>1. [i \in 1 .. n |-> w.buffer[from + i - 1]] = data
    <3>1. ASSUME NEW i \in 1 .. n PROVE w.buffer[from + i - 1] = data[i]
      <4>1. PICK j \in 0 .. Size - 1 : j = from + i - 1 /\ j \in at .. at + n - 1 /\ j - at + 1 = i
        <5>1. /\ from + i - 1 \in 0 .. Size - 1 /\ from + i - 1 \in at .. at + n - 1
              /\ (from + i - 1) - at + 1 = i
          <6>1. i \in Nat /\ 1 <= i /\ i <= n /\ at = from  BY <1>6
          <6> QED  BY <1>s, <1>6, <6>1, SMTT(30)
        <5> QED  BY <5>1
      <4>2. w.buffer[j] = data[j - at + 1]  BY <1>6, <1>7, <4>1
      <4> QED  BY <4>1, <4>2
    <3>2. data = [i \in 1 .. n |-> data[i]]  BY <1>3
    <3> QED  BY <3>1, <3>2
  <2>2. s = T!handle_chunked_write(w, data)  BY <1>9, <1>14, <2>1
  <2>3. /\ DOMAIN s = BufferFields /\ s.unparsed = t.unparsed /\ s.start = t.start /\ s.buffer = w.buffer
        /\ s.body_size = t.body_size /\ Frame(s) = LastFrame(Frame(w), data)
        BY <1>3, <1>7, <2>2, Chunked, ZenonT(60)
  <2>4. Frame(w) = Frame(t)  BY <1>7 DEF Frame
  <2>5. /\ DOMAIN u = BufferFields /\ u.body_size = Size /\ Frame(u) = LastFrame(Frame(t), SubSeq(o, 1, n))
        BY <1>1, <1>10, <1>14, <2>3, <2>4 DEF Expected
  <2>6. \A k \in 0 .. Len(o) : T!handle_chunked_write(t, SubSeq(o, 1, k)).state = "done" => k = Len(o)
        BY <1>14 DEF Expected
  <2>7. Expected(u, rest)  BY <1>1, <1>2, <1>6, <1>14, <2>5, <2>6, ChunksExpected
  <2> QED  BY <1>1, <1>4, <1>10, <2>3, <2>7
<1> QED  BY <1>11, <1>12, <1>13, <1>14 DEF Expected

(* The room that write_buffer() offers is free. *)
LEMMA WriteRoom ==
    ASSUME NEW t, RingType(t), NEW o, Expected(t, o)
    PROVE  LET w == T!write_buffer(t)
           IN  /\ w[2] # 0 => Room(t, w[1], w[2])
               /\ t.state = "size_given" => w[2] <= t.body_size
               /\ w[2] = 0 => t.state = "done" \/ Contiguous(t) # 0
<1>1. PICK s \in 0 .. Size - 1, e \in 0 .. Size : s = t.start /\ e = t.end  BY DEF RingType
<1>s. Size \in Nat /\ Size # 0  OBVIOUS
<1>2. PICK a, n : a = T!write_buffer(t)[1] /\ n = T!write_buffer(t)[2]  OBVIOUS
<1>3. CASE t.state = "done"
  <2>1. n = 0  BY <1>2, <1>3 DEF T!write_buffer
  <2> QED  BY <1>2, <1>3, <2>1
<1>4. CASE t.state # "done"
  <2>1. PICK b \in Nat : b = t.body_size /\ b # 0  
    <3>1. t.body_size \in Nat /\ t.body_size # 0  BY <1>s, <1>4 DEF Expected
    <3> QED  BY <3>1
  <2>2. T!write_buffer(t) =
           IF s > e THEN <<e, T!min(s - e - 1, b)>>
           ELSE IF e = Size /\ s # 0 THEN <<0, T!min(s - 1, b)>>
           ELSE <<e, T!min(Size - e, b)>>
        BY <1>1, <1>4, <2>1 DEF T!write_buffer
  <2>3. \A x \in Nat : T!min(x, b) \in Nat /\ T!min(x, b) <= x /\ T!min(x, b) <= b /\ (T!min(x, b) = 0 => x = 0)
        BY <2>1 DEF T!min
  <2>4. CASE s > e
    <3>1. PICK x \in Nat : x = s - e - 1  BY <2>4
    <3>2. a = e /\ n = T!min(x, b)  BY <1>2, <2>2, <2>4, <3>1
    <3>3. n \in Nat /\ n <= x /\ n <= b  BY <2>3, <3>1, <3>2
    <3>4. e # Size /\ a + n <= Size /\ a + n < s /\ Size - s # 0  BY <1>s, <2>4, <3>1, <3>2, <3>3
    <3> QED  BY <1>1, <1>2, <2>1, <2>4, <3>2, <3>3, <3>4 DEF Room, From, Contiguous
  <2>5. CASE ~(s > e) /\ e = Size /\ s # 0
    <3>1. PICK x \in Nat : x = s - 1  BY <2>5
    <3>2. a = 0 /\ n = T!min(x, b)  BY <1>2, <2>2, <2>5, <3>1
    <3>3. n \in Nat /\ n <= x /\ n <= b  BY <2>3, <3>1, <3>2
    <3>4. a + n <= Size /\ a + n < s /\ e - s # 0  BY <2>5, <3>1, <3>2, <3>3
    <3> QED  BY <1>1, <1>2, <2>1, <2>5, <3>2, <3>3, <3>4 DEF Room, From, Contiguous
  <2>6. CASE ~(s > e) /\ ~(e = Size /\ s # 0)
    <3>1. PICK x \in Nat : x = Size - e
      <4>1. Size - e \in Nat  BY <1>s
      <4> QED  BY <4>1
    <3>2. a = e /\ n = T!min(x, b)  BY <1>2, <2>2, <2>6, <3>1
    <3>3. n \in Nat /\ n <= x /\ n <= b /\ (n = 0 => x = 0)  BY <2>3, <3>1, <3>2
    <3>4. a + n <= Size /\ (n # 0 => e # Size) /\ (n = 0 => e = Size /\ e - s # 0)
          BY <1>s, <2>6, <3>1, <3>2, <3>3
    <3> QED  BY <1>1, <1>2, <2>1, <2>6, <3>2, <3>3, <3>4 DEF Room, From, Contiguous
  <2> QED  BY <2>4, <2>5, <2>6
<1> QED  BY <1>3, <1>4

-----------------------------------------------------------------------------
Fields ==
    {"pc", "socket", "restarts", "requesting", "header", "reading", "writing", "exists", "buffer",
     "listed", "sending", "outcome", "answer", "got"}

PoolType ==
    /\ max_connections \in Nat /\ idle \in Seq(Conns) /\ connecting \in SUBSET Conns /\ in_use \in SUBSET Conns
    /\ call_back \in [Conns -> Responses \cup {None}]
    /\ posted \in SUBSET (Responses \X Conns)

(* No connection is twice in the list s. *)
Once(s) == \A i, j \in 1 .. Len(s) : s[i] = s[j] => i = j

(* A connection is in one place of one list. *)
Lists ==
    /\ Once(idle)
    /\ \A i \in 1 .. Len(idle) : idle[i] \notin connecting \cup in_use
    /\ connecting \cap in_use = {}

(* Nothing of an answer has been seen. *)
Unanswered(p) == p.writing = <<>> /\ p.buffer.state # "done"

(* The header is read before anything is written, the body if there is one. *)
Fits(p, kind) == IF kind = "header" THEN p.writing = <<>> ELSE p.exists

(* What a response has pending.  It reads only as long as the body is not  *)
(* complete, and with a connection; it can be restarted as long as nothing *)
(* was received.                                                           *)
Sound(p) ==
    /\ DOMAIN p = Fields /\ DOMAIN p.buffer = BufferFields
    /\ p.socket \in Conns \cup {None} /\ p.restarts \in Nat
    /\ p.pc \in {"new", "restarting", "active", "gone", "assertion"}
    /\ p.pc \in {"new", "restarting", "gone"} => p.socket = None
    /\ p.pc = "new" => Unreferenced(p)
    /\ ~Unreferenced(p) => p.socket # None
    /\ p.reading # <<>> => p.buffer.state # "done" /\ Fits(p, p.reading[1])
    /\ p.writing # <<>> /\ p.writing[1] = "body" => p.exists
    /\ p.requesting \/ p.restarts < MaxRestarts \/ p.pc \in {"new", "restarting"} => Unanswered(p)
    /\ p.requesting => p.reading = <<>>

Responding == DOMAIN resp = Responses /\ \A r \in Responses : Sound(resp[r])

(* Who waits for a connection has none, and nothing else to do. *)
Idle(p) == p.pc = "active" /\ p.socket = None /\ Unreferenced(p) /\ Unanswered(p)

Waits ==
    /\ \A c \in connecting : call_back[c] \in Responses /\ Idle(resp[call_back[c]])
    /\ \A r \in Responses, c \in Conns : <<r, c>> \in posted => Idle(resp[r])

(* It waits for one. *)
OneCall ==
    /\ \A c, d \in connecting : call_back[c] = call_back[d] => c = d
    /\ \A c \in connecting, d \in Conns : <<call_back[c], d>> \notin posted
    /\ \A r \in Responses, c, d \in Conns : <<r, c>> \in posted /\ <<r, d>> \in posted => c = d

Holds(r, c) == resp[r].socket = c \/ <<r, c>> \in posted

Held ==
    /\ \A r \in Responses, c \in Conns : Holds(r, c) => c \in in_use
    /\ \A r, s \in Responses, c \in Conns : Holds(r, c) /\ Holds(s, c) => r = s
    /\ \A c \in in_use : \E r \in Responses : Holds(r, c)

WithinLimit == Len(idle) + Cardinality(connecting) + Cardinality(in_use) <= max_connections

PInv == PoolType /\ Lists /\ Responding /\ Waits /\ OneCall /\ Held /\ WithinLimit

-----------------------------------------------------------------------------
(* One response *)

(* A new response has nothing pending. *)
LEMMA NewSound ==
    /\ Sound(NewResponse) /\ Unreferenced(NewResponse) /\ Unanswered(NewResponse)
    /\ NewResponse.pc = "new" /\ NewResponse.socket = None /\ NewResponse.restarts = 0
<1>1. T!NewBuffer.state # "done" /\ DOMAIN T!NewBuffer = BufferFields
      BY DEF T!NewBuffer, BufferFields
<1>2. DOMAIN NewResponse = Fields  BY DEF NewResponse, Fields
<1>3. /\ NewResponse.pc = "new" /\ NewResponse.socket = None /\ NewResponse.restarts = 0
      /\ NewResponse.requesting = FALSE /\ NewResponse.reading = <<>> /\ NewResponse.writing = <<>>
      /\ NewResponse.buffer = T!NewBuffer
      BY DEF NewResponse
<1> QED  BY <1>1, <1>2, <1>3 DEF Sound, Unreferenced, Unanswered, Fits

(* The destructor leaves nothing behind. *)
LEMMA DestroyedSound ==
    ASSUME NEW p
    PROVE  Sound(Destroyed(p)) /\ Destroyed(p).socket = None /\ Destroyed(p).pc = "gone"
<1>1. DOMAIN NewResponse = Fields  BY NewSound DEF Sound
<1>2. /\ DOMAIN Destroyed(p) = Fields /\ Destroyed(p).pc = "gone"
      /\ Destroyed(p).socket = NewResponse.socket /\ Destroyed(p).restarts = NewResponse.restarts
      /\ Destroyed(p).requesting = NewResponse.requesting
      /\ Destroyed(p).reading = NewResponse.reading /\ Destroyed(p).writing = NewResponse.writing
      /\ Destroyed(p).buffer = NewResponse.buffer
      BY <1>1 DEF Destroyed, Fields
<1> QED  BY <1>2, NewSound DEF Sound, Unreferenced, Unanswered, Fits

(* response_not_possible() changes nothing that is pending. *)
LEMMA NotPossibleSound ==
    ASSUME NEW p, Sound(p), p.pc = "active", NEW answer
    PROVE  /\ Sound(NotPossible(p, answer)) /\ NotPossible(p, answer).socket = p.socket
           /\ NotPossible(p, answer).pc \in {"active", "assertion"}
<1>1. PICK q : q = NotPossible(p, answer)  OBVIOUS
<1>2. /\ DOMAIN q = Fields /\ q.socket = p.socket /\ q.restarts = p.restarts
      /\ q.requesting = p.requesting /\ q.reading = p.reading /\ q.writing = p.writing
      /\ q.buffer = p.buffer /\ q.exists = p.exists /\ q.pc \in {"active", "assertion"}
      BY <1>1 DEF NotPossible, Sound, Fields
<1> QED  BY <1>1, <1>2 DEF Sound, Unreferenced, Unanswered, Fits

-----------------------------------------------------------------------------
(* The ring *)

(* Nothing is read once the body is complete. *)
LEMMA NoneAfterDone ==
    ASSUME NEW t, t.state = "done"
    PROVE  T!write_buffer(t)[2] = 0
BY DEF T!write_buffer

LEMMA ChunkedFields ==
    ASSUME NEW t, DOMAIN t = BufferFields, NEW data
    PROVE  DOMAIN T!handle_chunked_write(t, data) = BufferFields
BY DEF T!handle_chunked_write

LEMMA StartFields ==
    ASSUME NEW kind, NEW length, NEW data
    PROVE  DOMAIN T!start(kind, length, data) = BufferFields
<1>1. DOMAIN T!NewBuffer = BufferFields  BY DEF T!NewBuffer, BufferFields
<1> DEFINE t == [T!NewBuffer EXCEPT !.unparsed = data, !.body_size = Size]
<1>2. DOMAIN t = BufferFields  BY <1>1
<1>3. DOMAIN [t EXCEPT !.state = "chunked"] = BufferFields  BY <1>2
<1> HIDE DEF t
<1>4. DOMAIN T!handle_chunked_write([t EXCEPT !.state = "chunked"], data) = BufferFields
      BY <1>3, ChunkedFields
<1>5. \A x, y : DOMAIN [t EXCEPT !.body_size = x, !.state = y] = BufferFields  BY <1>2
<1> QED  BY <1>2, <1>4, <1>5 DEF T!start, t

LEMMA WrittenFields ==
    ASSUME NEW t, DOMAIN t = BufferFields, NEW at, NEW data
    PROVE  DOMAIN T!data_written(t, at, data) = BufferFields
<1> DEFINE n == Len(data)
           from == IF t.end = Size THEN 0 ELSE t.end
           w == [t EXCEPT !.buffer = [i \in DOMAIN @ |->
                     IF i \in at .. at + n - 1 THEN data[i - at + 1] ELSE @[i]]]
           s == IF t.state = "no_size_given" THEN [w EXCEPT !.state = IF n = 0 THEN "done" ELSE @]
                ELSE IF t.state = "size_given"
                THEN [w EXCEPT !.body_size = @ - n, !.state = IF t.body_size = n THEN "done" ELSE @]
                ELSE T!handle_chunked_write(w, [i \in 1 .. n |-> w.buffer[from + i - 1]])
<1>1. DOMAIN w = BufferFields  OBVIOUS
<1>2. \A d : DOMAIN T!handle_chunked_write(w, d) = BufferFields
  <2> HIDE DEF w
  <2> QED  BY <1>1, ChunkedFields
<1>3. DOMAIN s = BufferFields
  <2> HIDE DEF w, n, from
  <2> QED  BY <1>1, <1>2
<1>4. DOMAIN [s EXCEPT !.end = IF from + n = Size /\ t.start # 0 THEN 0 ELSE from + n] = BufferFields
  <2> HIDE DEF s, n, from
  <2> QED  BY <1>3
<1> QED  BY <1>4 DEF T!data_written

LEMMA ReadFields ==
    ASSUME NEW t, DOMAIN t = BufferFields, NEW n
    PROVE  DOMAIN T!data_read(t, n) = BufferFields /\ T!data_read(t, n).state = t.state
BY DEF T!data_read, BufferFields

-----------------------------------------------------------------------------
(* What a response asks for *)

(* The parts of a response that its connection depends on. *)
Same(p, q) ==
    /\ q.pc = p.pc /\ q.socket = p.socket /\ q.restarts = p.restarts
    /\ q.requesting = p.requesting /\ q.exists = p.exists /\ q.buffer = p.buffer

(* The header has been read. *)
BodyOnly(p) == p.reading # <<>> => p.reading[1] # "header"

LEMMA ReadSound ==
    ASSUME NEW p, Sound(p), p.socket # None, ~p.requesting, NEW kind, Fits(p, kind), NEW at,
           NEW size, p.buffer.state # "done" \/ size = 0
    PROVE  /\ Sound(issue_read(p, kind, at, size)) /\ Same(p, issue_read(p, kind, at, size))
           /\ issue_read(p, kind, at, size).writing = p.writing
           /\ p.reading # <<>> \/ issue_read(p, kind, at, size).reading \in {<<>>, <<kind, at, size>>}
           /\ p.reading # <<>> => issue_read(p, kind, at, size).reading = p.reading
<1>1. PICK q : q = issue_read(p, kind, at, size)  OBVIOUS
<1>2. /\ DOMAIN q = Fields /\ Same(p, q) /\ q.writing = p.writing
      /\ p.reading # <<>> => q.reading = p.reading
      /\ p.reading = <<>> => q.reading = <<>> \/ (q.reading = <<kind, at, size>> /\ p.buffer.state # "done")
      BY <1>1 DEF issue_read, Sound, Fields, Same
<1>3. q.reading # <<>> => q.buffer.state # "done" /\ Fits(q, q.reading[1])
  <2>1. CASE p.reading # <<>>  BY <1>2, <2>1 DEF Sound, Same, Fits
  <2>2. CASE p.reading = <<>>
    <3>1. q.reading # <<>> => q.reading[1] = kind  BY <1>2, <2>2
    <3> QED  BY <1>2, <2>2, <3>1 DEF Same, Fits
  <2> QED  BY <2>1, <2>2
<1>4. Sound(q)  BY <1>2, <1>3 DEF Sound, Unreferenced, Unanswered, Same
<1> QED  BY <1>1, <1>2, <1>4

LEMMA WriteSound ==
    ASSUME NEW p, Sound(p), p.pc = "active", p.socket # None, ~p.requesting,
           p.restarts >= MaxRestarts, p.exists, BodyOnly(p)
    PROVE  /\ Sound(issue_write(p)) /\ issue_write(p).socket = p.socket
           /\ issue_write(p).pc \in {"active", "assertion"}
<1>1. PICK q : q = issue_write(p)  OBVIOUS
<1>2. /\ DOMAIN q = Fields /\ q.socket = p.socket /\ q.restarts = p.restarts
      /\ q.requesting = p.requesting /\ q.exists = p.exists /\ q.buffer = p.buffer
      /\ q.reading = p.reading /\ q.pc \in {"active", "assertion"}
      BY <1>1 DEF issue_write, Sound, Fields
<1> QED  BY <1>1, <1>2 DEF Sound, Unreferenced, Unanswered, Fits, BodyOnly

LEMMA TransferSound ==
    ASSUME NEW p, Sound(p), p.pc = "active", p.socket # None, ~p.requesting,
           p.restarts >= MaxRestarts, p.exists, BodyOnly(p)
    PROVE  /\ Sound(Transfer(p)) /\ Transfer(p).socket = p.socket
           /\ Transfer(p).pc \in {"active", "assertion"}
<1>1. PICK w : w = T!write_buffer(p.buffer)  OBVIOUS
<1>2. p.buffer.state # "done" \/ w[2] = 0  BY <1>1, NoneAfterDone
<1>3. PICK q : q = issue_read(p, "body", w[1], w[2])  OBVIOUS
<1>4. Sound(q) /\ Same(p, q)  BY <1>2, <1>3, ReadSound DEF Fits
<1>7. BodyOnly(q)
  <2>1. p.reading # <<>> => q.reading = p.reading  BY <1>2, <1>3, ReadSound DEF Fits
  <2>2. p.reading # <<>> \/ q.reading \in {<<>>, <<"body", w[1], w[2]>>}
        BY <1>2, <1>3, ReadSound DEF Fits
  <2> QED  BY <2>1, <2>2 DEF BodyOnly
<1>5. Sound(issue_write(q)) /\ issue_write(q).socket = q.socket
      /\ issue_write(q).pc \in {"active", "assertion"}
      BY <1>4, <1>7, WriteSound DEF Same
<1>6. Transfer(p) = issue_write(q)  BY <1>1, <1>3 DEF Transfer
<1> QED  BY <1>4, <1>5, <1>6 DEF Same

(* handle_read_from_orgin() with a part of the header. *)
LEMMA HeaderSound ==
    ASSUME NEW p, Sound(p), p.pc = "active", p.socket # None, ~p.requesting,
           p.restarts >= MaxRestarts, p.reading = <<>>, p.writing = <<>>,
           p.buffer.state # "done", NEW data
    PROVE  /\ Sound(ReadHeader(p, data)) /\ ReadHeader(p, data).socket = p.socket
           /\ ReadHeader(p, data).pc \in {"active", "assertion"}
<1>1. PICK m : m = H!parse(p.header, data)  OBVIOUS
<1>2. PICK q : q = [p EXCEPT !.header = m]  OBVIOUS
<1>3. DOMAIN q = Fields /\ Same(p, q) /\ q.reading = <<>> /\ q.writing = <<>>
      BY <1>2 DEF Sound, Fields, Same
<1>4. Sound(q)  BY <1>3 DEF Sound, Same, Unreferenced, Unanswered, Fits
<1>5. CASE m.error = "parsing"
  <2>1. ReadHeader(p, data) = issue_read(q, "header", 0, H!read_buffer(m))
        BY <1>1, <1>2, <1>5 DEF ReadHeader
  <2> QED  BY <1>3, <1>4, <2>1, ReadSound DEF Same, Fits
<1>6. CASE m.error # "parsing" /\ m.error # "ok"
  <2>1. ReadHeader(p, data) = NotPossible(q, TRUE)  BY <1>1, <1>2, <1>6 DEF ReadHeader
  <2>2. q.pc = "active" /\ q.socket = p.socket  BY <1>3 DEF Same
  <2> QED  BY <1>4, <2>1, <2>2, NotPossibleSound
<1>7. CASE m.error = "ok"
  <2>1. PICK f : f = [forward_header(q) EXCEPT !.exists = H!body_expected(m, p.answer.method)]
        OBVIOUS
  <2>2. /\ DOMAIN f = Fields /\ f.pc = p.pc /\ f.socket = p.socket /\ f.restarts = p.restarts
        /\ f.requesting = p.requesting /\ f.buffer = p.buffer /\ f.reading = <<>>
        /\ f.writing[1] = "header"
        BY <1>3, <2>1 DEF forward_header, Same, Fields
  <2>3. Sound(f)  BY <1>4, <2>2 DEF Sound, Unreferenced, Unanswered, Fits
  <2>4. PICK b : /\ DOMAIN b = BufferFields
                 /\ ReadHeader(p, data) = IF f.exists THEN Transfer([f EXCEPT !.buffer = b]) ELSE f
        BY <1>1, <1>2, <1>7, <2>1, StartFields DEF ReadHeader
  <2>5. CASE ~f.exists  BY <2>2, <2>3, <2>4, <2>5
  <2>6. CASE f.exists
    <3>1. PICK g : g = [f EXCEPT !.buffer = b]  OBVIOUS
    <3>2. /\ DOMAIN g = Fields /\ g.pc = p.pc /\ g.socket = p.socket /\ g.restarts = p.restarts
          /\ g.requesting = p.requesting /\ g.buffer = b /\ g.reading = <<>> /\ g.exists = f.exists
          /\ g.writing = f.writing
          BY <2>2, <3>1 DEF Fields
    <3>3. Sound(g)
      <4>1. /\ g.socket \in Conns /\ g.socket # None /\ g.restarts \in Nat
            /\ ~(g.restarts < MaxRestarts) /\ g.pc = "active" /\ ~g.requesting
            BY <2>3, <2>2, <3>2 DEF Sound
      <4>2. ~(g.writing[1] = "body")  BY <2>2, <3>2
      <4>3. DOMAIN g = Fields /\ DOMAIN g.buffer = BufferFields /\ g.reading = <<>>
            BY <2>4, <3>2
      <4> QED  BY <4>1, <4>2, <4>3 DEF Sound, Unreferenced
    <3>4. BodyOnly(g) /\ g.exists  BY <2>6, <3>2 DEF BodyOnly
    <3>5. ReadHeader(p, data) = Transfer(g)  BY <2>4, <2>6, <3>1
    <3> QED  BY <3>2, <3>3, <3>4, <3>5, TransferSound
  <2> QED  BY <2>5, <2>6
<1> QED  BY <1>5, <1>6, <1>7

-----------------------------------------------------------------------------
(* The lists of connections *)

LEMMA Counted ==
    ASSUME NEW S \in SUBSET Conns
    PROVE  /\ IsFiniteSet(S) /\ Cardinality(S) \in Nat
           /\ \A c : c \notin S => Cardinality(S \cup {c}) = Cardinality(S) + 1
           /\ \A c : c \in S => Cardinality(S \ {c}) = Cardinality(S) - 1
<1>1. IsFiniteSet(S)  BY FS_Subset
<1>2. Cardinality(S) \in Nat  BY <1>1, FS_CardinalityType
<1> QED  BY <1>1, <1>2, FS_AddElement, FS_RemoveElement

LEMMA OnceAppend ==
    ASSUME NEW s \in Seq(Conns), Once(s), NEW c \in Conns, \A i \in 1 .. Len(s) : s[i] # c
    PROVE  /\ Append(s, c) \in Seq(Conns) /\ Once(Append(s, c)) /\ Len(Append(s, c)) = Len(s) + 1
           /\ \A i \in 1 .. Len(Append(s, c)) :
                 Append(s, c)[i] = c \/ \E j \in 1 .. Len(s) : Append(s, c)[i] = s[j]
<1>1. PICK t : t = Append(s, c)  OBVIOUS
<1>2. /\ t \in Seq(Conns) /\ Len(t) = Len(s) + 1 /\ t[Len(s) + 1] = c
      /\ \A i \in 1 .. Len(s) : t[i] = s[i]
      BY <1>1
<1>3. \A i \in 1 .. Len(t) : i = Len(s) + 1 \/ i \in 1 .. Len(s)  BY <1>2
<1>4. Once(t)  BY <1>2, <1>3 DEF Once
<1> QED  BY <1>1, <1>2, <1>3, <1>4

LEMMA OnceTail ==
    ASSUME NEW s \in Seq(Conns), Once(s), s # <<>>
    PROVE  /\ Head(s) \in Conns /\ Head(s) = s[1] /\ 1 \in 1 .. Len(s)
           /\ Tail(s) \in Seq(Conns) /\ Once(Tail(s)) /\ Len(Tail(s)) = Len(s) - 1
           /\ \A i \in 1 .. Len(Tail(s)) :
                 Tail(s)[i] # Head(s) /\ \E j \in 1 .. Len(s) : Tail(s)[i] = s[j]
<1>1. PICK t : t = Tail(s)  OBVIOUS
<1>2. /\ t \in Seq(Conns) /\ Len(t) = Len(s) - 1 /\ Len(s) \in Nat /\ Len(s) # 0
      /\ \A i \in 1 .. Len(t) : t[i] = s[i + 1]
      BY <1>1
<1>3. \A i \in 1 .. Len(t) : i + 1 \in 1 .. Len(s) /\ i + 1 # 1  BY <1>2
<1>4. 1 \in 1 .. Len(s) /\ Head(s) = s[1]  BY <1>2
<1>5. Once(t)
  <2> SUFFICES ASSUME NEW i \in 1 .. Len(t), NEW j \in 1 .. Len(t), t[i] = t[j] PROVE i = j
      BY DEF Once
  <2>1. i + 1 = j + 1  BY <1>2, <1>3 DEF Once
  <2> QED  BY <2>1
<1>6. \A i \in 1 .. Len(t) : t[i] # s[1]  BY <1>2, <1>3, <1>4 DEF Once
<1> QED  BY <1>1, <1>2, <1>3, <1>4, <1>5, <1>6

LEMMA OnceRemove ==
    ASSUME NEW s \in Seq(Conns), Once(s), NEW k \in 1 .. Len(s)
    PROVE  /\ RemoveAt(s, k) \in Seq(Conns) /\ Once(RemoveAt(s, k))
           /\ Len(RemoveAt(s, k)) = Len(s) - 1
           /\ \A i \in 1 .. Len(RemoveAt(s, k)) : \E j \in 1 .. Len(s) : RemoveAt(s, k)[i] = s[j]
<1>0. Len(s) \in Nat  OBVIOUS
<1>1. PICK a : a = SubSeq(s, 1, k - 1)  OBVIOUS
<1>2. PICK b : b = SubSeq(s, k + 1, Len(s))  OBVIOUS
<1>3. /\ a \in Seq(Conns) /\ Len(a) = k - 1 /\ \A i \in 1 .. k - 1 : a[i] = s[i]
  <2>1. k - 1 \in Nat /\ k - 1 <= Len(s)  BY <1>0
  <2> QED  BY <1>0, <1>1, <2>1
<1>4. /\ b \in Seq(Conns) /\ Len(b) = Len(s) - k /\ \A i \in 1 .. Len(s) - k : b[i] = s[k + i]
  <2>1. k + 1 \in Nat /\ k + 1 <= Len(s) + 1  BY <1>0
  <2> QED  BY <1>0, <1>2, <2>1
<1>5. PICK t : t = a \o b  OBVIOUS
<1>6. /\ t \in Seq(Conns) /\ Len(t) = Len(a) + Len(b)
      /\ \A i \in 1 .. Len(t) : t[i] = IF i <= Len(a) THEN a[i] ELSE b[i - Len(a)]
  <2>1. a \in Seq(Conns) /\ b \in Seq(Conns)  BY <1>3, <1>4
  <2>2. /\ a \o b \in Seq(Conns) /\ Len(a \o b) = Len(a) + Len(b)
        /\ \A i \in 1 .. Len(a) + Len(b) :
              (a \o b)[i] = IF i <= Len(a) THEN a[i] ELSE b[i - Len(a)]
        BY <2>1, ConcatProperties, Zenon
  <2> QED  BY <1>5, <2>2, Zenon
<1> DEFINE from(i) == IF i <= k - 1 THEN i ELSE i + 1
<1>7. ASSUME NEW i \in 1 .. Len(t) PROVE from(i) \in 1 .. Len(s) /\ t[i] = s[from(i)]
  <2>1. Len(t) = Len(s) - 1  BY <1>0, <1>3, <1>4, <1>6
  <2>2. CASE i <= k - 1
    <3>1. t[i] = a[i] /\ i \in 1 .. k - 1  BY <1>3, <1>6, <2>2
    <3> QED  BY <1>0, <1>3, <2>1, <2>2, <3>1
  <2>3. CASE ~(i <= k - 1)
    <3>1. t[i] = b[i - (k - 1)]  BY <1>3, <1>6, <2>3
    <3>2. PICK j \in 1 .. Len(s) - k : j = i - (k - 1)  BY <1>0, <2>1, <2>3
    <3>3. b[j] = s[k + j]  BY <1>4, <3>2
    <3>4. k + j = i + 1  BY <1>0, <3>2
    <3> QED  BY <1>0, <2>1, <2>3, <3>1, <3>2, <3>3, <3>4
  <2> QED  BY <2>2, <2>3
<1>8. Once(t)
  <2> SUFFICES ASSUME NEW i \in 1 .. Len(t), NEW j \in 1 .. Len(t), t[i] = t[j] PROVE i = j
      BY DEF Once
  <2>1. from(i) \in 1 .. Len(s) /\ from(j) \in 1 .. Len(s) /\ s[from(i)] = s[from(j)]  BY <1>7
  <2>2. from(i) = from(j)
    <3> HIDE DEF from
    <3> QED  BY <2>1 DEF Once
  <2> QED  BY <1>0, <2>2
<1>9. RemoveAt(s, k) = t  BY <1>1, <1>2, <1>5 DEF RemoveAt
<1>10. Len(t) = Len(s) - 1  BY <1>0, <1>3, <1>4, <1>6
<1> HIDE DEF from
<1> QED  BY <1>6, <1>7, <1>8, <1>9, <1>10

-----------------------------------------------------------------------------
(* The steps, by what they do to the lists and to one response. *)

listVars == <<idle, connecting, in_use, call_back, posted>>

(* Response r becomes q. *)
Becomes(r, q) ==
    /\ DOMAIN resp' = Responses /\ resp'[r] = q
    /\ \A s \in Responses \ {r} : resp'[s] = resp[s]

LEMMA UpdateBecomes ==
    ASSUME Responding, NEW r \in Responses, NEW q, resp' = [resp EXCEPT ![r] = q]
    PROVE  Becomes(r, q)
BY DEF Responding, Becomes

LEMMA BecomesSound ==
    ASSUME Responding, NEW r \in Responses, NEW q, Sound(q), Becomes(r, q)
    PROVE  Responding'
<1> SUFFICES ASSUME NEW s \in Responses PROVE Sound(resp'[s])
    BY DEF Responding, Sound, Unreferenced, Unanswered, Fits, Becomes
<1> QED  BY DEF Becomes, Responding

(* It keeps its connection. *)
LEMMA QuietKeeps ==
    ASSUME PInv, UNCHANGED max_connections, NEW r \in Responses, NEW q, Sound(q), q.socket = resp[r].socket,
           ~Idle(resp[r]), Becomes(r, q), UNCHANGED listVars
    PROVE  PInv'
<1>1. UNCHANGED <<idle, connecting, in_use, call_back, posted>>  BY DEF listVars
<1>2. PoolType' /\ Lists' /\ OneCall'  BY <1>1 DEF PInv, PoolType, Lists, Once, OneCall
<1>3. Responding'  BY BecomesSound DEF PInv
<1>4. Waits'
  <2>1. ASSUME NEW c \in connecting PROVE call_back[c] \in Responses /\ Idle(resp[call_back[c]])'
        BY <1>1, <2>1 DEF PInv, Waits, Becomes, Idle, Unreferenced, Unanswered
  <2>2. ASSUME NEW s \in Responses, NEW c \in Conns, <<s, c>> \in posted PROVE Idle(resp[s])'
        BY <1>1, <2>2 DEF PInv, Waits, Becomes, Idle, Unreferenced, Unanswered
  <2> QED  BY <1>1, <2>1, <2>2 DEF Waits
<1>5. \A s \in Responses, c \in Conns : Holds(s, c)' <=> Holds(s, c)
      BY <1>1 DEF Holds, Becomes
<1>6. Held'  BY <1>1, <1>5 DEF PInv, Held, PoolType
<1>7. WithinLimit'  BY <1>1 DEF PInv, WithinLimit
<1> QED  BY <1>2, <1>3, <1>4, <1>6, <1>7 DEF PInv

(* It gives its connection back. *)
LEMMA ReturnKeeps ==
    ASSUME PInv, UNCHANGED max_connections, NEW r \in Responses, NEW q, Sound(q), q.socket = None, NEW c \in Conns,
           resp[r].socket = c, Becomes(r, q), NEW keep, release_connection(c, keep)
    PROVE  PInv'
<1>1. /\ in_use' = in_use \ {c} /\ idle' = (IF keep THEN Append(idle, c) ELSE idle)
      /\ UNCHANGED <<connecting, call_back, posted>>
      BY DEF release_connection
<1>2. c \in in_use /\ c \notin connecting /\ (\A i \in 1 .. Len(idle) : idle[i] # c)
      BY DEF PInv, Held, Holds, Lists
<1>3. /\ idle' \in Seq(Conns) /\ Once(idle')
      /\ \A i \in 1 .. Len(idle') : idle'[i] = c \/ \E j \in 1 .. Len(idle) : idle'[i] = idle[j]
      /\ Len(idle) \in Nat /\ Len(idle') \in {Len(idle), Len(idle) + 1}
  <2>1. idle \in Seq(Conns) /\ Once(idle)  BY DEF PInv, PoolType, Lists
  <2>2. CASE keep  BY <1>1, <1>2, <2>1, <2>2, OnceAppend
  <2>3. CASE ~keep  BY <1>1, <2>1, <2>3
  <2> QED  BY <2>2, <2>3
<1>4. PoolType'  BY <1>1, <1>3 DEF PInv, PoolType
<1>5. Lists'
  <2>1. ASSUME NEW i \in 1 .. Len(idle') PROVE idle'[i] \notin connecting \cup (in_use \ {c})
        BY <1>2, <1>3, <2>1 DEF PInv, Lists
  <2>2. Once(idle)'  BY <1>3 DEF Once
  <2> QED  BY <1>1, <2>1, <2>2 DEF PInv, Lists
<1>6. Responding'  BY BecomesSound DEF PInv
<1>7. OneCall'  BY <1>1 DEF PInv, OneCall
<1>8. Waits'
  <2>0. ~Idle(resp[r])  BY DEF Idle
  <2>1. ASSUME NEW d \in connecting PROVE call_back[d] \in Responses /\ Idle(resp[call_back[d]])'
        BY <1>1, <2>0, <2>1 DEF PInv, Waits, Becomes, Idle, Unreferenced, Unanswered
  <2>2. ASSUME NEW s \in Responses, NEW d \in Conns, <<s, d>> \in posted PROVE Idle(resp[s])'
        BY <1>1, <2>0, <2>2 DEF PInv, Waits, Becomes, Idle, Unreferenced, Unanswered
  <2> QED  BY <1>1, <2>1, <2>2 DEF Waits
<1>9. \A s \in Responses, d \in Conns : Holds(s, d)' <=> Holds(s, d) /\ d # c
  <2> SUFFICES ASSUME NEW s \in Responses, NEW d \in Conns
               PROVE  Holds(s, d)' <=> Holds(s, d) /\ d # c
      OBVIOUS
  <2>1. CASE s = r
    <3>1. <<r, d>> \notin posted  BY DEF PInv, Waits, Idle
    <3> QED  BY <1>1, <2>1, <3>1 DEF Holds, Becomes
  <2>2. CASE s # r
    <3>1. ~Holds(s, c)  BY <2>2 DEF PInv, Held, Holds
    <3> QED  BY <1>1, <2>2, <3>1 DEF Holds, Becomes
  <2> QED  BY <2>1, <2>2
<1>10. Held'
  <2>1. ASSUME NEW d \in in_use' PROVE \E s \in Responses : Holds(s, d)'
        BY <1>1, <1>9, <2>1 DEF PInv, Held, PoolType
  <2> QED  BY <1>1, <1>9, <2>1 DEF PInv, Held
<1>11. WithinLimit'
  <2>1. /\ Cardinality(connecting) \in Nat /\ Cardinality(in_use) \in Nat
        /\ Cardinality(in_use') = Cardinality(in_use) - 1
        BY <1>1, <1>2, Counted DEF PInv, PoolType
  <2>2. Len(idle) + Cardinality(connecting) + Cardinality(in_use) <= max_connections
        BY DEF PInv, WithinLimit
  <2>3. Cardinality(connecting') = Cardinality(connecting)  BY <1>1
  <2>4. max_connections \in Nat  BY DEF PInv, PoolType
  <2> QED  BY <1>3, <2>1, <2>2, <2>3, <2>4 DEF WithinLimit
<1> QED  BY <1>4, <1>5, <1>6, <1>7, <1>8, <1>10, <1>11 DEF PInv

(* It asks for a connection. *)
LEMMA AskKeeps ==
    ASSUME PInv, UNCHANGED max_connections, NEW r \in Responses, NEW q, Sound(q), Idle(q), ~Idle(resp[r]), Becomes(r, q),
           resp[r].socket = None, ~LimitReached, async_get_proxy_connection(r)
    PROVE  PInv'
<1>a. /\ idle \in Seq(Conns) /\ Once(idle) /\ connecting \in SUBSET Conns /\ in_use \in SUBSET Conns
      /\ call_back \in [Conns -> Responses \cup {None}] /\ posted \in SUBSET (Responses \X Conns)
      BY DEF PInv, PoolType, Lists
<1>b. Responding'  BY BecomesSound DEF PInv
<1>c. /\ \A c \in connecting : call_back[c] # r
      /\ \A c \in Conns : <<r, c>> \notin posted
      BY DEF PInv, Waits
<1>e. /\ Cardinality(connecting) \in Nat /\ Cardinality(in_use) \in Nat /\ Len(idle) \in Nat
      /\ Len(idle) + Cardinality(connecting) + Cardinality(in_use) + 1 <= max_connections
  <2>1. /\ Cardinality(connecting) \in Nat /\ Cardinality(in_use) \in Nat /\ Len(idle) \in Nat
        /\ max_connections \in Nat
        BY <1>a, Counted DEF PInv, PoolType
  <2>2. ~(Len(idle) + Cardinality(connecting) + Cardinality(in_use) >= max_connections)
        BY DEF LimitReached
  <2> QED  BY <2>1, <2>2
<1>1. CASE idle = <<>>
  <2>1. PICK c \in Conns :
           /\ c \notin Known
           /\ connecting' = connecting \cup {c} /\ call_back' = [call_back EXCEPT ![c] = r]
           /\ UNCHANGED <<idle, in_use, posted>>
        BY <1>1 DEF async_get_proxy_connection, Unused
  <2>2. c \notin connecting /\ c \notin in_use  BY <2>1 DEF Known
  <2>3. PoolType'  BY <1>a, <2>1 DEF PInv, PoolType
  <2>4. Lists'
    <3>1. Len(idle) = 0  BY <1>1
    <3> QED  BY <1>1, <2>1, <2>2, <3>1 DEF PInv, Lists, Once
  <2>5. /\ call_back'[c] = r
        /\ \A d \in connecting : call_back'[d] = call_back[d] /\ d # c /\ call_back[d] # r
        BY <1>a, <1>c, <2>1, <2>2
  <2>6. Waits'
    <3>1. Idle(resp'[r]) /\ \A s \in Responses \ {r} : resp'[s] = resp[s]  BY DEF Becomes
    <3>2. ASSUME NEW d \in connecting' PROVE call_back'[d] \in Responses /\ Idle(resp'[call_back'[d]])
          BY <2>1, <2>5, <3>1, <3>2 DEF PInv, Waits
    <3>3. ASSUME NEW s \in Responses, NEW d \in Conns, <<s, d>> \in posted PROVE Idle(resp'[s])
          BY <1>c, <3>1, <3>3 DEF PInv, Waits
    <3> QED  BY <2>1, <3>2, <3>3 DEF Waits, Idle, Unreferenced, Unanswered
  <2>7. OneCall'
    <3>1. ASSUME NEW d \in connecting', NEW e \in connecting', call_back'[d] = call_back'[e]
          PROVE  d = e
          BY <2>1, <2>5, <3>1 DEF PInv, OneCall
    <3>2. ASSUME NEW d \in connecting', NEW e \in Conns PROVE <<call_back'[d], e>> \notin posted
          BY <1>c, <2>1, <2>5, <3>2 DEF PInv, OneCall
    <3> QED  BY <2>1, <3>1, <3>2 DEF PInv, OneCall
  <2>8. \A s \in Responses, d \in Conns : Holds(s, d)' <=> Holds(s, d)
    <3> SUFFICES ASSUME NEW s \in Responses, NEW d \in Conns
                 PROVE  Holds(s, d)' <=> Holds(s, d)
        OBVIOUS
    <3>1. CASE s = r  BY <1>c, <2>1, <3>1 DEF Holds, Becomes, Idle
    <3>2. CASE s # r  BY <2>1, <3>2 DEF Holds, Becomes
    <3> QED  BY <3>1, <3>2
  <2>9. Held'
    <3>1. ASSUME NEW d \in in_use' PROVE \E s \in Responses : Holds(s, d)'
          BY <1>a, <2>1, <2>8, <3>1 DEF PInv, Held
    <3> QED  BY <2>1, <2>8, <3>1 DEF PInv, Held
  <2>10. WithinLimit'
    <3>1. Cardinality(connecting') = Cardinality(connecting) + 1  BY <1>a, <2>1, <2>2, Counted
    <3>2. in_use' = in_use /\ idle' = idle  BY <2>1
    <3>3. max_connections \in Nat  BY DEF PInv, PoolType
    <3> QED  BY <1>e, <3>1, <3>2, <3>3 DEF WithinLimit
  <2> QED  BY <1>b, <2>3, <2>4, <2>6, <2>7, <2>9, <2>10 DEF PInv
<1>2. CASE idle # <<>>
  <2>0. PICK h : h = Head(idle)  OBVIOUS
  <2>1. /\ idle' = Tail(idle) /\ in_use' = in_use \cup {h} /\ posted' = posted \cup {<<r, h>>}
        /\ UNCHANGED <<connecting, call_back>>
        BY <1>2, <2>0 DEF async_get_proxy_connection
  <2>2. /\ h \in Conns /\ h = idle[1] /\ 1 \in 1 .. Len(idle)
        /\ idle' \in Seq(Conns) /\ Once(idle') /\ Len(idle') = Len(idle) - 1
        /\ \A i \in 1 .. Len(idle') : idle'[i] # h /\ \E j \in 1 .. Len(idle) : idle'[i] = idle[j]
        BY <1>a, <1>2, <2>0, <2>1, OnceTail
  <2>3. h \notin connecting /\ h \notin in_use  BY <2>2 DEF PInv, Lists
  <2>4. PoolType'  BY <1>a, <2>1, <2>2 DEF PInv, PoolType
  <2>5. Lists'
    <3>1. ASSUME NEW i \in 1 .. Len(idle') PROVE idle'[i] \notin connecting \cup in_use'
          BY <2>1, <2>2, <3>1 DEF PInv, Lists
    <3>2. Once(idle)'  BY <2>2 DEF Once
    <3>3. connecting \cap in_use' = {}  BY <2>1, <2>3 DEF PInv, Lists
    <3> QED  BY <2>1, <3>1, <3>2, <3>3 DEF Lists
  <2>6. Waits'
    <3>1. Idle(resp'[r]) /\ \A s \in Responses \ {r} : resp'[s] = resp[s]  BY DEF Becomes
    <3>2. ASSUME NEW d \in connecting PROVE call_back[d] \in Responses /\ Idle(resp'[call_back[d]])
          BY <1>c, <3>1, <3>2 DEF PInv, Waits
    <3>3. ASSUME NEW s \in Responses, NEW d \in Conns, <<s, d>> \in posted' PROVE Idle(resp'[s])
          BY <2>1, <3>1, <3>3 DEF PInv, Waits
    <3> QED  BY <2>1, <3>2, <3>3 DEF Waits, Idle, Unreferenced, Unanswered
  <2>7. OneCall'
    <3>1. ASSUME NEW d \in connecting, NEW e \in Conns PROVE <<call_back[d], e>> \notin posted'
          BY <1>c, <2>1, <3>1 DEF PInv, OneCall
    <3>2. ASSUME NEW s \in Responses, NEW d \in Conns, NEW e \in Conns,
                 <<s, d>> \in posted', <<s, e>> \in posted'
          PROVE  d = e
          BY <1>c, <2>1, <3>2 DEF PInv, OneCall
    <3> QED  BY <2>1, <3>1, <3>2 DEF PInv, OneCall
  <2>8. \A s \in Responses, d \in Conns :
           Holds(s, d)' <=> Holds(s, d) \/ (s = r /\ d = h)
    <3> SUFFICES ASSUME NEW s \in Responses, NEW d \in Conns
                 PROVE  Holds(s, d)' <=> Holds(s, d) \/ (s = r /\ d = h)
        OBVIOUS
    <3>1. CASE s = r  BY <1>c, <2>1, <3>1 DEF Holds, Becomes, Idle
    <3>2. CASE s # r  BY <2>1, <3>2 DEF Holds, Becomes
    <3> QED  BY <3>1, <3>2
  <2>9. Held'
    <3>0. \A s \in Responses : ~Holds(s, h)  BY <2>2, <2>3 DEF PInv, Held
    <3>1. ASSUME NEW d \in in_use' PROVE \E s \in Responses : Holds(s, d)'
          BY <1>a, <2>1, <2>2, <2>8, <3>1 DEF PInv, Held
    <3>2. ASSUME NEW s \in Responses, NEW t \in Responses, NEW d \in Conns,
                 Holds(s, d)', Holds(t, d)'
          PROVE  s = t
          BY <2>8, <3>0, <3>2 DEF PInv, Held
    <3>3. ASSUME NEW s \in Responses, NEW d \in Conns, Holds(s, d)' PROVE d \in in_use'
          BY <2>1, <2>8, <3>3 DEF PInv, Held
    <3> QED  BY <3>1, <3>2, <3>3 DEF Held
  <2>10. WithinLimit'
    <3>1. Cardinality(in_use') = Cardinality(in_use) + 1  BY <1>a, <2>1, <2>2, <2>3, Counted
    <3>2. connecting' = connecting  BY <2>1
    <3>3. max_connections \in Nat  BY DEF PInv, PoolType
    <3> QED  BY <1>e, <2>2, <3>1, <3>2, <3>3 DEF WithinLimit
  <2> QED  BY <1>b, <2>4, <2>5, <2>6, <2>7, <2>9, <2>10 DEF PInv
<1> QED  BY <1>1, <1>2

(* A connection attempt ends: the response that waits for it gets the      *)
(* connection, or ends itself.                                             *)
LEMMA AttemptKeeps ==
    ASSUME PInv, UNCHANGED max_connections, NEW c \in connecting, NEW q, Sound(q), Becomes(call_back[c], q),
           connecting' = connecting \ {c}, call_back' = [call_back EXCEPT ![c] = None],
           \/ q.socket = c /\ in_use' = in_use \cup {c}
           \/ q.socket = None /\ UNCHANGED in_use,
           UNCHANGED <<idle, posted>>
    PROVE  PInv'
<1>a. /\ idle \in Seq(Conns) /\ Once(idle) /\ connecting \in SUBSET Conns /\ in_use \in SUBSET Conns
      /\ call_back \in [Conns -> Responses \cup {None}] /\ posted \in SUBSET (Responses \X Conns)
      /\ c \in Conns
      BY DEF PInv, PoolType, Lists
<1>0. PICK r \in Responses : r = call_back[c]  BY DEF PInv, Waits
<1>b. /\ resp[r].socket = None /\ c \notin in_use
      /\ \A d \in Conns : <<r, d>> \notin posted
      /\ \A d \in connecting' : d # c /\ call_back'[d] = call_back[d] /\ call_back[d] # r
      BY <1>a, <1>0 DEF PInv, Waits, Idle, OneCall, Lists
<1>c. \A s \in Responses \ {r} : resp'[s] = resp[s]  BY <1>0 DEF Becomes
<1>d. resp'[r] = q  BY <1>0 DEF Becomes
<1>1. PoolType'  BY <1>a DEF PInv, PoolType
<1>2. Lists'
  <2>1. \A i \in 1 .. Len(idle) : idle[i] # c  BY DEF PInv, Lists
  <2> QED  BY <1>b, <2>1 DEF PInv, Lists, Once
<1>3. Responding'  BY <1>0, BecomesSound DEF PInv
<1>4. Waits'
  <2>1. ASSUME NEW d \in connecting' PROVE call_back'[d] \in Responses /\ Idle(resp'[call_back'[d]])
        BY <1>b, <1>c, <2>1 DEF PInv, Waits
  <2>2. ASSUME NEW s \in Responses, NEW d \in Conns, <<s, d>> \in posted PROVE Idle(resp'[s])
        BY <1>b, <1>c, <2>2 DEF PInv, Waits
  <2> QED  BY <2>1, <2>2 DEF Waits, Idle, Unreferenced, Unanswered
<1>5. OneCall'
  <2>1. ASSUME NEW d \in connecting', NEW e \in connecting', call_back'[d] = call_back'[e]
        PROVE  d = e
        BY <1>b, <2>1 DEF PInv, OneCall
  <2>2. ASSUME NEW d \in connecting', NEW e \in Conns PROVE <<call_back'[d], e>> \notin posted
        BY <1>b, <2>2 DEF PInv, OneCall
  <2> QED  BY <2>1, <2>2 DEF PInv, OneCall
<1>6. \A s \in Responses, d \in Conns :
         Holds(s, d)' <=> Holds(s, d) \/ (s = r /\ d = c /\ q.socket = c)
  <2> SUFFICES ASSUME NEW s \in Responses, NEW d \in Conns
               PROVE  Holds(s, d)' <=> Holds(s, d) \/ (s = r /\ d = c /\ q.socket = c)
      OBVIOUS
  <2>1. CASE s = r  BY <1>b, <1>d, <2>1 DEF Holds
  <2>2. CASE s # r  BY <1>c, <2>2 DEF Holds
  <2> QED  BY <2>1, <2>2
<1>7. Held'
  <2>0. \A s \in Responses : ~Holds(s, c)  BY <1>a, <1>b DEF PInv, Held
  <2>1. ASSUME NEW d \in in_use' PROVE \E s \in Responses : Holds(s, d)'
        BY <1>a, <1>6, <2>1 DEF PInv, Held
  <2>2. ASSUME NEW s \in Responses, NEW t \in Responses, NEW d \in Conns,
               Holds(s, d)', Holds(t, d)'
        PROVE  s = t
        BY <1>6, <2>0, <2>2 DEF PInv, Held
  <2>3. ASSUME NEW s \in Responses, NEW d \in Conns, Holds(s, d)' PROVE d \in in_use'
        BY <1>6, <2>3 DEF PInv, Held
  <2> QED  BY <2>1, <2>2, <2>3 DEF Held
<1>8. WithinLimit'
  <2>1. /\ Cardinality(connecting) \in Nat /\ Cardinality(in_use) \in Nat /\ Len(idle) \in Nat
        /\ Cardinality(connecting') = Cardinality(connecting) - 1
        BY <1>a, Counted
  <2>2. Cardinality(in_use') \in {Cardinality(in_use), Cardinality(in_use) + 1}
        BY <1>a, <1>b, Counted
  <2>3. idle' = idle /\ max_connections \in Nat  BY DEF PInv, PoolType
  <2>4. Len(idle) + Cardinality(connecting) + Cardinality(in_use) <= max_connections
        BY DEF PInv, WithinLimit
  <2> QED  BY <2>1, <2>2, <2>3, <2>4 DEF WithinLimit
<1> QED  BY <1>1, <1>2, <1>3, <1>4, <1>5, <1>7, <1>8 DEF PInv

(* The posted call back gives an idle connection to a response. *)
LEMMA PostedKeeps ==
    ASSUME PInv, UNCHANGED max_connections, NEW r \in Responses, NEW c \in Conns, <<r, c>> \in posted,
           NEW q, Sound(q), q.socket = c, Becomes(r, q),
           posted' = posted \ {<<r, c>>}, UNCHANGED <<idle, connecting, in_use, call_back>>
    PROVE  PInv'
<1>1. PoolType' /\ Lists'  BY DEF PInv, PoolType, Lists, Once
<1>2. Responding'  BY BecomesSound DEF PInv
<1>3. /\ \A d \in connecting : call_back[d] # r
      /\ \A d \in Conns : <<r, d>> \in posted => d = c
      /\ resp[r].socket = None
      BY DEF PInv, OneCall, Waits, Idle
<1>4. \A s \in Responses \ {r} : resp'[s] = resp[s]  BY DEF Becomes
<1>5. Waits'
  <2>1. ASSUME NEW d \in connecting PROVE call_back[d] \in Responses /\ Idle(resp'[call_back[d]])
        BY <1>3, <1>4, <2>1 DEF PInv, Waits
  <2>2. ASSUME NEW s \in Responses, NEW d \in Conns, <<s, d>> \in posted' PROVE Idle(resp'[s])
        BY <1>3, <1>4, <2>2 DEF PInv, Waits
  <2> QED  BY <2>1, <2>2 DEF Waits, Idle, Unreferenced, Unanswered
<1>6. OneCall'  BY DEF PInv, OneCall
<1>7. \A s \in Responses, d \in Conns : Holds(s, d)' <=> Holds(s, d)
  <2> SUFFICES ASSUME NEW s \in Responses, NEW d \in Conns PROVE Holds(s, d)' <=> Holds(s, d)
      OBVIOUS
  <2>1. CASE s = r
    <3>1. Holds(r, d) <=> d = c  BY <1>3 DEF Holds
    <3>2. Holds(r, d)' <=> d = c  BY <1>3 DEF Holds, Becomes
    <3> QED  BY <2>1, <3>1, <3>2
  <2>2. CASE s # r  BY <1>4, <2>2 DEF Holds
  <2> QED  BY <2>1, <2>2
<1>8. Held'  BY <1>7 DEF PInv, Held, PoolType
<1>9. WithinLimit'  BY DEF PInv, WithinLimit
<1> QED  BY <1>1, <1>2, <1>5, <1>6, <1>8, <1>9 DEF PInv

(* An idle connection is given up. *)
LEMMA IdleKeeps ==
    ASSUME PInv, UNCHANGED max_connections, NEW i \in 1 .. Len(idle), idle' = RemoveAt(idle, i),
           UNCHANGED <<connecting, in_use, call_back, posted, resp>>
    PROVE  PInv'
<1>0. idle \in Seq(Conns) /\ Once(idle)  BY DEF PInv, PoolType, Lists
<1>a. PICK s, x : s = idle /\ x = RemoveAt(s, i)  OBVIOUS
<1>b. /\ x \in Seq(Conns) /\ Once(x) /\ Len(x) = Len(s) - 1
      /\ \A j \in 1 .. Len(x) : \E k \in 1 .. Len(s) : x[j] = s[k]
  <2>1. s \in Seq(Conns) /\ Once(s) /\ i \in 1 .. Len(s)  BY <1>0, <1>a
  <2>2. /\ RemoveAt(s, i) \in Seq(Conns) /\ Once(RemoveAt(s, i)) /\ Len(RemoveAt(s, i)) = Len(s) - 1
        /\ \A j \in 1 .. Len(RemoveAt(s, i)) : \E k \in 1 .. Len(s) : RemoveAt(s, i)[j] = s[k]
        BY <2>1, OnceRemove, Zenon
  <2> QED  BY <1>a, <2>2
<1>1. /\ idle' \in Seq(Conns) /\ Once(idle') /\ Len(idle') = Len(idle) - 1
      /\ \A j \in 1 .. Len(idle') : \E k \in 1 .. Len(idle) : idle'[j] = idle[k]
      BY <1>a, <1>b
<1>2. PoolType'  BY <1>1 DEF PInv, PoolType
<1>3. Lists'
  <2>1. \A j \in 1 .. Len(idle') : idle'[j] \notin connecting \cup in_use  BY <1>1 DEF PInv, Lists
  <2>2. Once(idle)'  BY <1>1 DEF Once
  <2> QED  BY <2>1, <2>2 DEF PInv, Lists
<1>4. Responding'  BY DEF PInv, Responding, Sound, Unreferenced, Unanswered, Fits
<1>5. Waits' /\ OneCall'  BY DEF PInv, Waits, OneCall, Idle, Unreferenced, Unanswered
<1>6. Held'  BY DEF PInv, Held, Holds
<1>7. WithinLimit'
  <2>1. /\ Cardinality(connecting) \in Nat /\ Cardinality(in_use) \in Nat /\ Len(idle) \in Nat
        /\ max_connections \in Nat
        BY Counted, FS_CardinalityType DEF PInv, PoolType
  <2> QED  BY <1>1, <2>1 DEF PInv, WithinLimit
<1> QED  BY <1>2, <1>3, <1>4, <1>5, <1>6, <1>7 DEF PInv

(* The handlers that come too late. *)
LEMMA LateKeeps ==
    ASSUME PInv, UNCHANGED max_connections, UNCHANGED <<idle, connecting, in_use, posted, resp>>,
           \/ UNCHANGED call_back
           \/ \E c \in Conns \ connecting : call_back' = [call_back EXCEPT ![c] = None]
    PROVE  PInv'
<1>1. PoolType'  BY DEF PInv, PoolType
<1>2. Lists'  BY DEF PInv, Lists, Once
<1>3. Responding'  BY DEF PInv, Responding, Sound, Unreferenced, Unanswered, Fits
<1>4. \A d \in connecting : call_back'[d] = call_back[d]  BY DEF PInv, PoolType
<1>5. Waits'  BY <1>4 DEF PInv, Waits, Idle, Unreferenced, Unanswered
<1>6. OneCall'  BY <1>4 DEF PInv, OneCall
<1>7. Held'  BY DEF PInv, Held, Holds
<1>8. WithinLimit'  BY DEF PInv, WithinLimit
<1> QED  BY <1>1, <1>2, <1>3, <1>5, <1>6, <1>7, <1>8 DEF PInv

-----------------------------------------------------------------------------
(* The actions *)

(* The end of a handler. *)
LEMMA ContinueKeeps ==
    ASSUME PInv, UNCHANGED max_connections, NEW r \in Responses, NEW p, Sound(p), p.socket = resp[r].socket,
           p.pc \in {"active", "assertion"}, ~Idle(resp[r]),
           NEW done, done => Unreferenced(p), Continue(r, p, done)
    PROVE  PInv'
<1>0. Responding  BY DEF PInv
<1>1. PICK keep : /\ p.socket # None /\ ((p.pc = "active" /\ Unreferenced(p)) \/ done)
                        => release_connection(p.socket, keep)
                  /\ ~(p.socket # None /\ ((p.pc = "active" /\ Unreferenced(p)) \/ done))
                        => UNCHANGED poolVars
      BY DEF Continue
<1>2. UNCHANGED poolVars => UNCHANGED listVars  BY DEF poolVars, listVars
<1>3. CASE p.pc = "active" /\ Unreferenced(p)
  <2>1. PICK q : q = Destroyed(p)  OBVIOUS
  <2>2. Becomes(r, q)
    <3>1. resp' = [resp EXCEPT ![r] = q]  BY <1>3, <2>1 DEF Continue
    <3> QED  BY <1>0, <3>1, UpdateBecomes
  <2>3. Sound(q) /\ q.socket = None  BY <2>1, DestroyedSound
  <2>4. CASE p.socket = None  BY <1>1, <1>2, <2>2, <2>3, <2>4, QuietKeeps
  <2>5. CASE p.socket # None
    <3>1. p.socket \in Conns  BY <2>5 DEF Sound
    <3> QED  BY <1>1, <1>3, <2>2, <2>3, <2>5, <3>1, ReturnKeeps
  <2> QED  BY <2>4, <2>5
<1>4. CASE ~(p.pc = "active" /\ Unreferenced(p)) /\ done
  <2>1. PICK q : q = [p EXCEPT !.socket = None]  OBVIOUS
  <2>2. Becomes(r, q)
    <3>1. resp' = [resp EXCEPT ![r] = q]  BY <1>4, <2>1 DEF Continue
    <3> QED  BY <1>0, <3>1, UpdateBecomes
  <2>3. /\ DOMAIN q = Fields /\ q.socket = None /\ q.restarts = p.restarts /\ q.pc = p.pc
        /\ q.requesting = p.requesting /\ q.reading = p.reading /\ q.writing = p.writing
        /\ q.buffer = p.buffer /\ q.exists = p.exists
        BY <2>1 DEF Sound, Fields
  <2>4. Sound(q)  BY <1>4, <2>3 DEF Sound, Unreferenced, Unanswered, Fits
  <2>5. CASE p.socket = None  BY <1>1, <1>2, <2>2, <2>3, <2>4, <2>5, QuietKeeps
  <2>6. CASE p.socket # None
    <3>1. p.socket \in Conns  BY <2>6 DEF Sound
    <3> QED  BY <1>1, <1>4, <2>2, <2>3, <2>4, <2>6, <3>1, ReturnKeeps
  <2> QED  BY <2>5, <2>6
<1>5. CASE ~(p.pc = "active" /\ Unreferenced(p)) /\ ~done
  <2>1. Becomes(r, p)
    <3>1. resp' = [resp EXCEPT ![r] = p]  BY <1>5 DEF Continue
    <3> QED  BY <1>0, <3>1, UpdateBecomes
  <2> QED  BY <1>1, <1>2, <1>5, <2>1, QuietKeeps
<1> QED  BY <1>3, <1>4, <1>5

LEMMA StartKeeps ==
    ASSUME PInv, UNCHANGED max_connections, NEW r \in Responses, Start(r)
    PROVE  PInv'
<1>0. Responding /\ Sound(resp[r]) /\ resp[r].pc = "new"  BY DEF PInv, Responding, Start
<1>1. ~Idle(resp[r]) /\ resp[r].socket = None  BY <1>0 DEF Idle, Sound
<1>2. CASE LimitReached
  <2>1. PICK q : q = [resp[r] EXCEPT !.pc = "gone", !.outcome = "error"]  OBVIOUS
  <2>2. /\ DOMAIN q = Fields /\ q.socket = resp[r].socket /\ q.restarts = resp[r].restarts
        /\ q.requesting = resp[r].requesting /\ q.reading = resp[r].reading
        /\ q.writing = resp[r].writing /\ q.buffer = resp[r].buffer /\ q.exists = resp[r].exists
        /\ q.pc = "gone"
        BY <1>0, <2>1 DEF Sound, Fields
  <2>3. Sound(q)  BY <1>0, <1>1, <2>2 DEF Sound, Unreferenced, Unanswered, Fits
  <2>4. Becomes(r, q)  BY <1>0, <1>2, <2>1 DEF Start, Responding, Becomes
  <2>5. UNCHANGED listVars  BY <1>2 DEF Start, poolVars, listVars
  <2> QED  BY <1>1, <2>2, <2>3, <2>4, <2>5, QuietKeeps
<1>3. CASE ~LimitReached
  <2>1. PICK q : q = [resp[r] EXCEPT !.pc = "active", !.listed = TRUE]  OBVIOUS
  <2>2. /\ DOMAIN q = Fields /\ q.socket = resp[r].socket /\ q.restarts = resp[r].restarts
        /\ q.requesting = resp[r].requesting /\ q.reading = resp[r].reading
        /\ q.writing = resp[r].writing /\ q.buffer = resp[r].buffer /\ q.exists = resp[r].exists
        /\ q.pc = "active"
        BY <1>0, <2>1 DEF Sound, Fields
  <2>3. Sound(q) /\ Idle(q)  BY <1>0, <1>1, <2>2 DEF Sound, Idle, Unreferenced, Unanswered, Fits
  <2>4. Becomes(r, q)  BY <1>0, <1>3, <2>1 DEF Start, Responding, Becomes
  <2>5. async_get_proxy_connection(r)  BY <1>3 DEF Start
  <2> QED  BY <1>1, <1>3, <2>3, <2>4, <2>5, AskKeeps
<1> QED  BY <1>2, <1>3

(* The second half of a restart, which may be refused. *)
LEMMA ReconnectKeeps ==
    ASSUME PInv, UNCHANGED max_connections, NEW r \in Responses, Reconnect(r)
    PROVE  PInv'
<1>0. Responding /\ Sound(resp[r]) /\ resp[r].pc = "restarting"  BY DEF PInv, Responding, Reconnect
<1>1. ~Idle(resp[r]) /\ resp[r].socket = None  BY <1>0 DEF Idle, Sound
<1>2. CASE LimitReached
  <2>1. PICK p, q : p = NotPossible(resp[r], TRUE) /\ q = Destroyed(p)  OBVIOUS
  <2>2. Sound(q) /\ q.socket = None  BY <2>1, DestroyedSound
  <2>3. Becomes(r, q)
    <3>1. resp' = [resp EXCEPT ![r] = q]  BY <1>0, <1>2, <2>1 DEF Reconnect, Responding
    <3> QED  BY <1>0, <3>1, UpdateBecomes
  <2>4. UNCHANGED listVars  BY <1>2 DEF Reconnect, poolVars, listVars
  <2> QED  BY <1>1, <2>2, <2>3, <2>4, QuietKeeps
<1>3. CASE ~LimitReached
  <2>1. PICK q : q = [resp[r] EXCEPT !.pc = "active"]  OBVIOUS
  <2>2. /\ DOMAIN q = Fields /\ q.socket = resp[r].socket /\ q.restarts = resp[r].restarts
        /\ q.requesting = resp[r].requesting /\ q.reading = resp[r].reading
        /\ q.writing = resp[r].writing /\ q.buffer = resp[r].buffer /\ q.exists = resp[r].exists
        /\ q.pc = "active"
        BY <1>0, <2>1 DEF Sound, Fields
  <2>3. Sound(q) /\ Idle(q)  BY <1>0, <1>1, <2>2 DEF Sound, Idle, Unreferenced, Unanswered, Fits
  <2>4. Becomes(r, q)  BY <1>0, <1>3, <2>1 DEF Reconnect, Responding, Becomes
  <2>5. async_get_proxy_connection(r)  BY <1>3 DEF Reconnect
  <2> QED  BY <1>1, <1>3, <2>3, <2>4, <2>5, AskKeeps
<1> QED  BY <1>2, <1>3

(* restart(), also when it is not possible any more. *)
LEMMA RestartKeeps ==
    ASSUME PInv, UNCHANGED max_connections, NEW r \in Responses, NEW p, Sound(p), p.pc = "active", p.socket # None,
           p.socket = resp[r].socket, ~p.requesting, p.reading = <<>>,
           p.restarts < MaxRestarts => Unanswered(p), restart(r, p)
    PROVE  PInv'
<1>0. Responding /\ ~Idle(resp[r]) /\ p.socket \in Conns /\ p.restarts \in Nat
      BY DEF PInv, Idle, Sound
<1>1. CASE p.restarts + 1 > MaxRestarts
  <2>1. PICK q : q = [p EXCEPT !.restarts = @ + 1]  OBVIOUS
  <2>2. /\ DOMAIN q = Fields /\ q.socket = p.socket /\ q.restarts = p.restarts + 1
        /\ q.requesting = p.requesting /\ q.reading = p.reading /\ q.writing = p.writing
        /\ q.buffer = p.buffer /\ q.exists = p.exists /\ q.pc = p.pc
        BY <2>1 DEF Sound, Fields
  <2>3. Sound(q)  BY <1>0, <1>1, <2>2 DEF Sound, Unreferenced, Unanswered, Fits
  <2>4. PICK s : s = NotPossible(q, TRUE)  OBVIOUS
  <2>5. Sound(s) /\ s.socket = q.socket /\ s.pc \in {"active", "assertion"}
        BY <2>2, <2>3, <2>4, NotPossibleSound
  <2>6. Continue(r, s, FALSE)  BY <1>1, <2>1, <2>4 DEF restart
  <2>7. PICK done : done = FALSE  OBVIOUS
  <2> QED  BY <1>0, <2>2, <2>5, <2>6, <2>7, ContinueKeeps
<1>2. CASE ~(p.restarts + 1 > MaxRestarts)
  <2>0. Unanswered(p)  BY <1>0, <1>2
  <2>1. PICK q : q = [p EXCEPT !.pc = "restarting", !.restarts = @ + 1, !.socket = None,
                              !.reading = <<>>, !.writing = <<>>]
        OBVIOUS
  <2>2. /\ DOMAIN q = Fields /\ q.socket = None /\ q.restarts = p.restarts + 1
        /\ q.requesting = p.requesting /\ q.reading = <<>> /\ q.writing = <<>>
        /\ q.buffer = p.buffer /\ q.exists = p.exists /\ q.pc = "restarting"
        BY <2>1 DEF Sound, Fields
  <2>3. Sound(q)  BY <1>0, <2>0, <2>2 DEF Sound, Unreferenced, Unanswered, Fits
  <2>4. Becomes(r, q)
    <3>1. resp' = [resp EXCEPT ![r] = q]  BY <1>2, <2>1 DEF restart
    <3> QED  BY <1>0, <3>1, UpdateBecomes
  <2>5. PICK c \in Conns, keep \in BOOLEAN : c = p.socket /\ keep = FALSE  BY <1>0
  <2>6. release_connection(c, keep)  BY <1>2, <2>5 DEF restart
  <2> QED  BY <2>2, <2>3, <2>4, <2>5, <2>6, ReturnKeeps
<1> QED  BY <1>1, <1>2

(* A response that waited has its connection. *)
LEMMA ConnectedSound ==
    ASSUME NEW p, Sound(p), Idle(p), NEW c \in Conns
    PROVE  /\ Sound([p EXCEPT !.socket = c, !.requesting = TRUE])
           /\ [p EXCEPT !.socket = c, !.requesting = TRUE].socket = c
<1>1. PICK q : q = [p EXCEPT !.socket = c, !.requesting = TRUE]  OBVIOUS
<1>2. /\ DOMAIN q = Fields /\ q.socket = c /\ q.restarts = p.restarts
      /\ q.requesting = TRUE /\ q.reading = p.reading /\ q.writing = p.writing
      /\ q.buffer = p.buffer /\ q.exists = p.exists /\ q.pc = p.pc
      BY <1>1 DEF Sound, Fields
<1>3. Sound(q)  BY <1>2 DEF Sound, Idle, Unreferenced, Unanswered, Fits
<1> QED  BY <1>1, <1>2, <1>3

LEMMA ConnectSteps ==
    ASSUME PInv, NEW r \in Responses, Idle(resp[r]), NEW c \in Conns \cup {None},
           handle_orgin_connect(r, c)
    PROVE  \E q : Sound(q) /\ q.socket = c /\ Becomes(r, q)
<1>0. Responding /\ Sound(resp[r])  BY DEF PInv, Responding
<1>1. CASE c = None
  <2>1. PICK p : p = NotPossible(resp[r], TRUE)  OBVIOUS
  <2>2. PICK q : q = Destroyed(p)  OBVIOUS
  <2>3. resp' = [resp EXCEPT ![r] = q]  BY <1>0, <1>1, <2>1, <2>2 DEF handle_orgin_connect, Responding
  <2> QED  BY <1>0, <1>1, <2>2, <2>3, DestroyedSound, UpdateBecomes
<1>2. CASE c # None
  <2>1. PICK p : p = resp[r]  OBVIOUS
  <2>2. PICK q : q = [p EXCEPT !.socket = c, !.requesting = TRUE]  OBVIOUS
  <2>3. Sound(q) /\ q.socket = c  BY <1>0, <1>2, <2>1, <2>2, ConnectedSound
  <2>4. resp' = [resp EXCEPT ![r] = q]  BY <1>0, <1>2, <2>1, <2>2 DEF handle_orgin_connect, Responding
  <2> QED  BY <1>0, <2>3, <2>4, UpdateBecomes
<1> QED  BY <1>1, <1>2

LEMMA PoolKeeps ==
    ASSUME PInv, UNCHANGED max_connections, NEW c \in Conns,
           Connected(c) \/ ConnectTimeout(c) \/ IdleTimeout(c) \/ TimerExpires(c)
    PROVE  PInv'
<1>1. ASSUME c \in connecting PROVE call_back[c] \in Responses /\ Idle(resp[call_back[c]])
      BY <1>1 DEF PInv, Waits
<1>2. CASE Connected(c)
  <2>1. PICK error \in BOOLEAN :
           /\ connection_handler(c, error)
           /\ IF c \in connecting
                THEN handle_orgin_connect(call_back[c], IF error THEN None ELSE c) ELSE UNCHANGED resp
        BY <1>2 DEF Connected
  <2>2. /\ connecting' = connecting \ {c} /\ call_back' = [call_back EXCEPT ![c] = None]
        /\ in_use' = (IF c \in connecting /\ ~error THEN in_use \cup {c} ELSE in_use)
        /\ UNCHANGED <<idle, posted>>
        BY <2>1 DEF connection_handler
  <2>3. CASE c \in connecting
    <3>1. PICK d \in Conns \cup {None} : d = IF error THEN None ELSE c  OBVIOUS
    <3>2. handle_orgin_connect(call_back[c], d)  BY <2>1, <2>3, <3>1
    <3>3. PICK q : Sound(q) /\ q.socket = d /\ Becomes(call_back[c], q)
          BY <1>1, <2>3, <3>2, ConnectSteps
    <3> QED  BY <2>2, <2>3, <3>1, <3>3, AttemptKeeps
  <2>4. CASE c \notin connecting
    <3>1. connecting' = connecting /\ in_use' = in_use /\ UNCHANGED resp  BY <2>1, <2>2, <2>4
    <3> QED  BY <2>2, <2>4, <3>1, LateKeeps
  <2> QED  BY <2>3, <2>4
<1>3. CASE ConnectTimeout(c)
  <2>1. /\ connecting' = connecting \ {c}
        /\ call_back' = (IF c \in connecting THEN [call_back EXCEPT ![c] = None] ELSE call_back)
        /\ UNCHANGED <<idle, in_use, posted>>
        /\ IF c \in connecting THEN handle_orgin_connect(call_back[c], None) ELSE UNCHANGED resp
        BY <1>3 DEF ConnectTimeout, connect_timeout
  <2>2. CASE c \in connecting
    <3>1. PICK d \in Conns \cup {None} : d = None  OBVIOUS
    <3>2. PICK q : Sound(q) /\ q.socket = d /\ Becomes(call_back[c], q)
          BY <1>1, <2>1, <2>2, <3>1, ConnectSteps
    <3> QED  BY <2>1, <2>2, <3>1, <3>2, AttemptKeeps
  <2>3. CASE c \notin connecting
    <3>1. connecting' = connecting /\ UNCHANGED <<resp, call_back>>  BY <2>1, <2>3
    <3> QED  BY <2>1, <3>1, LateKeeps
  <2> QED  BY <2>2, <2>3
<1>4. CASE IdleTimeout(c)
  <2>1. /\ UNCHANGED <<connecting, in_use, call_back, posted, resp>>
        /\ UNCHANGED idle \/ \E i \in DOMAIN idle : idle' = RemoveAt(idle, i)
        BY <1>4 DEF IdleTimeout, connect_idle_timeout
  <2>2. DOMAIN idle = 1 .. Len(idle)  BY DEF PInv, PoolType
  <2> QED  BY <2>1, <2>2, IdleKeeps, LateKeeps
<1>5. CASE TimerExpires(c)
      BY <1>5, LateKeeps DEF TimerExpires, timer_expires
<1> QED  BY <1>2, <1>3, <1>4, <1>5

LEMMA ReceivedKeeps ==
    ASSUME PInv, UNCHANGED max_connections, NEW r \in Responses, NEW c \in Conns, connection_received(r, c)
    PROVE  PInv'
<1>1. /\ <<r, c>> \in posted /\ posted' = posted \ {<<r, c>>} /\ handle_orgin_connect(r, c)
      /\ UNCHANGED <<idle, connecting, in_use, call_back>>
      BY DEF connection_received
<1>2. Idle(resp[r])  BY <1>1 DEF PInv, Waits
<1>3. PICK d \in Conns \cup {None} : d = c  OBVIOUS
<1>4. PICK q : Sound(q) /\ q.socket = d /\ Becomes(r, q)  BY <1>1, <1>2, <1>3, ConnectSteps
<1> QED  BY <1>1, <1>3, <1>4, PostedKeeps

(* The handlers of what a response has asked for. *)
LEMMA RequestWrittenKeeps ==
    ASSUME PInv, UNCHANGED max_connections, NEW r \in Responses, RequestWritten(r)
    PROVE  PInv'
<1>0. Responding /\ Sound(resp[r]) /\ resp[r].requesting  BY DEF PInv, Responding, RequestWritten
<1>1. ~Idle(resp[r]) /\ resp[r].socket # None /\ Unanswered(resp[r]) /\ resp[r].reading = <<>>
      BY <1>0 DEF Idle, Unreferenced, Sound
<1>2. PICK a \in Answers[r] :
         resp' = [resp EXCEPT ![r] =
             issue_read([resp[r] EXCEPT !.requesting = FALSE, !.answer = a], "header", 0,
                        H!read_buffer([resp[r] EXCEPT !.requesting = FALSE, !.answer = a].header))]
      BY DEF RequestWritten
<1>3. PICK p : p = [resp[r] EXCEPT !.requesting = FALSE, !.answer = a]  OBVIOUS
<1>4. /\ DOMAIN p = Fields /\ p.socket = resp[r].socket /\ p.restarts = resp[r].restarts
      /\ p.requesting = FALSE /\ p.reading = <<>> /\ p.writing = <<>>
      /\ p.buffer = resp[r].buffer /\ p.exists = resp[r].exists /\ p.pc = resp[r].pc
      BY <1>0, <1>1, <1>3 DEF Sound, Fields, Unanswered
<1>5. Sound(p)  BY <1>0, <1>1, <1>4 DEF Sound, Unreferenced, Unanswered, Fits
<1>6. PICK size : size = H!read_buffer(p.header)  OBVIOUS
<1>7. PICK q : q = issue_read(p, "header", 0, size)  OBVIOUS
<1>8. Sound(q) /\ q.socket = p.socket
      BY <1>1, <1>4, <1>5, <1>7, ReadSound DEF Fits, Same, Unanswered
<1>9. Becomes(r, q)
  <2>1. resp' = [resp EXCEPT ![r] = q]  BY <1>2, <1>3, <1>6, <1>7
  <2> QED  BY <1>0, <2>1, UpdateBecomes
<1>10. UNCHANGED listVars  BY DEF RequestWritten, poolVars, listVars
<1> QED  BY <1>1, <1>4, <1>8, <1>9, <1>10, QuietKeeps

LEMMA RequestWriteErrorKeeps ==
    ASSUME PInv, UNCHANGED max_connections, NEW r \in Responses, resp[r].pc # "assertion", RequestWriteError(r)
    PROVE  PInv'
<1>0. Responding /\ Sound(resp[r]) /\ resp[r].requesting  BY DEF PInv, Responding, RequestWriteError
<1>1. /\ resp[r].socket # None /\ Unanswered(resp[r]) /\ resp[r].reading = <<>>
      /\ resp[r].pc = "active"
      BY <1>0 DEF Unreferenced, Sound
<1>2. PICK p : p = [resp[r] EXCEPT !.requesting = FALSE]  OBVIOUS
<1>3. /\ DOMAIN p = Fields /\ p.socket = resp[r].socket /\ p.restarts = resp[r].restarts
      /\ p.requesting = FALSE /\ p.reading = <<>> /\ p.writing = resp[r].writing
      /\ p.buffer = resp[r].buffer /\ p.exists = resp[r].exists /\ p.pc = "active"
      BY <1>0, <1>1, <1>2 DEF Sound, Fields
<1>4. Sound(p) /\ Unanswered(p)
      BY <1>0, <1>1, <1>3 DEF Sound, Unreferenced, Unanswered, Fits
<1>5. restart(r, p)  BY <1>2 DEF RequestWriteError
<1> QED  BY <1>1, <1>3, <1>4, <1>5, RestartKeeps

LEMMA OriginReadErrorKeeps ==
    ASSUME PInv, UNCHANGED max_connections, NEW r \in Responses, OriginReadError(r)
    PROVE  PInv'
<1>0. /\ Responding /\ Sound(resp[r]) /\ resp[r].pc = "active" /\ resp[r].reading # <<>>
      BY DEF PInv, Responding, OriginReadError
<1>1. resp[r].socket # None /\ ~resp[r].requesting  BY <1>0 DEF Unreferenced, Sound
<1>2. PICK p : p = [resp[r] EXCEPT !.reading = <<>>]  OBVIOUS
<1>3. /\ DOMAIN p = Fields /\ p.socket = resp[r].socket /\ p.restarts = resp[r].restarts
      /\ p.requesting = resp[r].requesting /\ p.reading = <<>> /\ p.writing = resp[r].writing
      /\ p.buffer = resp[r].buffer /\ p.exists = resp[r].exists /\ p.pc = "active"
      BY <1>0, <1>2 DEF Sound, Fields
<1>4. Sound(p) /\ (p.restarts < MaxRestarts => Unanswered(p))
      BY <1>0, <1>1, <1>3 DEF Sound, Unreferenced, Unanswered, Fits
<1>5. restart(r, p)  BY <1>2 DEF OriginReadError
<1> QED  BY <1>1, <1>3, <1>4, <1>5, RestartKeeps

LEMMA OriginReadKeeps ==
    ASSUME PInv, UNCHANGED max_connections, NEW r \in Responses, OriginRead(r)
    PROVE  PInv'
<1>0. /\ Responding /\ Sound(resp[r]) /\ resp[r].pc = "active" /\ resp[r].reading # <<>>
      BY DEF PInv, Responding, OriginRead
<1>1. /\ resp[r].socket # None /\ resp[r].socket \in Conns /\ ~resp[r].requesting
      /\ resp[r].buffer.state # "done" /\ Fits(resp[r], resp[r].reading[1]) /\ ~Idle(resp[r])
      BY <1>0 DEF Unreferenced, Sound, Idle
<1>2. PICK p : p = [resp[r] EXCEPT !.reading = <<>>, !.restarts = MaxRestarts]  OBVIOUS
<1>3. /\ DOMAIN p = Fields /\ p.socket = resp[r].socket /\ p.restarts = MaxRestarts
      /\ p.requesting = resp[r].requesting /\ p.reading = <<>> /\ p.writing = resp[r].writing
      /\ p.buffer = resp[r].buffer /\ p.exists = resp[r].exists /\ p.pc = "active"
      BY <1>0, <1>2 DEF Sound, Fields
<1>4. Sound(p)  BY <1>0, <1>1, <1>3 DEF Sound, Unreferenced, Unanswered, Fits
<1> DEFINE read(x, data) ==
               IF resp[r].reading[1] = "header" THEN ReadHeader(x, data)
               ELSE Transfer([x EXCEPT !.buffer = T!data_written(@, resp[r].reading[2], data)])
<1>a. \E data :
         LET x == [resp[r] EXCEPT !.reading = <<>>, !.restarts = MaxRestarts]
             q == read(x, data)
             destroyed == q.pc = "active" /\ Unreferenced(q)
         IN  /\ resp' = [resp EXCEPT ![r] = IF destroyed THEN Destroyed(q) ELSE q]
             /\ IF destroyed THEN release_connection(resp[r].socket, FALSE) ELSE UNCHANGED poolVars
      BY Zenon DEF OriginRead
<1>5. PICK data, q, destroyed :
         /\ q = read(p, data) /\ destroyed = (q.pc = "active" /\ Unreferenced(q))
         /\ resp' = [resp EXCEPT ![r] = IF destroyed THEN Destroyed(q) ELSE q]
         /\ IF destroyed THEN release_connection(resp[r].socket, FALSE) ELSE UNCHANGED poolVars
  <2> HIDE DEF read
  <2> QED  BY <1>2, <1>a
<1>6. Sound(q) /\ q.socket = p.socket
  <2>1. CASE resp[r].reading[1] = "header"
    <3>1. p.writing = <<>> /\ q = ReadHeader(p, data)  BY <1>1, <1>3, <1>5, <2>1 DEF Fits
    <3> QED  BY <1>1, <1>3, <1>4, <3>1, HeaderSound
  <2>2. CASE resp[r].reading[1] # "header"
    <3>1. PICK b : b = T!data_written(p.buffer, resp[r].reading[2], data)  OBVIOUS
    <3>2. DOMAIN b = BufferFields
      <4>1. DOMAIN p.buffer = BufferFields  BY <1>4 DEF Sound
      <4> QED  BY <3>1, <4>1, WrittenFields
    <3>3. PICK s : s = [p EXCEPT !.buffer = b]  OBVIOUS
    <3>4. /\ DOMAIN s = Fields /\ s.socket = p.socket /\ s.restarts = MaxRestarts
          /\ s.requesting = p.requesting /\ s.reading = <<>> /\ s.writing = p.writing
          /\ s.buffer = b /\ s.exists = p.exists /\ s.pc = "active"
          BY <1>3, <3>3 DEF Fields
    <3>5. Sound(s)  BY <1>1, <1>3, <1>4, <3>2, <3>4 DEF Sound, Unreferenced, Unanswered, Fits
    <3>6. q = Transfer(s)  BY <1>5, <2>2, <3>1, <3>3
    <3>7. s.exists  BY <1>1, <1>3, <2>2, <3>4 DEF Fits
    <3> QED  BY <1>1, <1>3, <3>4, <3>5, <3>6, <3>7, TransferSound DEF BodyOnly
  <2> QED  BY <2>1, <2>2
<1>7. CASE destroyed
  <2>1. PICK d : d = Destroyed(q)  OBVIOUS
  <2>2. Becomes(r, d)
    <3>1. resp' = [resp EXCEPT ![r] = d]  BY <1>5, <1>7, <2>1
    <3> QED  BY <1>0, <3>1, UpdateBecomes
  <2>3. Sound(d) /\ d.socket = None  BY <2>1, DestroyedSound
  <2>4. PICK c \in Conns : c = resp[r].socket  BY <1>1
  <2>5. PICK keep : keep = FALSE  OBVIOUS
  <2>6. release_connection(c, keep)  BY <1>5, <1>7, <2>4, <2>5
  <2> QED  BY <2>2, <2>3, <2>4, <2>6, ReturnKeeps
<1>8. CASE ~destroyed
  <2>1. Becomes(r, q)
    <3>1. resp' = [resp EXCEPT ![r] = q]  BY <1>5, <1>8
    <3> QED  BY <1>0, <3>1, UpdateBecomes
  <2>2. UNCHANGED listVars  BY <1>5, <1>8 DEF poolVars, listVars
  <2> QED  BY <1>1, <1>3, <1>6, <2>1, <2>2, QuietKeeps
<1> QED  BY <1>7, <1>8

(* The client has got what was written for it, or has not. *)
LEMMA WrittenSound ==
    ASSUME NEW p, Sound(p), p.pc = "active", p.writing # <<>>,
           NEW q, DOMAIN q = Fields, DOMAIN q.buffer = BufferFields,
           q.buffer.state = p.buffer.state, q.pc = p.pc, q.socket = p.socket,
           q.restarts = p.restarts, q.requesting = p.requesting, q.reading = p.reading,
           q.exists = p.exists, q.writing = <<>>
    PROVE  /\ Sound(q) /\ q.socket # None /\ q.socket = p.socket /\ q.pc = "active"
           /\ ~q.requesting /\ q.restarts >= MaxRestarts /\ BodyOnly(q) /\ ~Idle(p)
<1>1. /\ p.socket # None /\ ~p.requesting /\ p.restarts \in Nat /\ ~(p.restarts < MaxRestarts)
      BY DEF Sound, Unreferenced, Unanswered
<1>2. p.restarts >= MaxRestarts  BY <1>1
<1>3. BodyOnly(q)  BY DEF Sound, Fits, BodyOnly
<1>4. Sound(q)  BY <1>1, <1>3 DEF Sound, Unreferenced, Unanswered, Fits
<1> QED  BY <1>1, <1>2, <1>3, <1>4 DEF Idle

LEMMA HeaderWrittenKeeps ==
    ASSUME PInv, UNCHANGED max_connections, NEW r \in Responses, HeaderWritten(r)
    PROVE  PInv'
<1>0. Sound(resp[r]) /\ resp[r].pc = "active" /\ resp[r].writing # <<>>
      BY DEF PInv, Responding, HeaderWritten
<1>1. PICK p : p = Sent(resp[r], filtered_header(resp[r].header))  OBVIOUS
<1>2. /\ DOMAIN p = Fields /\ p.socket = resp[r].socket /\ p.restarts = resp[r].restarts
      /\ p.requesting = resp[r].requesting /\ p.reading = resp[r].reading /\ p.writing = <<>>
      /\ p.buffer = resp[r].buffer /\ p.exists = resp[r].exists /\ p.pc = "active"
      BY <1>0, <1>1 DEF Sound, Fields, Sent
<1>3. /\ Sound(p) /\ p.socket # None /\ ~p.requesting /\ p.restarts >= MaxRestarts
      /\ BodyOnly(p) /\ ~Idle(resp[r])
  <2>1. DOMAIN p.buffer = BufferFields  BY <1>0, <1>2 DEF Sound
  <2> QED  BY <1>0, <1>2, <2>1, WrittenSound
<1>4. PICK q : q = IF p.exists THEN Transfer(p) ELSE p  OBVIOUS
<1>5. PICK done : done = ~p.exists  OBVIOUS
<1>6. Continue(r, q, done)  BY <1>1, <1>4, <1>5 DEF HeaderWritten
<1>7. CASE p.exists
  <2>1. Sound(q) /\ q.socket = p.socket /\ q.pc \in {"active", "assertion"}
        BY <1>2, <1>3, <1>4, <1>7, TransferSound
  <2> QED  BY <1>2, <1>3, <1>5, <1>6, <1>7, <2>1, ContinueKeeps
<1>8. CASE ~p.exists
  <2>1. Unreferenced(p)  BY <1>2, <1>3, <1>8 DEF Unreferenced, Sound, Fits, BodyOnly
  <2> QED  BY <1>2, <1>3, <1>4, <1>6, <1>8, <2>1, ContinueKeeps
<1> QED  BY <1>7, <1>8

LEMMA BodyWrittenKeeps ==
    ASSUME PInv, UNCHANGED max_connections, NEW r \in Responses, BodyWritten(r)
    PROVE  PInv'
<1>0. Sound(resp[r]) /\ resp[r].pc = "active" /\ resp[r].writing # <<>>
      BY DEF PInv, Responding, BodyWritten
<1>a. resp[r].exists  BY <1>0 DEF BodyWritten, Sound
<1> DEFINE written(n, data) == [Sent(resp[r], data) EXCEPT !.buffer = T!data_read(resp[r].buffer, n)]
<1>1. \E n, data :
         LET p == written(n, data)
             done == T!transmission_done(p.buffer)
         IN  Continue(r, IF done THEN p ELSE Transfer(p), done)
      BY Zenon DEF BodyWritten
<1>2. PICK n, data, p : /\ p = written(n, data)
                        /\ LET done == T!transmission_done(p.buffer)
                           IN  Continue(r, IF done THEN p ELSE Transfer(p), done)
  <2> HIDE DEF written
  <2> QED  BY <1>1
<1>3. PICK b : b = T!data_read(resp[r].buffer, n)  OBVIOUS
<1>4. DOMAIN b = BufferFields /\ b.state = resp[r].buffer.state
  <2>1. DOMAIN resp[r].buffer = BufferFields  BY <1>0 DEF Sound
  <2> QED  BY <1>3, <2>1, ReadFields
<1>5. /\ DOMAIN p = Fields /\ p.socket = resp[r].socket /\ p.restarts = resp[r].restarts
      /\ p.requesting = resp[r].requesting /\ p.reading = resp[r].reading /\ p.writing = <<>>
      /\ p.buffer = b /\ p.exists = resp[r].exists /\ p.pc = "active"
      BY <1>0, <1>2, <1>3 DEF Sound, Fields, Sent
<1>6. /\ Sound(p) /\ p.socket # None /\ ~p.requesting /\ p.restarts >= MaxRestarts
      /\ BodyOnly(p) /\ ~Idle(resp[r])
      BY <1>0, <1>4, <1>5, WrittenSound
<1>7. PICK done : done = T!transmission_done(p.buffer)  OBVIOUS
<1>8. CASE done
  <2>1. p.buffer.state = "done"  BY <1>7, <1>8 DEF T!transmission_done
  <2>2. Unreferenced(p)  BY <1>5, <1>6, <2>1 DEF Unreferenced, Sound
  <2>3. Continue(r, p, done)  BY <1>2, <1>7, <1>8
  <2> QED  BY <1>5, <1>6, <2>2, <2>3, ContinueKeeps
<1>9. CASE ~done
  <2>1. PICK q : q = Transfer(p)  OBVIOUS
  <2>2. Continue(r, q, done)  BY <1>2, <1>7, <1>9, <2>1
  <2>3. Sound(q) /\ q.socket = p.socket /\ q.pc \in {"active", "assertion"}
        BY <1>a, <1>5, <1>6, <2>1, TransferSound
  <2> QED  BY <1>5, <1>6, <1>9, <2>2, <2>3, ContinueKeeps
<1> QED  BY <1>8, <1>9

LEMMA ClientWriteErrorKeeps ==
    ASSUME PInv, UNCHANGED max_connections, NEW r \in Responses, ClientWriteError(r)
    PROVE  PInv'
<1>0. Sound(resp[r]) /\ resp[r].pc = "active" /\ resp[r].writing # <<>>
      BY DEF PInv, Responding, ClientWriteError
<1>1. PICK p : p = [resp[r] EXCEPT !.writing = <<>>]  OBVIOUS
<1>2. /\ DOMAIN p = Fields /\ p.socket = resp[r].socket /\ p.restarts = resp[r].restarts
      /\ p.requesting = resp[r].requesting /\ p.reading = resp[r].reading /\ p.writing = <<>>
      /\ p.buffer = resp[r].buffer /\ p.exists = resp[r].exists /\ p.pc = "active"
      BY <1>0, <1>1 DEF Sound, Fields
<1>3. Sound(p) /\ ~Idle(resp[r])
  <2>1. DOMAIN p.buffer = BufferFields  BY <1>0, <1>2 DEF Sound
  <2> QED  BY <1>0, <1>2, <2>1, WrittenSound
<1>4. PICK q : q = NotPossible(p, FALSE)  OBVIOUS
<1>5. Sound(q) /\ q.socket = p.socket /\ q.pc \in {"active", "assertion"}
      BY <1>2, <1>3, <1>4, NotPossibleSound
<1>6. PICK done : done = FALSE  OBVIOUS
<1>7. Continue(r, q, done)  BY <1>1, <1>4, <1>6 DEF ClientWriteError
<1> QED  BY <1>2, <1>3, <1>5, <1>6, <1>7, ContinueKeeps

-----------------------------------------------------------------------------
(* The invariant *)

(* The connections that earlier responses left are in the list once. *)
LEMMA InitOnce ==
    ASSUME InitPool
    PROVE  /\ idle \in Seq(Conns) /\ Once(idle) /\ Len(idle) <= max_connections
           /\ max_connections \in Nat
<1>0. Cardinality(Conns) \in Nat /\ max_connections \in 0 .. Cardinality(Conns)
      BY FS_CardinalityType DEF InitPool
<1>1. PICK f : f \in [1 .. Cardinality(Conns) -> Conns] /\ IsInjective(f)
      BY FS_CardinalityType DEF ExistsBijection, Bijection, Injection
<1>2. PICK g : g = SetToSeq(Conns)  OBVIOUS
<1>3. g \in [1 .. Cardinality(Conns) -> Conns] /\ IsInjective(g)  BY <1>1, <1>2 DEF SetToSeq
<1>4. g \in Seq(Conns) /\ Len(g) = Cardinality(Conns)  BY <1>0, <1>3
<1>5. Once(g)  BY <1>0, <1>3, <1>4 DEF Once, IsInjective
<1>6. PICK s : s = SubSeq(g, 1, max_connections)  OBVIOUS
<1>7. /\ s \in Seq(Conns) /\ Len(s) = max_connections
      /\ \A i \in 1 .. Len(s) : s[i] = g[i] /\ i \in 1 .. Len(g)
  <2>1. max_connections \in Nat /\ max_connections <= Len(g)  BY <1>0, <1>4
  <2> QED  BY <1>4, <1>6, <2>1
<1>8. Once(s)  BY <1>5, <1>7 DEF Once
<1>9. idle = <<>> \/ idle = s  BY <1>2, <1>6 DEF InitPool
<1>10. CASE idle = <<>>
  <2>1. idle \in Seq(Conns) /\ Len(idle) = 0  BY <1>10
  <2> QED  BY <1>0, <2>1 DEF Once
<1>11. CASE idle = s  BY <1>0, <1>7, <1>8, <1>11
<1> QED  BY <1>9, <1>10, <1>11

LEMMA InitPInv == Init => PInv
<1> SUFFICES ASSUME Init PROVE PInv  OBVIOUS
<1>1. /\ connecting = {} /\ in_use = {} /\ posted = {} /\ call_back = [c \in Conns |-> None]
      /\ resp = [r \in Responses |-> NewResponse]
      BY DEF Init, InitPool
<1>2. /\ idle \in Seq(Conns) /\ Once(idle) /\ Len(idle) <= max_connections
      /\ max_connections \in Nat
      BY InitOnce DEF Init
<1>3. PoolType /\ Lists  BY <1>1, <1>2 DEF PoolType, Lists
<1>4. Responding  BY <1>1, NewSound DEF Responding
<1>5. Waits /\ OneCall  BY <1>1 DEF Waits, OneCall
<1>6. \A r \in Responses, c \in Conns : ~Holds(r, c)  BY <1>1, NewSound DEF Holds
<1>7. Held  BY <1>1, <1>6 DEF Held
<1>8. WithinLimit
  <2>1. Cardinality(connecting) = 0 /\ Cardinality(in_use) = 0  BY <1>1, FS_EmptySet
  <2>2. Len(idle) \in Nat /\ max_connections \in Nat  BY <1>2
  <2> QED  BY <1>2, <2>1, <2>2 DEF WithinLimit
<1> QED  BY <1>3, <1>4, <1>5, <1>7, <1>8 DEF PInv

LEMMA NextPInv == PInv /\ [Next]_vars => PInv'
<1> SUFFICES ASSUME PInv, [Next]_vars PROVE PInv'  OBVIOUS
<1>1. CASE UNCHANGED vars
  <2>1. UNCHANGED <<idle, connecting, in_use, call_back, posted, resp, max_connections>>  BY <1>1 DEF vars
  <2> QED  BY <2>1, <2>1, LateKeeps
<1>2. CASE Next
  <2>1. (\A r \in Responses : resp[r].pc # "assertion") /\ UNCHANGED max_connections
        BY <1>2 DEF Next, Running, Aborted
  <2>2. CASE \E c \in Conns : Connected(c) \/ ConnectTimeout(c) \/ IdleTimeout(c) \/ TimerExpires(c)
        BY <2>1, <2>2, PoolKeeps
  <2>3. CASE \E r \in Responses : Start(r) \/ Reconnect(r)  BY <2>1, <2>3, StartKeeps, ReconnectKeeps
  <2>4. CASE \E r \in Responses : RequestWritten(r)  BY <2>1, <2>4, RequestWrittenKeeps
  <2>5. CASE \E r \in Responses : OriginRead(r)  BY <2>1, <2>5, OriginReadKeeps
  <2>6. CASE \E r \in Responses : HeaderWritten(r)  BY <2>1, <2>6, HeaderWrittenKeeps
  <2>7. CASE \E r \in Responses : BodyWritten(r)  BY <2>1, <2>7, BodyWrittenKeeps
  <2>8. CASE \E r \in Responses : RequestWriteError(r)  BY <2>1, <2>8, RequestWriteErrorKeeps
  <2>9. CASE \E r \in Responses : OriginReadError(r)  BY <2>1, <2>9, OriginReadErrorKeeps
  <2>10. CASE \E r \in Responses : ClientWriteError(r)  BY <2>1, <2>10, ClientWriteErrorKeeps
  <2>11. CASE \E r \in Responses, c \in Conns : connection_received(r, c)
         BY <2>1, <2>11, ReceivedKeeps
  <2> QED  BY <1>2, <2>2, <2>3, <2>4, <2>5, <2>6, <2>7, <2>8, <2>9, <2>10, <2>11 DEF Next
<1> QED  BY <1>1, <1>2

LEMMA InvariantPInv == Spec => []PInv
BY InitPInv, NextPInv, PTL DEF Spec

LEMMA HeldOnce == PInv => SocketsHeld
<1> SUFFICES ASSUME PInv, NEW c \in Conns
             PROVE  Cardinality({ r \in Responses : resp[r].socket = c }
                                \cup { x[1] : x \in { y \in posted : y[2] = c } })
                    = IF c \in in_use THEN 1 ELSE 0
    BY DEF SocketsHeld
<1> DEFINE holders == { r \in Responses : resp[r].socket = c }
                      \cup { x[1] : x \in { y \in posted : y[2] = c } }
<1>1. \A r : r \in holders <=> r \in Responses /\ Holds(r, c)
  <2>1. posted \in SUBSET (Responses \X Conns)  BY DEF PInv, PoolType
  <2>2. \A r : r \in { x[1] : x \in { y \in posted : y[2] = c } } <=> <<r, c>> \in posted
        BY <2>1
  <2>3. \A r : <<r, c>> \in posted => r \in Responses  BY <2>1
  <2> QED  BY <2>2, <2>3 DEF Holds
<1> HIDE DEF holders
<1>2. CASE c \in in_use
  <2>1. PICK r \in Responses : Holds(r, c)  BY <1>2 DEF PInv, Held
  <2>2. holders = {r}  BY <1>1, <2>1 DEF PInv, Held
  <2>3. Cardinality(holders) = 1  BY <2>2, FS_Singleton
  <2> QED  BY <1>2, <2>3 DEF holders
<1>3. CASE c \notin in_use
  <2>1. holders = {}  BY <1>1, <1>3 DEF PInv, Held
  <2>2. Cardinality(holders) = 0  BY <2>1, FS_EmptySet
  <2> QED  BY <1>3, <2>2 DEF holders
<1> QED  BY <1>2, <1>3

(* Every connection that counts as one in use has exactly one response     *)
(* that holds it or will be given it, so that none is in use any more when *)
(* the responses are gone (the assert at connector.h:184), and no response *)
(* holds one that is idle or given up, so that release_connection() finds  *)
(* the connection it is called for.                                        *)
THEOREM SocketsAccounted == Spec => []SocketsHeld
BY InvariantPInv, HeldOnce, PTL

(* The pool never has more connections than max_connections(), whatever    *)
(* fails or is restarted: the limit is tested under the same lock under    *)
(* which a connection is added (connector.h:194), and a connection that    *)
(* moves from list to list is never counted twice or lost in between.      *)
THEOREM PoolLimited == Spec => []WithinLimit
<1>1. PInv => WithinLimit  BY DEF PInv
<1> QED  BY <1>1, InvariantPInv, PTL

-----------------------------------------------------------------------------
(* What a response has read, holds and has written, over one handler *)

LEMMA Parts ==
    ASSUME NEW b \in Seq(Octets), NEW o \in Seq(Octets)
    PROVE  /\ SubSeq(b \o o, 1, Len(b)) = b
           /\ SubSeq(b \o o, Len(b) + 1, Len(b \o o)) = o
<1>1. PICK g, k, l : g = b \o o /\ k = Len(b) /\ l = Len(o)  OBVIOUS
<1>2. /\ k \in Nat /\ l \in Nat /\ g \in Seq(Octets) /\ Len(g) = k + l
      /\ \A i \in 1 .. k : g[i] = b[i]
      BY <1>1, Beginning
<1>3. \A i \in 1 .. l : g[k + i] = o[i]  BY <1>1, Ending
<1>4. SubSeq(g, 1, k) = b
  <2>1. PICK h : h = SubSeq(g, 1, k)  OBVIOUS
  <2>2. Len(h) = k /\ h \in Seq(Octets) /\ \A i \in 1 .. k : h[i] = g[i]  BY <1>2, <2>1
  <2>3. h = [i \in 1 .. k |-> h[i]] /\ b = [i \in 1 .. k |-> b[i]]  BY <1>1, <2>2
  <2> QED  BY <1>2, <2>1, <2>2, <2>3
<1>5. SubSeq(g, k + 1, Len(g)) = o
  <2>1. PICK h : h = SubSeq(g, k + 1, k + l)  OBVIOUS
  <2>2. Len(h) = l /\ h \in Seq(Octets)  BY <1>2, <2>1
  <2>3. ASSUME NEW i \in 1 .. l PROVE h[i] = o[i]
    <3>1. h[i] = g[(k + 1) + i - 1] /\ (k + 1) + i - 1 = k + i  BY <1>2, <2>1
    <3> QED  BY <1>3, <3>1
  <2>4. h = [i \in 1 .. l |-> h[i]] /\ o = [i \in 1 .. l |-> o[i]]  BY <1>1, <2>2
  <2> QED  BY <1>2, <2>1, <2>3, <2>4
<1> QED  BY <1>1, <1>4, <1>5

LEMMA EmptyRing ==
    ASSUME NEW t, DOMAIN t = BufferFields, DOMAIN t.buffer = 0 .. Size - 1,
           t.unparsed \in Seq(Octets), t.start = 0, t.end = 0
    PROVE  RingType(t) /\ Content(t) = <<>>
<1>1. Filled(t) = 0  BY DEF Filled
<1>2. RingType(t)  BY <1>1 DEF RingType
<1>3. Content(t) \in Seq(Octets) /\ Len(Content(t)) = 0  BY <1>1, <1>2, ContentType
<1> QED  BY <1>2, <1>3

(* start() with what has been read behind the header. *)
LEMMA Started ==
    ASSUME NEW m, NEW method, NEW b \in Seq(Octets), NEW o \in Seq(Octets), Announced(m, method, b \o o)
    PROVE  LET t == T!start(encoding(m), content_length(m), b)
           IN  RingType(t) /\ t.unparsed = b /\ Content(t) = <<>> /\ Expected(t, o)
<1>1. PICK t : t = T!start(encoding(m), content_length(m), b)  OBVIOUS
<1>2. PICK e, l : e = encoding(m) /\ l = content_length(m)  OBVIOUS
<1> DEFINE New(d) == [T!NewBuffer EXCEPT !.unparsed = d, !.body_size = Size]
<1>3. ASSUME NEW d
      PROVE  /\ DOMAIN New(d) = BufferFields /\ New(d).unparsed = d /\ New(d).body_size = Size
             /\ DOMAIN New(d).buffer = 0 .. Size - 1
             /\ New(d).start = 0 /\ New(d).end = 0 /\ New(d).state = "no_size_given"
             /\ New(d).current_chunk = 0 /\ New(d).chunked_state = "chunk_size_start" /\ New(d).error = FALSE
  <2>1. PICK v : v = T!NewBuffer  OBVIOUS
  <2>2. /\ DOMAIN v = BufferFields /\ DOMAIN v.buffer = 0 .. Size - 1
        /\ v.start = 0 /\ v.end = 0 /\ v.state = "no_size_given"
        /\ v.current_chunk = 0 /\ v.chunked_state = "chunk_size_start" /\ v.error = FALSE
        BY <2>1 DEF T!NewBuffer, BufferFields
  <2> QED  BY <2>1, <2>2 DEF BufferFields
<1>4. T!start(e, l, b) =
         IF e = "chunked" THEN T!handle_chunked_write([New(b) EXCEPT !.state = "chunked"], b)
         ELSE IF e = "length"
         THEN [New(b) EXCEPT !.body_size = l - T!min(l, Len(b)),
                             !.state = IF l - T!min(l, Len(b)) # 0 THEN "size_given" ELSE "done"]
         ELSE New(b)
      BY DEF T!start
<1>5. \A d : T!start("chunked", 0, d) = T!handle_chunked_write([New(d) EXCEPT !.state = "chunked"], d)
      BY DEF T!start
<1>6. PICK body : body = b \o o  OBVIOUS
<1>7. /\ body \in Seq(Octets) /\ Len(body) = Len(b) + Len(o) /\ Len(b) \in Nat /\ Len(o) \in Nat
      /\ SubSeq(body, 1, Len(b)) = b /\ SubSeq(body, Len(b) + 1, Len(body)) = o
      BY <1>6, Beginning, Parts
<1> HIDE DEF New
<1>8. CASE e = "chunked"
  <2>1. ASSUME NEW d
        PROVE  LET v == [New(d) EXCEPT !.state = "chunked"]
               IN  /\ DOMAIN v = BufferFields /\ v.unparsed = d /\ v.body_size = Size /\ v.state = "chunked"
                   /\ DOMAIN v.buffer = 0 .. Size - 1 /\ v.start = 0 /\ v.end = 0
                   /\ Frame(v) = [state |-> "chunked", current_chunk |-> 0,
                                  chunked_state |-> "chunk_size_start", error |-> FALSE]
    <3>z. PICK z : z = New(d)  OBVIOUS
    <3>0. z = New(d) /\ DOMAIN z = BufferFields /\ z.unparsed = d /\ z.body_size = Size
             /\ DOMAIN z.buffer = 0 .. Size - 1
             /\ z.start = 0 /\ z.end = 0 /\ z.state = "no_size_given"
             /\ z.current_chunk = 0 /\ z.chunked_state = "chunk_size_start" /\ z.error = FALSE
          BY <1>3, <3>z
    <3>1. PICK v : v = [z EXCEPT !.state = "chunked"]  OBVIOUS
    <3>2. /\ DOMAIN v = BufferFields /\ v.unparsed = d /\ v.body_size = Size /\ v.state = "chunked"
          /\ v.buffer = z.buffer /\ v.start = 0 /\ v.end = 0
          /\ v.current_chunk = 0 /\ v.chunked_state = "chunk_size_start" /\ v.error = FALSE
          BY <3>0, <3>1 DEF BufferFields
    <3>3. Frame(v) = [state |-> "chunked", current_chunk |-> 0,
                      chunked_state |-> "chunk_size_start", error |-> FALSE]  BY <3>2 DEF Frame
    <3> QED  BY <3>0, <3>1, <3>2, <3>3
  <2>2. PICK v : v = [New(b) EXCEPT !.state = "chunked"]  OBVIOUS
  <2>3. /\ DOMAIN v = BufferFields /\ v.unparsed = b /\ v.body_size = Size /\ v.state = "chunked"
        /\ DOMAIN v.buffer = 0 .. Size - 1 /\ v.start = 0 /\ v.end = 0
        /\ Frame(v) = [state |-> "chunked", current_chunk |-> 0,
                       chunked_state |-> "chunk_size_start", error |-> FALSE]
        BY <2>1, <2>2
  <2>4. t = T!handle_chunked_write(v, b)  BY <1>1, <1>2, <1>4, <1>8, <2>2
  <2>5. /\ DOMAIN t = BufferFields /\ t.unparsed = b /\ t.buffer = v.buffer /\ t.start = 0 /\ t.end = 0
        /\ t.body_size = Size /\ Frame(t) = LastFrame(Frame(v), b)
        BY <2>3, <2>4, Chunked
  <2>6. ASSUME NEW k \in 0 .. Len(body), T!handle_chunked_write(v, SubSeq(body, 1, k)).state = "done"
        PROVE  k = Len(body)
    <3>1. PICK d \in Seq(Octets) : d = SubSeq(body, 1, k)
      <4>1. SubSeq(body, 1, k) \in Seq(Octets)  BY <1>7, Pieces
      <4> QED  BY <4>1
    <3>2. PICK w : w = [New(d) EXCEPT !.state = "chunked"]  OBVIOUS
    <3>3. DOMAIN w = BufferFields /\ Frame(w) = Frame(v)  BY <2>1, <2>3, <3>2
    <3>4. T!handle_chunked_write(w, d).state = T!handle_chunked_write(v, d).state
      <4>1. T!handle_chunked_write(w, d).state = LastFrame(Frame(w), d).state  BY <3>3, Chunked
      <4>2. T!handle_chunked_write(v, d).state = LastFrame(Frame(v), d).state  BY <2>3, Chunked
      <4> QED  BY <3>3, <4>1, <4>2
    <3>5. T!start("chunked", 0, d).state = "done"  BY <1>5, <2>6, <3>1, <3>2, <3>4
    <3> QED  BY <1>2, <1>6, <1>8, <3>1, <3>5 DEF Announced
  <2>7. Expected(t, o)
    <3>1. PICK n \in 0 .. Len(body) : n = Len(b)
      <4>1. Len(b) \in 0 .. Len(body)  BY <1>7
      <4> QED  BY <4>1
    <3>2. Frame(t) = LastFrame(Frame(v), SubSeq(body, 1, n))  BY <1>7, <2>5, <3>1
    <3>3. Expected(t, SubSeq(body, n + 1, Len(body)))
          BY <1>7, <2>3, <2>5, <2>6, <3>2, ChunksExpected
    <3> QED  BY <1>7, <3>1, <3>3
  <2> QED  BY <1>1, <2>3, <2>5, <2>7, EmptyRing
<1>9. CASE e = "length"
  <2>1. l \in Nat /\ Len(body) <= l  BY <1>2, <1>6, <1>9 DEF Announced
  <2>a. PICK k \in Nat : k = Len(b)  OBVIOUS
  <2>i. PICK i \in Nat : i = Len(o)  OBVIOUS
  <2>j. Len(body) = k + i  BY <1>7, <2>a, <2>i, Zenon
  <2>b. k + i <= l  BY <2>1, <2>j
  <2>2. PICK x \in Nat : x = l - k  BY <2>1, <2>b
  <2>3. l - T!min(l, Len(b)) = x  BY <2>1, <2>a, <2>b, <2>2 DEF T!min
  <2>4. t = [New(b) EXCEPT !.body_size = x, !.state = IF x # 0 THEN "size_given" ELSE "done"]
        BY <1>1, <1>2, <1>4, <1>9, <2>3
  <2>z. PICK z : z = New(b)  OBVIOUS
  <2>0. z = New(b) /\ DOMAIN z = BufferFields /\ z.unparsed = b /\ z.body_size = Size
             /\ DOMAIN z.buffer = 0 .. Size - 1
             /\ z.start = 0 /\ z.end = 0 /\ z.state = "no_size_given"
             /\ z.current_chunk = 0 /\ z.chunked_state = "chunk_size_start" /\ z.error = FALSE
        BY <1>3, <2>z
  <2>5. /\ DOMAIN t = BufferFields /\ t.unparsed = b /\ t.buffer = z.buffer /\ t.start = 0 /\ t.end = 0
        /\ t.body_size = x /\ t.state = IF x # 0 THEN "size_given" ELSE "done"
        BY <2>0, <2>4 DEF BufferFields
  <2>6. Len(o) <= x /\ (x = 0 => o = <<>>)
    <3>1. Len(o) <= x  BY <2>1, <2>b, <2>i, <2>2
    <3>2. x = 0 => Len(o) = 0  BY <2>i, <3>1
    <3> QED  BY <3>1, <3>2
  <2>7. Expected(t, o)  BY <2>5, <2>6 DEF Expected
  <2> QED  BY <1>1, <2>0, <2>5, <2>7, EmptyRing
<1>10. CASE e # "chunked" /\ e # "length"
  <2>1. t = New(b)  BY <1>1, <1>2, <1>4, <1>10
  <2>0. DOMAIN t = BufferFields /\ t.unparsed = b /\ t.body_size = Size
             /\ DOMAIN t.buffer = 0 .. Size - 1
             /\ t.start = 0 /\ t.end = 0 /\ t.state = "no_size_given"
             /\ t.current_chunk = 0 /\ t.chunked_state = "chunk_size_start" /\ t.error = FALSE
        BY <1>3, <2>1
  <2>2. Expected(t, o)  BY <2>0 DEF Expected
  <2> QED  BY <1>1, <2>0, <2>2, EmptyRing
<1> QED  BY <1>8, <1>9, <1>10

(* What can be written, as far as it is in one piece. *)
LEMMA ReadData ==
    ASSUME NEW t, RingType(t)
    PROVE  /\ Contiguous(t) \in Nat
           /\ t.unparsed # <<>> => T!read_buffer(t) = t.unparsed
           /\ t.unparsed = <<>> =>
                 /\ Len(T!read_buffer(t)) = Contiguous(t)
                 /\ T!read_buffer(t) = <<>> <=> Contiguous(t) = 0
           /\ Contiguous(t) = 0 => Content(t) = <<>>
<1>0. Size \in Nat /\ Size # 0  OBVIOUS
<1>1. PICK s \in 0 .. Size - 1, e \in 0 .. Size : s = t.start /\ e = t.end  BY DEF RingType
<1>2. PICK n \in Nat : n = Contiguous(t) /\ n = (IF s > e THEN Size ELSE e) - s
  <2>1. (IF s > e THEN Size ELSE e) - s \in Nat  BY <1>0
  <2> QED  BY <1>1, <2>1 DEF Contiguous
<1>3. t.unparsed = <<>> => T!read_buffer(t) = [i \in 1 .. n |-> t.buffer[t.start + i - 1]]
      BY <1>1, <1>2 DEF T!read_buffer
<1>4. \A f : Len([i \in 1 .. n |-> f[i]]) = n  OBVIOUS
<1>5. PICK d : d = [i \in 1 .. n |-> t.buffer[t.start + i - 1]]  OBVIOUS
<1>6. Len(d) = n /\ (d = <<>> <=> n = 0)
  <2>1. d = [i \in 1 .. n |-> d[i]]  BY <1>5
  <2>2. Len(d) = n  BY <1>4, <2>1
  <2>3. n = 0 => d = <<>>
    <3>1. ASSUME n = 0 PROVE d = <<>>
      <4>1. 1 .. n = {}  BY <3>1
      <4> QED  BY <1>5, <4>1
    <3> QED  BY <3>1
  <2> QED  BY <2>2, <2>3
<1>7. n = 0 => Filled(t) = 0  BY <1>0, <1>1, <1>2 DEF Filled
<1>8. Content(t) \in Seq(Octets) /\ Len(Content(t)) = Filled(t)  BY ContentType
<1>9. n = 0 => Content(t) = <<>>  BY <1>7, <1>8
<1>10. t.unparsed # <<>> => T!read_buffer(t) = t.unparsed  BY DEF T!read_buffer
<1> QED  BY <1>2, <1>3, <1>5, <1>6, <1>9, <1>10

(* What stays as it is when a response asks for something. *)
Carried(p, q) ==
    /\ DOMAIN q = Fields /\ q.socket = p.socket /\ q.restarts = p.restarts
    /\ q.requesting = p.requesting /\ q.header = p.header /\ q.exists = p.exists
    /\ q.buffer = p.buffer /\ q.listed = p.listed /\ q.outcome = p.outcome
    /\ q.answer = p.answer /\ q.got = p.got

LEMMA ReadCarries ==
    ASSUME NEW p, DOMAIN p = Fields, NEW kind, NEW at, NEW size
    PROVE  LET q == issue_read(p, kind, at, size)
           IN  /\ Carried(p, q) /\ q.writing = p.writing /\ q.sending = p.sending /\ q.pc = p.pc
               /\ q.reading = IF p.reading = <<>> /\ size # 0 THEN <<kind, at, size>> ELSE p.reading
BY DEF issue_read, Fields, Carried

LEMMA WriteCarries ==
    ASSUME NEW p, DOMAIN p = Fields
    PROVE  LET q    == issue_write(p)
               asks == p.writing = <<>> /\ T!read_buffer(p.buffer) # <<>>
           IN  /\ Carried(p, q) /\ q.reading = p.reading
               /\ ~asks => q.writing = p.writing /\ q.sending = p.sending /\ q.pc = p.pc
               /\ asks /\ p.listed => /\ q.sending = TRUE /\ q.pc = p.pc
                                      /\ q.writing = <<"body", IF p.buffer.unparsed # <<>> THEN -1 ELSE p.buffer.start,
                                                       Len(T!read_buffer(p.buffer))>>
               /\ asks /\ ~p.listed => q.writing = p.writing /\ q.sending = p.sending /\ q.pc = "assertion"
<1>1. PICK d : d = T!read_buffer(p.buffer)  OBVIOUS
<1>2. PICK at : at = IF p.buffer.unparsed # <<>> THEN -1 ELSE p.buffer.start  OBVIOUS
<1>3. issue_write(p) =
         IF p.writing = <<>> /\ d # <<>>
         THEN IF p.listed THEN [p EXCEPT !.writing = <<"body", at, Len(d)>>, !.sending = TRUE]
              ELSE [p EXCEPT !.pc = "assertion"]
         ELSE p
      BY <1>1, <1>2 DEF issue_write
<1>4. PICK q : q = issue_write(p)  OBVIOUS
<1>5. CASE p.writing = <<>> /\ d # <<>> /\ p.listed
  <2>1. q = [p EXCEPT !.writing = <<"body", at, Len(d)>>, !.sending = TRUE]  BY <1>3, <1>4, <1>5
  <2>2. /\ Carried(p, q) /\ q.reading = p.reading /\ q.sending = TRUE /\ q.pc = p.pc
        /\ q.writing = <<"body", at, Len(d)>>
        BY <2>1 DEF Carried, Fields
  <2> QED  BY <1>1, <1>2, <1>4, <1>5, <2>2
<1>6. CASE p.writing = <<>> /\ d # <<>> /\ ~p.listed
  <2>1. q = [p EXCEPT !.pc = "assertion"]  BY <1>3, <1>4, <1>6
  <2>2. /\ Carried(p, q) /\ q.reading = p.reading /\ q.sending = p.sending /\ q.pc = "assertion"
        /\ q.writing = p.writing
        BY <2>1 DEF Carried, Fields
  <2> QED  BY <1>1, <1>4, <1>6, <2>2
<1>7. CASE ~(p.writing = <<>> /\ d # <<>>)
  <2>1. q = p  BY <1>3, <1>4, <1>7
  <2>2. Carried(p, q)  BY <2>1 DEF Carried
  <2> QED  BY <1>1, <1>4, <1>7, <2>1, <2>2
<1> QED  BY <1>5, <1>6, <1>7

LEMMA TransferCarries ==
    ASSUME NEW p, DOMAIN p = Fields
    PROVE  LET q == Transfer(p)
           IN  Carried(p, q) /\ q.pc \in {p.pc, "assertion"} /\ (p.listed => q.pc = p.pc)
<1>0. PICK w : w = T!write_buffer(p.buffer)  OBVIOUS
<1>a. PICK a, n : a = w[1] /\ n = w[2]  OBVIOUS
<1>1. PICK x : x = issue_read(p, "body", a, n)  OBVIOUS
<1>2. PICK q : q = issue_write(x)  OBVIOUS
<1>3. Transfer(p) = q  BY <1>0, <1>a, <1>1, <1>2 DEF Transfer
<1>b. Carried(p, x) /\ x.pc = p.pc  BY <1>1 DEF issue_read, Carried, Fields
<1>4. DOMAIN x = Fields /\ Carried(p, x) /\ x.pc = p.pc  BY <1>b DEF Carried
<1>5. Carried(x, q) /\ q.pc \in {x.pc, "assertion"} /\ (x.listed => q.pc = x.pc)
      BY <1>2, <1>4, WriteCarries
<1>6. Carried(p, q) /\ x.listed = p.listed  BY <1>4, <1>5 DEF Carried
<1> QED  BY <1>3, <1>4, <1>5, <1>6

(* Reading and writing are asked for what is there, and only if all of the *)
(* body was received and written nothing is pending.                       *)
LEMMA TransferAsks ==
    ASSUME NEW p, DOMAIN p = Fields, p.listed, NEW o, RingType(p.buffer), Expected(p.buffer, o)
    PROVE  LET q == Transfer(p)
               t == p.buffer
           IN  /\ p.reading # <<>> => q.reading = p.reading
               /\ p.reading = <<>> /\ q.reading # <<>> =>
                     /\ q.reading[1] = "body" /\ Room(t, q.reading[2], q.reading[3])
                     /\ t.state = "size_given" => q.reading[3] <= t.body_size
               /\ p.writing # <<>> => q.writing = p.writing /\ q.sending = p.sending
               /\ p.writing = <<>> /\ q.writing # <<>> =>
                     /\ q.writing[1] = "body" /\ q.writing[3] \in Nat /\ q.sending = TRUE
                     /\ IF t.unparsed # <<>> THEN q.writing[2] = -1 /\ q.writing[3] <= Len(t.unparsed)
                        ELSE q.writing[2] = t.start /\ q.writing[3] <= Contiguous(t)
               /\ q.sending \in {p.sending, TRUE}
               /\ q.reading = <<>> /\ q.writing = <<>> =>
                     t.state = "done" /\ t.unparsed = <<>> /\ Content(t) = <<>>
<1>1. PICK t, w : t = p.buffer /\ w = T!write_buffer(t)  OBVIOUS
<1>2. PICK a, n : a = w[1] /\ n = w[2]  OBVIOUS
<1>3. PICK x : x = issue_read(p, "body", a, n)  OBVIOUS
<1>4. PICK q : q = issue_write(x)  OBVIOUS
<1>5. Transfer(p) = q  BY <1>1, <1>2, <1>3, <1>4 DEF Transfer
<1>6. /\ DOMAIN x = Fields /\ x.writing = p.writing /\ x.sending = p.sending /\ x.buffer = t /\ x.listed
      /\ x.reading = IF p.reading = <<>> /\ n # 0 THEN <<"body", a, n>> ELSE p.reading
      BY <1>1, <1>3, ReadCarries DEF Carried
<1>7. /\ n # 0 => Room(t, a, n)
      /\ t.state = "size_given" => n <= t.body_size
      /\ n = 0 => t.state = "done" \/ Contiguous(t) # 0
      BY <1>1, <1>2, WriteRoom
<1>8. PICK d, b : d = T!read_buffer(t) /\ b = (IF t.unparsed # <<>> THEN -1 ELSE t.start)  OBVIOUS
<1>9. /\ Contiguous(t) \in Nat /\ t.unparsed \in Seq(Octets)
      /\ t.unparsed # <<>> => d = t.unparsed
      /\ t.unparsed = <<>> => Len(d) = Contiguous(t) /\ (d = <<>> <=> Contiguous(t) = 0)
      /\ Contiguous(t) = 0 => Content(t) = <<>>
      BY <1>1, <1>8, ReadData DEF RingType
<1>10. /\ q.reading = x.reading
       /\ ~(x.writing = <<>> /\ d # <<>>) => q.writing = x.writing /\ q.sending = x.sending
       /\ x.writing = <<>> /\ d # <<>> => q.sending = TRUE /\ q.writing = <<"body", b, Len(d)>>
      BY <1>4, <1>6, <1>8, WriteCarries
<1>11. /\ p.reading # <<>> => q.reading = p.reading
       /\ p.reading = <<>> /\ q.reading # <<>> =>
             /\ q.reading[1] = "body" /\ Room(t, q.reading[2], q.reading[3])
             /\ t.state = "size_given" => q.reading[3] <= t.body_size
  <2>1. CASE p.reading # <<>>  BY <1>6, <1>10, <2>1
  <2>2. CASE p.reading = <<>> /\ q.reading # <<>>
    <3>1. q.reading = <<"body", a, n>> /\ n # 0  BY <1>6, <1>10, <2>2
    <3>2. q.reading[1] = "body" /\ q.reading[2] = a /\ q.reading[3] = n  BY <3>1
    <3> QED  BY <1>7, <2>2, <3>1, <3>2
  <2> QED  BY <2>1, <2>2
<1>12. /\ p.writing # <<>> => q.writing = p.writing /\ q.sending = p.sending
       /\ q.sending \in {p.sending, TRUE}
       BY <1>6, <1>10
<1>13. p.writing = <<>> /\ q.writing # <<>> =>
             /\ q.writing[1] = "body" /\ q.writing[3] \in Nat /\ q.sending = TRUE
             /\ IF t.unparsed # <<>> THEN q.writing[2] = -1 /\ q.writing[3] <= Len(t.unparsed)
                ELSE q.writing[2] = t.start /\ q.writing[3] <= Contiguous(t)
  <2> SUFFICES ASSUME p.writing = <<>>, q.writing # <<>>
               PROVE  /\ q.writing[1] = "body" /\ q.writing[3] \in Nat /\ q.sending = TRUE
                      /\ IF t.unparsed # <<>> THEN q.writing[2] = -1 /\ q.writing[3] <= Len(t.unparsed)
                         ELSE q.writing[2] = t.start /\ q.writing[3] <= Contiguous(t)
      OBVIOUS
  <2>1. q.sending = TRUE /\ q.writing = <<"body", b, Len(d)>>  BY <1>6, <1>10
  <2>2. q.writing[1] = "body" /\ q.writing[2] = b /\ q.writing[3] = Len(d)  BY <2>1
  <2>3. CASE t.unparsed # <<>>
    <3>1. PICK l \in Nat : l = Len(t.unparsed) /\ Len(d) = l  BY <1>9, <2>3
    <3> QED  BY <1>8, <2>1, <2>2, <2>3, <3>1
  <2>4. CASE t.unparsed = <<>>
    <3>1. PICK l \in Nat : l = Contiguous(t) /\ Len(d) = l  BY <1>9, <2>4
    <3> QED  BY <1>8, <2>1, <2>2, <2>4, <3>1
  <2> QED  BY <2>3, <2>4
<1>14. q.reading = <<>> /\ q.writing = <<>> => t.state = "done" /\ t.unparsed = <<>> /\ Content(t) = <<>>
  <2> SUFFICES ASSUME q.reading = <<>>, q.writing = <<>>
               PROVE  t.state = "done" /\ t.unparsed = <<>> /\ Content(t) = <<>>
      OBVIOUS
  <2>1. d = <<>> /\ n = 0
    <3>1. x.reading = <<>>  BY <1>10
    <3>2. \A y, z : <<"body", y, z>> # <<>>  OBVIOUS
    <3>3. n = 0  BY <1>6, <3>1, <3>2
    <3>4. x.writing = <<>>  BY <1>10, <3>2
    <3> QED  BY <1>10, <3>2, <3>3, <3>4
  <2> QED  BY <1>7, <1>9, <2>1
<1> QED  BY <1>1, <1>5, <1>11, <1>12, <1>13, <1>14

HeaderPending(p) == p.writing # <<>> /\ p.writing[1] = "header"

(* What the client has got or is getting. *)
Shown(p) == IF HeaderPending(p) THEN filtered_header(p.header) ELSE p.got

(* The pending read has room, and the pending write the data. *)
ReadFits(p) ==
    p.reading # <<>> =>
        /\ p.exists /\ p.reading[1] = "body" /\ Room(p.buffer, p.reading[2], p.reading[3])
        /\ p.buffer.state = "size_given" => p.reading[3] <= p.buffer.body_size

WriteFits(p) ==
    p.writing # <<>> /\ ~HeaderPending(p) =>
        /\ p.exists /\ p.writing[3] \in Nat
        /\ IF p.buffer.unparsed # <<>> THEN p.writing[2] = -1 /\ p.writing[3] <= Len(p.buffer.unparsed)
           ELSE p.writing[2] = p.buffer.start /\ p.writing[3] <= Contiguous(p.buffer)

(* What was written, what is kept and what is to come are the answer. *)
Flowing(p, o) ==
    /\ RingType(p.buffer)
    /\ IF p.exists THEN Expected(p.buffer, o) ELSE o = <<>> /\ Kept(p.buffer) = <<>>
    /\ p.sending /\ (HeaderPending(p) => p.got = <<>>)
    /\ Shown(p) \in Seq(Octets) /\ Shown(p) \o (Kept(p.buffer) \o o) = p.answer.forward
    /\ ReadFits(p) /\ WriteFits(p)

LEMMA KeptType ==
    ASSUME NEW t, RingType(t)
    PROVE  Kept(t) \in Seq(Octets) /\ t.unparsed \in Seq(Octets) /\ Content(t) \in Seq(Octets)
<1>1. t.unparsed \in Seq(Octets) /\ Content(t) \in Seq(Octets)  BY ContentType DEF RingType
<1> QED  BY <1>1, Beginning DEF Kept

LEMMA TransferFlows ==
    ASSUME NEW p, DOMAIN p = Fields, p.listed, p.exists, NEW o \in Seq(Octets), Flowing(p, o)
    PROVE  LET q == Transfer(p)
           IN  /\ Flowing(q, o)
               /\ q.reading = <<>> /\ q.writing = <<>> => o = <<>> /\ Kept(p.buffer) = <<>>
<1>1. PICK q, t : q = Transfer(p) /\ t = p.buffer  OBVIOUS
<1>2. RingType(t) /\ Expected(t, o)  BY <1>1 DEF Flowing
<1>3. Carried(p, q) /\ q.buffer = t /\ q.exists = p.exists /\ q.got = p.got /\ q.header = p.header
      /\ q.answer = p.answer
      BY <1>1, TransferCarries DEF Carried
<1>4. /\ p.reading # <<>> => q.reading = p.reading
      /\ p.reading = <<>> /\ q.reading # <<>> =>
            /\ q.reading[1] = "body" /\ Room(t, q.reading[2], q.reading[3])
            /\ t.state = "size_given" => q.reading[3] <= t.body_size
      /\ p.writing # <<>> => q.writing = p.writing /\ q.sending = p.sending
      /\ p.writing = <<>> /\ q.writing # <<>> =>
            /\ q.writing[1] = "body" /\ q.writing[3] \in Nat /\ q.sending = TRUE
            /\ IF t.unparsed # <<>> THEN q.writing[2] = -1 /\ q.writing[3] <= Len(t.unparsed)
               ELSE q.writing[2] = t.start /\ q.writing[3] <= Contiguous(t)
      /\ q.sending \in {p.sending, TRUE}
      /\ q.reading = <<>> /\ q.writing = <<>> =>
            t.state = "done" /\ t.unparsed = <<>> /\ Content(t) = <<>>
      BY <1>1, <1>2, TransferAsks
<1>5. HeaderPending(q) <=> HeaderPending(p)  BY <1>4 DEF HeaderPending
<1>6. Shown(q) = Shown(p)  BY <1>3, <1>5 DEF Shown
<1>7. ReadFits(q)  BY <1>1, <1>3, <1>4 DEF Flowing, ReadFits
<1>8. WriteFits(q)
  <2>1. CASE p.writing # <<>>  BY <1>1, <1>3, <1>4, <1>5, <2>1 DEF Flowing, WriteFits
  <2>2. CASE p.writing = <<>>  BY <1>1, <1>3, <1>4, <2>2 DEF WriteFits
  <2> QED  BY <2>1, <2>2
<1>9. q.sending  BY <1>4 DEF Flowing
<1>10. Flowing(q, o)
  <2>1. RingType(q.buffer) /\ Expected(q.buffer, o) /\ q.exists  BY <1>2, <1>3
  <2>2. HeaderPending(q) => q.got = <<>>  BY <1>3, <1>5 DEF Flowing
  <2>3. Shown(q) \in Seq(Octets) /\ Shown(q) \o (Kept(q.buffer) \o o) = q.answer.forward
        BY <1>1, <1>3, <1>6 DEF Flowing
  <2> QED  BY <1>7, <1>8, <1>9, <2>1, <2>2, <2>3 DEF Flowing
<1>11. q.reading = <<>> /\ q.writing = <<>> => o = <<>> /\ Kept(t) = <<>>
  <2>1. t.state = "done" => o = <<>>  BY <1>2 DEF Expected
  <2>2. t.unparsed = <<>> /\ Content(t) = <<>> => Kept(t) = <<>>
    <3>1. <<>> \o <<>> = <<>>  OBVIOUS
    <3> QED  BY <3>1 DEF Kept
  <2> QED  BY <1>4, <2>1, <2>2
<1> QED  BY <1>1, <1>10, <1>11

(* The characters at the place at. *)
Written(t, at, n) == [i \in 1 .. n |-> IF at < 0 THEN t.unparsed[i] ELSE t.buffer[at + i - 1]]

(* What was written is taken away from what is kept. *)
LEMMA DropKept ==
    ASSUME NEW t, RingType(t), NEW n \in Nat, n >= 1, NEW at,
           IF t.unparsed # <<>> THEN at = -1 /\ n <= Len(t.unparsed)
           ELSE at = t.start /\ n <= Contiguous(t),
           NEW u, u = T!data_read(t, n),
           NEW d, d = Written(t, at, n)
    PROVE      /\ RingType(u) /\ d \in Seq(Octets) /\ Kept(t) = Cat(d, Kept(u))
               /\ Frame(u) = Frame(t) /\ u.body_size = t.body_size /\ u.state = t.state
               /\ \A a, size : Room(t, a, size) => Room(u, a, size)
<1>1. u = T!data_read(t, n)  OBVIOUS
<1>2. d = [i \in 1 .. n |-> IF at < 0 THEN t.unparsed[i] ELSE t.buffer[at + i - 1]]  BY DEF Written
<1>3. DOMAIN t = BufferFields  BY DEF RingType
<1>4. /\ DOMAIN u = BufferFields /\ u.buffer = t.buffer /\ u.body_size = t.body_size /\ u.state = t.state
      /\ u.current_chunk = t.current_chunk /\ u.chunked_state = t.chunked_state /\ u.error = t.error
      BY <1>1, <1>3 DEF T!data_read, BufferFields
<1>5. Frame(u) = Frame(t)  BY <1>4 DEF Frame
<1>6. CASE t.unparsed # <<>>
  <2>1. PICK x \in Seq(Octets) : x = t.unparsed  BY DEF RingType
  <2>2. /\ u.unparsed = SubSeq(x, n + 1, Len(x)) /\ u.start = t.start /\ u.end = t.end
        BY <1>1, <1>3, <1>6, <2>1 DEF T!data_read, BufferFields
  <2>3. PICK c, y : c = SubSeq(x, 1, n) /\ y = SubSeq(x, n + 1, Len(x))  OBVIOUS
  <2>4. n \in 0 .. Len(x)  BY <1>6, <2>1
  <2>5. c \in Seq(Octets) /\ y \in Seq(Octets) /\ Len(c) = n /\ c \o y = x  BY <2>3, <2>4, Pieces
  <2>6. d = c
    <3>1. d = [i \in 1 .. n |-> x[i]]  BY <1>2, <1>6, <2>1
    <3>2. c = [i \in 1 .. n |-> c[i]] /\ \A i \in 1 .. n : c[i] = x[i]
      <4>1. ASSUME NEW i \in 1 .. n PROVE c[i] = x[i]  BY <2>3, <2>4
      <4> QED  BY <2>5, <4>1
    <3> QED  BY <3>1, <3>2
  <2>7. Filled(u) = Filled(t) /\ (\A k : Place(u, k) = Place(t, k)) /\ Content(u) = Content(t)
        BY <1>4, <2>2 DEF Filled, Place, Content
  <2>8. RingType(u)  BY <1>4, <2>2, <2>3, <2>5, <2>7 DEF RingType
  <2>9. Kept(t) = Cat(d, Kept(u))
    <3>1. PICK e \in Seq(Octets) : e = Content(t)  BY KeptType
    <3>0. c \in Seq(Octets) /\ y \in Seq(Octets)  BY <2>5
    <3>2. Cat(Cat(c, y), e) = Cat(c, Cat(y, e))  BY <3>0, <3>1, CatAssociative
    <3> QED  BY <2>1, <2>2, <2>3, <2>5, <2>6, <2>7, <3>1, <3>2 DEF Kept, Cat
  <2>10. \A a, size : Room(t, a, size) => Room(u, a, size)  BY <2>2 DEF Room, From
  <2> QED  BY <1>1, <1>2, <1>4, <1>5, <2>5, <2>6, <2>8, <2>9, <2>10
<1>7. CASE t.unparsed = <<>>
  <2>1. PICK e : e = [i \in 1 .. n |-> t.buffer[t.start + i - 1]]  OBVIOUS
  <2>2. /\ RingType(u) /\ u.unparsed = <<>> /\ Content(t) = e \o Content(u)
        /\ \A a, size : Room(t, a, size) => Room(u, a, size)
        BY <1>1, <1>7, <2>1, RingDrop
  <2>3. t.start \in Nat  BY DEF RingType
  <2>4. d = e  BY <1>2, <1>7, <2>1, <2>3
  <2>5. e \in Seq(Octets)
    <3>1. PICK f \in Nat : f = Filled(t) /\ n <= f /\ \A k \in 1 .. n : Place(t, k) = t.start + k - 1
      <4>0. Size \in Nat /\ Size # 0  OBVIOUS
      <4>1. PICK s \in 0 .. Size - 1, z \in 0 .. Size : s = t.start /\ z = t.end  BY DEF RingType
      <4>2. n <= (IF s > z THEN Size ELSE z) - s  BY <1>7, <4>1 DEF Contiguous
      <4>3. n <= (IF s > z THEN Size - s + z ELSE z - s) /\ \A k \in 1 .. n : s + k - 1 < Size
            BY <4>0, <4>2
      <4>4. Filled(t) \in Nat  BY ContentType
      <4> QED  BY <4>1, <4>3, <4>4 DEF Filled, Place
    <3>2. ASSUME NEW k \in 1 .. n PROVE t.buffer[t.start + k - 1] \in Octets
      <4>1. k \in 1 .. f  BY <3>1
      <4> QED  BY <3>1, <4>1 DEF RingType
    <3>3. e \in [1 .. n -> Octets]  BY <2>1, <3>2
    <3> QED  BY <3>3
  <2>6. Kept(t) = Cat(d, Kept(u))
    <3>1. Content(t) \in Seq(Octets) /\ Content(u) \in Seq(Octets)  BY <2>2, ContentType
    <3>2. \A c \in Seq(Octets) : <<>> \o c = c  OBVIOUS
    <3>3. Kept(t) = Content(t) /\ Kept(u) = Content(u)  BY <1>7, <2>2, <3>1, <3>2 DEF Kept
    <3> QED  BY <2>2, <2>4, <3>3 DEF Cat
  <2> QED  BY <1>1, <1>2, <1>4, <1>5, <2>2, <2>4, <2>5, <2>6
<1> QED  BY <1>6, <1>7

LEMMA Regroup ==
    ASSUME NEW a \in Seq(Octets), NEW b \in Seq(Octets), NEW c \in Seq(Octets), NEW d \in Seq(Octets)
    PROVE  /\ Cat(Cat(a, Cat(b, c)), d) = Cat(Cat(a, b), Cat(c, d))
           /\ Cat(Cat(a, b), Cat(c, d)) = Cat(a, Cat(Cat(b, c), d))
<1>1. ASSUME NEW x \in Seq(Octets), NEW y \in Seq(Octets) PROVE Cat(x, y) \in Seq(Octets)
      BY Beginning DEF Cat
<1> QED  BY <1>1, CatAssociative

(* handle_read_from_orgin() with a part of the body. *)
LEMMA BodyRead ==
    ASSUME NEW p, p.listed, NEW o \in Seq(Octets), Flowing(p, o), p.reading # <<>>,
           NEW n \in Nat, 1 <= n, n <= p.reading[3], n <= Len(o),
           NEW q, q.reading = <<>>, q.writing = p.writing, q.header = p.header, q.exists = p.exists,
           q.sending = p.sending, q.answer = p.answer, q.got = p.got,
           q.buffer = T!data_written(p.buffer, p.reading[2], SubSeq(o, 1, n))
    PROVE  Flowing(q, SubSeq(o, n + 1, Len(o))) /\ q.exists /\ Kept(q.buffer) # <<>>
<1>1. PICK t, u, d, rest : /\ t = p.buffer /\ u = q.buffer
                           /\ d = SubSeq(o, 1, n) /\ rest = SubSeq(o, n + 1, Len(o))
      OBVIOUS
<1>2. PICK at, size : at = p.reading[2] /\ size = p.reading[3]  OBVIOUS
<1>3. /\ RingType(t) /\ p.exists /\ Expected(t, o) /\ Room(t, at, size)
      /\ t.state = "size_given" => size <= t.body_size
      BY <1>1, <1>2 DEF Flowing, ReadFits
<1>4. n \in 0 .. Len(o)  OBVIOUS
<1>5. d \in Seq(Octets) /\ rest \in Seq(Octets) /\ Len(d) = n /\ d \o rest = o
      BY <1>1, <1>4, Pieces
<1>6. u = T!data_written(t, at, SubSeq(o, 1, n))  BY <1>1, <1>2
<1>7. n <= size  BY <1>2
<1>8. /\ RingType(u) /\ Content(u) = Content(t) \o d /\ Expected(u, rest)
      /\ u.unparsed = t.unparsed /\ u.start = t.start /\ Contiguous(t) <= Contiguous(u)
      BY <1>1, <1>3, <1>6, <1>7, DataWritten, SMTT(30)
<1>9. PICK x, c, a : x = Shown(p) /\ c = Content(t) /\ a = t.unparsed  OBVIOUS
<1>10. /\ x \in Seq(Octets) /\ c \in Seq(Octets) /\ a \in Seq(Octets)
       /\ x \o ((a \o c) \o o) = p.answer.forward
       BY <1>1, <1>3, <1>9, KeptType DEF Flowing, Kept
<1>11. Kept(u) = a \o (c \o d)  BY <1>8, <1>9 DEF Kept
<1>12. Kept(u) \o rest = (a \o c) \o o
  <2>0. a \in Seq(Octets) /\ c \in Seq(Octets) /\ d \in Seq(Octets) /\ rest \in Seq(Octets)
        BY <1>5, <1>10
  <2>1. Cat(Cat(a, Cat(c, d)), rest) = Cat(Cat(a, c), Cat(d, rest))  BY <2>0, Regroup
  <2> QED  BY <1>5, <1>11, <2>1 DEF Cat
<1>13. HeaderPending(q) <=> HeaderPending(p)  BY DEF HeaderPending
<1>14. Shown(q) = x  BY <1>9, <1>13 DEF Shown
<1>15. WriteFits(q)
  <2>1. Contiguous(t) \in Nat /\ Contiguous(u) \in Nat  BY <1>3, <1>8, ReadData
  <2>2. CASE p.writing # <<>> /\ ~HeaderPending(p)
    <3>1. PICK w \in Nat : w = p.writing[3]  BY <2>2 DEF Flowing, WriteFits
    <3>2. IF a # <<>> THEN p.writing[2] = -1 /\ w <= Len(a) ELSE p.writing[2] = t.start /\ w <= Contiguous(t)
          BY <1>1, <1>9, <2>2, <3>1 DEF Flowing, WriteFits
    <3>3. w <= Contiguous(t) => w <= Contiguous(u)  BY <1>8, <2>1
    <3> QED  BY <1>1, <1>3, <1>8, <1>9, <3>1, <3>2, <3>3 DEF WriteFits
  <2>3. CASE ~(p.writing # <<>> /\ ~HeaderPending(p))  BY <1>13, <2>3 DEF WriteFits
  <2> QED  BY <2>2, <2>3
<1>16. ReadFits(q)  BY DEF ReadFits
<1>17. Flowing(q, rest)
  <2>1. RingType(q.buffer) /\ Expected(q.buffer, rest) /\ q.exists  BY <1>1, <1>3, <1>8
  <2>2. q.sending /\ (HeaderPending(q) => q.got = <<>>)  BY <1>13 DEF Flowing
  <2>3. Shown(q) \in Seq(Octets) /\ Shown(q) \o (Kept(q.buffer) \o rest) = q.answer.forward
        BY <1>1, <1>10, <1>12, <1>14
  <2> QED  BY <1>15, <1>16, <2>1, <2>2, <2>3 DEF Flowing
<1>18. Kept(u) # <<>>
  <2>0. a \in Seq(Octets) /\ c \in Seq(Octets) /\ d \in Seq(Octets)  BY <1>5, <1>10
  <2>1. c \o d \in Seq(Octets) /\ Len(c \o d) = Len(c) + Len(d) /\ Len(c) \in Nat
        BY <2>0, Beginning
  <2>2. Len(a \o (c \o d)) = Len(a) + Len(c \o d) /\ Len(a) \in Nat  BY <2>0, <2>1, Beginning
  <2>3. Len(a \o (c \o d)) # 0  BY <1>5, <2>1, <2>2
  <2>4. Len(<<>>) = 0  OBVIOUS
  <2> QED  BY <1>11, <2>3, <2>4
<1> QED  BY <1>1, <1>3, <1>17, <1>18

(* handle_body_written() *)
LEMMA BodyGone ==
    ASSUME NEW p, NEW o \in Seq(Octets), Flowing(p, o), p.writing # <<>>, ~HeaderPending(p),
           NEW n \in Nat, 1 <= n, n <= p.writing[3],
           NEW q, q.reading = p.reading, q.writing = <<>>, q.header = p.header, q.exists = p.exists,
           q.sending = p.sending, q.answer = p.answer,
           q.buffer = T!data_read(p.buffer, n),
           q.got = p.got \o Written(p.buffer, p.writing[2], n)
    PROVE  Flowing(q, o) /\ q.exists
<1>1. PICK t, u, at : t = p.buffer /\ u = q.buffer /\ at = p.writing[2]  OBVIOUS
<1>2. PICK d : d = Written(t, at, n)  OBVIOUS
<1>3. RingType(t) /\ p.exists /\ Expected(t, o)  BY <1>1 DEF Flowing, WriteFits
<1>4. IF t.unparsed # <<>> THEN at = -1 /\ n <= Len(t.unparsed) ELSE at = t.start /\ n <= Contiguous(t)
  <2>1. PICK w \in Nat : w = p.writing[3] /\ n <= w  BY DEF Flowing, WriteFits
  <2>2. IF t.unparsed # <<>> THEN at = -1 /\ w <= Len(t.unparsed) ELSE at = t.start /\ w <= Contiguous(t)
        BY <1>1, <2>1 DEF Flowing, WriteFits
  <2>3. Len(t.unparsed) \in Nat /\ Contiguous(t) \in Nat  BY <1>3, ReadData, KeptType
  <2> QED  BY <2>1, <2>2, <2>3
<1>5. u = T!data_read(t, n) /\ q.got = p.got \o d  BY <1>1, <1>2
<1>6. /\ RingType(u) /\ d \in Seq(Octets) /\ Kept(t) = Cat(d, Kept(u))
      /\ Frame(u) = Frame(t) /\ u.body_size = t.body_size /\ u.state = t.state
      /\ \A a, size : Room(t, a, size) => Room(u, a, size)
  <2>1. n >= 1  OBVIOUS
  <2>2. RingType(t) /\ u = T!data_read(t, n) /\ d = Written(t, at, n)  BY <1>2, <1>3, <1>5
  <2>3. Kept(t) = Cat(d, Kept(u))  BY <1>4, <2>1, <2>2, DropKept
  <2>4. RingType(u) /\ d \in Seq(Octets)  BY <1>4, <2>1, <2>2, DropKept
  <2>5. Frame(u) = Frame(t) /\ u.body_size = t.body_size /\ u.state = t.state
        BY <1>4, <2>1, <2>2, DropKept
  <2>6. \A a, size : Room(t, a, size) => Room(u, a, size)  BY <1>4, <2>1, <2>2, DropKept
  <2> QED  BY <2>3, <2>4, <2>5, <2>6
<1>7. Expected(u, o)
  <2>1. DOMAIN t = BufferFields /\ DOMAIN u = BufferFields  BY <1>3, <1>6 DEF RingType
  <2> QED  BY <1>3, <1>6, <2>1, SameExpected
<1>8. ~HeaderPending(q) /\ Shown(q) = q.got /\ Shown(p) = p.got  BY DEF HeaderPending, Shown
<1>9. PICK x, k : x = p.got /\ k = Kept(u)  OBVIOUS
<1>10. x \in Seq(Octets) /\ k \in Seq(Octets) /\ x \o (Cat(d, k) \o o) = p.answer.forward
       BY <1>1, <1>6, <1>8, <1>9, KeptType DEF Flowing
<1>11. x \o d \in Seq(Octets) /\ (x \o d) \o (k \o o) = x \o (Cat(d, k) \o o)
  <2>0. x \in Seq(Octets) /\ d \in Seq(Octets) /\ k \in Seq(Octets)  BY <1>6, <1>10
  <2>1. Cat(Cat(x, d), Cat(k, o)) = Cat(x, Cat(Cat(d, k), o))  BY <2>0, Regroup
  <2>2. x \o d \in Seq(Octets)  BY <2>0, Beginning
  <2> QED  BY <2>1, <2>2 DEF Cat
<1>12. ReadFits(q)  BY <1>1, <1>6 DEF Flowing, ReadFits
<1>13. WriteFits(q)  BY DEF WriteFits
<1>14. Shown(q) \in Seq(Octets) /\ Shown(q) \o (Kept(q.buffer) \o o) = q.answer.forward
       BY <1>1, <1>5, <1>8, <1>9, <1>10, <1>11
<1>15. q.sending  BY DEF Flowing
<1> QED  BY <1>1, <1>3, <1>6, <1>7, <1>8, <1>12, <1>13, <1>14, <1>15 DEF Flowing

(* response_header_written() *)
LEMMA HeaderGone ==
    ASSUME NEW p, NEW o \in Seq(Octets), Flowing(p, o), HeaderPending(p),
           NEW q, q.reading = p.reading, q.writing = <<>>, q.header = p.header, q.exists = p.exists,
           q.sending = p.sending, q.answer = p.answer, q.buffer = p.buffer,
           q.got = p.got \o filtered_header(p.header)
    PROVE  Flowing(q, o)
<1>1. PICK x : x = filtered_header(p.header)  OBVIOUS
<1>2. x \in Seq(Octets) /\ p.got = <<>> /\ x \o (Kept(p.buffer) \o o) = p.answer.forward
      BY <1>1 DEF Flowing, Shown
<1>3. q.got = x
  <2>1. <<>> \o x = x  BY <1>2
  <2> QED  BY <1>1, <1>2, <2>1
<1>4. ~HeaderPending(q) /\ Shown(q) = x  BY <1>3 DEF HeaderPending, Shown
<1>5. ReadFits(q)  BY DEF Flowing, ReadFits
<1>6. WriteFits(q)  BY DEF WriteFits
<1>7. RingType(q.buffer) /\ (IF q.exists THEN Expected(q.buffer, o) ELSE o = <<>> /\ Kept(q.buffer) = <<>>) /\ q.sending
      BY DEF Flowing
<1> QED  BY <1>2, <1>4, <1>5, <1>6, <1>7 DEF Flowing

-----------------------------------------------------------------------------
(* Every response is at a place of its stream. *)

(* Nothing was received for the request. *)
Untouched(p) ==
    /\ p.header = H!NewMessage("response") /\ p.buffer = T!NewBuffer
    /\ p.got = <<>> /\ ~p.sending /\ ~p.exists

Fresh(p) == p.listed /\ Untouched(p)

(* The header is read; it is what it would be if it had come in one piece. *)
Receiving(p, o) ==
    /\ p.got = <<>> /\ ~p.sending /\ ~p.exists /\ p.writing = <<>> /\ p.buffer = T!NewBuffer
    /\ p.reading # <<>> /\ p.reading[1] = "header" /\ p.reading[3] = H!read_buffer(p.header)
    /\ p.header.error = "parsing" /\ Parsing(p.header) /\ Len(p.header.buffer) < BufferSize
    /\ \/ p.header = H!NewMessage("response")
       \/ p.header = H!parse(H!NewMessage("response"), p.header.buffer)
    /\ Cat(p.header.buffer, o) = p.answer.chars

Quiet(p) == p.reading = <<>> /\ p.writing = <<>>

(* Where a response is that has a connection and may write to its client. *)
Flows(p, o) ==
    \/ Fresh(p) /\ Quiet(p) /\ p.requesting
    \/ Receiving(p, o) /\ ~p.requesting
    \/ Flowing(p, o) /\ ~Quiet(p) /\ ~p.requesting

(* What the client has got. *)
Got(p) ==
    p.answer # None =>
        /\ IsPrefix(p.got, p.answer.forward)
        /\ p.outcome = "completed" => p.got = p.answer.forward
        /\ p.outcome = "error" => p.got = <<>>

(* A response that is not listed any more may wait for what it has asked   *)
(* for.  If that is a write, then the read has failed, so the body is not  *)
(* complete.                                                               *)
GivenUp(p) ==
    /\ BodyOnly(p)
    /\ p.writing # <<>> => p.reading = <<>> /\ p.exists /\ p.buffer.state # "done"

(* o is what the origin has still to send. *)
Stream(r, p, o) ==
    /\ Got(p) /\ p.answer \in Answers[r] \cup {None}
    /\ p.pc = "new" => Untouched(p) /\ p.answer = None /\ p.outcome = "none"
    /\ p.pc = "restarting" => Fresh(p) /\ p.outcome = "none"
    /\ p.pc = "active" =>
          /\ p.requesting \/ p.restarts < MaxRestarts \/ p.socket = None => Fresh(p)
          /\ IF p.listed THEN p.outcome = "none" ELSE p.outcome \in {"error", "closed"} /\ GivenUp(p)
          /\ ~p.requesting /\ p.socket # None => p.answer \in Answers[r]
          /\ p.listed /\ p.socket # None => Flows(p, o)

Left(p) == IF p.socket = None THEN <<>> ELSE origin[p.socket]

AllStreams == \A r \in Responses : Stream(r, resp[r], Left(resp[r]))

OriginType == origin \in [Conns -> Seq(Octets)]

(* Only a connection that a response has may still have something to send. *)
OriginHeld == \A c \in Conns : origin[c] # <<>> => \E r \in Responses : resp[r].socket = c

SInv == AllStreams /\ OriginType /\ OriginHeld

LEMMA NewParsing ==
    LET m == H!NewMessage("response") IN Parsing(m) /\ m.buffer = <<>>
<1>1. PICK m : m = H!NewMessage("response")  OBVIOUS
<1>2. /\ DOMAIN m = MessageFields /\ m.buffer = <<>> /\ m.parse_ptr = 0 /\ m.read_ptr = 0
      /\ m.parser_state = "expect_request_line" /\ m = [f \in MessageFields |-> m[f]]
      BY <1>1 DEF H!NewMessage, MessageFields
<1>3. <<>> \in Seq(Octets) /\ Len(<<>>) = 0  OBVIOUS
<1>4. Parsing(m)  BY <1>2, <1>3 DEF Parsing, States
<1> QED  BY <1>1, <1>2, <1>4

LEMMA NewRing ==
    RingType(T!NewBuffer) /\ Kept(T!NewBuffer) = <<>>
<1>1. PICK t : t = T!NewBuffer  OBVIOUS
<1>2. /\ DOMAIN t = BufferFields /\ DOMAIN t.buffer = 0 .. Size - 1
      /\ t.unparsed = <<>> /\ t.start = 0 /\ t.end = 0
      BY <1>1 DEF T!NewBuffer, BufferFields
<1>3. <<>> \in Seq(Octets)  OBVIOUS
<1>4. RingType(t) /\ Content(t) = <<>>  BY <1>2, <1>3, EmptyRing
<1>5. <<>> \o <<>> = <<>>  OBVIOUS
<1> QED  BY <1>1, <1>2, <1>4, <1>5 DEF Kept

(* What a part of the header leaves as it is. *)
LEMMA HeaderKeeps ==
    ASSUME NEW p, DOMAIN p = Fields, NEW d
    PROVE  LET q == ReadHeader(p, d)
           IN  /\ DOMAIN q = Fields /\ q.got = p.got /\ q.answer = p.answer /\ q.socket = p.socket
               /\ q.restarts = p.restarts /\ q.requesting = p.requesting
               /\ p.listed => q.pc = p.pc
               /\ ~p.listed => q.listed = p.listed /\ q.outcome = p.outcome /\ q.pc \in {p.pc, "assertion"}
<1>1. PICK m : m = H!parse(p.header, d)  OBVIOUS
<1>2. PICK x : x = [p EXCEPT !.header = m]  OBVIOUS
<1>3. /\ DOMAIN x = Fields /\ x.got = p.got /\ x.answer = p.answer /\ x.socket = p.socket
      /\ x.restarts = p.restarts /\ x.requesting = p.requesting /\ x.pc = p.pc
      /\ x.listed = p.listed /\ x.outcome = p.outcome
      BY <1>2 DEF Fields
<1>4. PICK q : q = ReadHeader(p, d)  OBVIOUS
<1>5. CASE m.error = "parsing"
  <2>1. PICK size : size = H!read_buffer(m)  OBVIOUS
  <2>a. ReadHeader(p, d) = issue_read(x, "header", 0, H!read_buffer(m))
        BY <1>1, <1>2, <1>5 DEF ReadHeader
  <2>2. q = issue_read(x, "header", 0, size)  BY <1>4, <2>1, <2>a
  <2>3. Carried(x, q) /\ q.pc = x.pc  BY <1>3, <2>2 DEF issue_read, Carried, Fields
  <2> QED  BY <1>3, <1>4, <2>3 DEF Carried
<1>6. CASE m.error # "parsing" /\ m.error # "ok"
  <2>1. q = NotPossible(x, TRUE)  BY <1>1, <1>2, <1>4, <1>6 DEF ReadHeader
  <2>2. /\ DOMAIN q = Fields /\ q.got = p.got /\ q.answer = p.answer /\ q.socket = p.socket
        /\ q.restarts = p.restarts /\ q.requesting = p.requesting
        /\ p.listed => q.pc = p.pc
        /\ ~p.listed => q.listed = p.listed /\ q.outcome = p.outcome /\ q.pc \in {p.pc, "assertion"}
        BY <1>3, <2>1 DEF NotPossible, Fields
  <2> QED  BY <1>4, <2>2
<1>7. CASE m.error = "ok"
  <2>1. PICK e, l : e = H!body_expected(m, p.answer.method) /\ l = Len(filtered_header(m))  OBVIOUS
  <2>2. PICK b : b = T!start(encoding(m), content_length(m), H!unparsed_buffer(m))  OBVIOUS
  <2>3. PICK f : f = [[x EXCEPT !.writing = <<"header", 0, l>>, !.sending = TRUE] EXCEPT !.exists = e]
        OBVIOUS
  <2>4. /\ DOMAIN f = Fields /\ f.got = p.got /\ f.answer = p.answer /\ f.socket = p.socket
        /\ f.restarts = p.restarts /\ f.requesting = p.requesting /\ f.pc = p.pc
        /\ f.listed = p.listed /\ f.outcome = p.outcome /\ f.exists = e
        BY <1>3, <2>3 DEF Fields
  <2>5. PICK g : g = [f EXCEPT !.buffer = b]  OBVIOUS
  <2>6. /\ DOMAIN g = Fields /\ g.got = p.got /\ g.answer = p.answer /\ g.socket = p.socket
        /\ g.restarts = p.restarts /\ g.requesting = p.requesting /\ g.pc = p.pc
        /\ g.listed = p.listed /\ g.outcome = p.outcome
        BY <2>4, <2>5 DEF Fields
  <2>7. x.header = m /\ x.answer = p.answer  BY <1>2 DEF Fields
  <2>8. f = [forward_header(x) EXCEPT !.exists = H!body_expected(m, p.answer.method)]
        BY <2>1, <2>3, <2>7 DEF forward_header
  <2>9. q = IF f.exists THEN Transfer(g) ELSE f
        BY <1>1, <1>2, <1>4, <1>7, <2>2, <2>5, <2>8 DEF ReadHeader
  <2>10. CASE ~f.exists  BY <1>4, <2>4, <2>9, <2>10
  <2>11. CASE f.exists
    <3>1. Carried(g, q) /\ q.pc \in {g.pc, "assertion"} /\ (g.listed => q.pc = g.pc)
          BY <2>6, <2>9, <2>11, TransferCarries
    <3> QED  BY <1>4, <2>6, <3>1 DEF Carried
  <2> QED  BY <2>10, <2>11
<1> QED  BY <1>5, <1>6, <1>7

LEMMA CatParts ==
    ASSUME NEW b \in Seq(Octets), NEW d \in Seq(Octets)
    PROVE  LET c == Cat(b, d)
           IN  /\ c \in Seq(Octets) /\ Len(c) = Len(b) + Len(d) /\ Len(b) \in Nat /\ Len(d) \in Nat
               /\ SubSeq(c, 1, Len(b)) = b /\ SubSeq(c, Len(b) + 1, Len(c)) = d
               /\ c = <<>> => b = <<>> /\ d = <<>>
<1>1. PICK c : c = b \o d  OBVIOUS
<1>2. c \in Seq(Octets) /\ Len(c) = Len(b) + Len(d)  BY <1>1, Beginning
<1>3. SubSeq(c, 1, Len(b)) = b /\ SubSeq(c, Len(b) + 1, Len(c)) = d  BY <1>1, Parts
<1>4. Len(b) \in Nat /\ Len(d) \in Nat  OBVIOUS
<1>5. ASSUME c = <<>> PROVE b = <<>> /\ d = <<>>
  <2>1. Len(c) = 0  BY <1>5
  <2>0. PICK i \in Nat, j \in Nat : i = Len(b) /\ j = Len(d)  BY <1>4
  <2>a. i + j = 0  BY <1>2, <2>0, <2>1
  <2>2. i = 0 /\ j = 0  BY <2>a
  <2>3. Len(b) = 0 /\ Len(d) = 0  BY <2>0, <2>2
  <2> QED  BY <2>3
<1> QED  BY <1>1, <1>2, <1>3, <1>4, <1>5 DEF Cat

(* Of the characters of an answer k have been received, x, n of them last. *)
Received(chars, x, k, d, rest, n) ==
    /\ d \in Seq(Octets) /\ rest \in Seq(Octets) /\ x \in Seq(Octets)
    /\ k \in 0 .. Len(chars) /\ Len(x) = k /\ Len(d) = n
    /\ SubSeq(chars, 1, k) = x /\ SubSeq(chars, k + 1, Len(chars)) = rest
    /\ Cat(x, rest) = chars

LEMMA ReceivedParts ==
    ASSUME NEW b \in Seq(Octets), NEW o \in Seq(Octets), NEW chars, Cat(b, o) = chars,
           NEW n \in 0 .. Len(o)
    PROVE  LET d == SubSeq(o, 1, n)
           IN  Received(chars, Cat(b, d), Len(b) + n, d, SubSeq(o, n + 1, Len(o)), n)
<1>1. PICK d, rest : d = SubSeq(o, 1, n) /\ rest = SubSeq(o, n + 1, Len(o))  OBVIOUS
<1>2. d \in Seq(Octets) /\ rest \in Seq(Octets) /\ Len(d) = n /\ Cat(d, rest) = o
      BY <1>1, Pieces DEF Cat
<1>3. PICK x : x = Cat(b, d)  OBVIOUS
<1>4. x \in Seq(Octets) /\ Len(x) = Len(b) + n /\ Len(b) \in Nat  BY <1>2, <1>3, CatParts
<1>5. Cat(x, rest) = chars  BY <1>2, <1>3, CatAssociative
<1>6. /\ SubSeq(chars, 1, Len(x)) = x /\ SubSeq(chars, Len(x) + 1, Len(chars)) = rest
      /\ Len(chars) = Len(x) + Len(rest)
  <2>1. PICK c : c = Cat(x, rest)  OBVIOUS
  <2>2. /\ SubSeq(c, 1, Len(x)) = x /\ SubSeq(c, Len(x) + 1, Len(c)) = rest
        /\ Len(c) = Len(x) + Len(rest)
        BY <1>2, <1>4, <2>1, CatParts
  <2> QED  BY <1>5, <2>1, <2>2
<1>7. Len(x) \in 0 .. Len(chars)
  <2>1. Len(rest) \in Nat /\ Len(x) \in Nat  BY <1>2, <1>4
  <2> QED  BY <1>6, <2>1
<1> QED  BY <1>1, <1>2, <1>3, <1>4, <1>5, <1>6, <1>7 DEF Received

(* handle_read_from_orgin() with a part of the header: it is understood as *)
(* if it had come in one piece, and what follows it is the body.           *)
LEMMA HeaderRead ==
    ASSUME NEW r \in Responses, NEW s, s.answer \in Answers[r], NEW o \in Seq(Octets), Receiving(s, o),
           NEW n \in Nat, 1 <= n, n <= s.reading[3], n <= Len(o),
           NEW p, DOMAIN p = Fields, p.listed, p.reading = <<>>, p.writing = s.writing,
           p.header = s.header, p.exists = s.exists, p.buffer = s.buffer, p.sending = s.sending,
           p.answer = s.answer, p.got = s.got
    PROVE  LET q    == ReadHeader(p, SubSeq(o, 1, n))
               rest == SubSeq(o, n + 1, Len(o))
           IN  IF q.listed THEN q.outcome = p.outcome /\ (Receiving(q, rest) \/ (Flowing(q, rest) /\ ~Quiet(q)))
               ELSE q.outcome = "error" /\ Quiet(q)
<1>1. PICK d, rest, b, a : /\ d = SubSeq(o, 1, n) /\ rest = SubSeq(o, n + 1, Len(o))
                           /\ b = p.header.buffer /\ a = p.answer
      OBVIOUS
<1>2. PICK m : m = H!parse(p.header, d)  OBVIOUS
<1>3. PICK k : k = Len(b) + n  OBVIOUS
<1>4. Parsing(p.header) /\ p.header.error = "parsing" /\ b \in Seq(Octets) /\ Len(b) < BufferSize
      BY <1>1 DEF Receiving, Parsing
<1>5. n \in 0 .. Len(o) /\ Cat(b, o) = a.chars  BY <1>1 DEF Receiving
<1>6. /\ d \in Seq(Octets) /\ rest \in Seq(Octets) /\ Cat(b, d) \in Seq(Octets)
      /\ k \in 0 .. Len(a.chars) /\ Len(Cat(b, d)) = k /\ Len(d) = n
      /\ SubSeq(a.chars, 1, k) = Cat(b, d) /\ SubSeq(a.chars, k + 1, Len(a.chars)) = rest
      /\ Cat(Cat(b, d), rest) = a.chars
  <2>1. PICK chars : chars = a.chars  OBVIOUS
  <2>2. b \in Seq(Octets) /\ Cat(b, o) = chars /\ n \in 0 .. Len(o)  BY <1>4, <1>5, <2>1
  <2>3. Received(chars, Cat(b, SubSeq(o, 1, n)), Len(b) + n, SubSeq(o, 1, n), SubSeq(o, n + 1, Len(o)), n)
        BY <2>2, ReceivedParts, Zenon
  <2>4. Received(a.chars, Cat(b, d), k, d, rest, n)  BY <1>1, <1>3, <2>1, <2>3, Zenon
  <2> QED  BY <2>4 DEF Received
<1>7. k <= BufferSize /\ Len(b) \in Nat
  <2>1. n <= BufferSize - Len(b)  BY <1>1 DEF Receiving, H!read_buffer
  <2>2. Len(b) \in Nat /\ BufferSize \in Nat  BY <1>4
  <2> QED  BY <1>3, <2>1, <2>2
<1>8. PICK new : new = H!NewMessage("response")  OBVIOUS
<1>9. Parsing(new) /\ new.buffer = <<>>  BY <1>8, NewParsing
<1>10. /\ Parsing(m) /\ m.buffer = Cat(b, d)
       /\ m.error = "parsing" => k # BufferSize
  <2>1. Parsing(m) /\ m.buffer = b \o d /\ (m.error = "parsing" => Len(b \o d) # BufferSize)
        BY <1>1, <1>2, <1>4, <1>6, Parsed
  <2> QED  BY <1>6, <2>1 DEF Cat
<1>11. m = H!parse(new, Cat(b, d))
  <2>1. CASE p.header = new
    <3>1. b = <<>>  BY <1>1, <1>9, <2>1
    <3>2. \A y \in Seq(Octets) : <<>> \o y = y  OBVIOUS
    <3>3. Cat(b, d) = d  BY <1>6, <3>1, <3>2 DEF Cat
    <3> QED  BY <1>2, <2>1, <3>3
  <2>2. CASE p.header = H!parse(new, b)
    <3>1. H!parse(new, b).error # "buffer_full"  BY <1>4, <2>2
    <3>2. H!parse(H!parse(new, b), d) = H!parse(new, b \o d)
          BY <1>4, <1>6, <1>9, <3>1, HeaderInPieces
    <3> QED  BY <1>2, <2>2, <3>2 DEF Cat
  <2> QED  BY <1>1, <1>8, <2>1, <2>2 DEF Receiving
<1>12. PICK x : x = [p EXCEPT !.header = m]  OBVIOUS
<1>13. /\ DOMAIN x = Fields /\ x.header = m /\ x.reading = <<>> /\ x.writing = <<>> /\ x.listed
       /\ x.exists = FALSE \/ ~x.exists
       /\ x.buffer = T!NewBuffer /\ ~x.sending /\ x.answer = a /\ x.got = <<>> /\ x.outcome = p.outcome
       BY <1>1, <1>12 DEF Receiving, Fields
<1>14. PICK q : q = ReadHeader(p, d)  OBVIOUS
<1>15. CASE m.error = "parsing"
  <2>1. PICK size : size = H!read_buffer(m)  OBVIOUS
  <2>2. size # 0 /\ k < BufferSize /\ k \in Nat
    <3>1. size = BufferSize - k  BY <1>6, <1>10, <2>1 DEF H!read_buffer
    <3>2. k \in Nat /\ k # BufferSize  BY <1>3, <1>7, <1>10, <1>15
    <3> QED  BY <1>7, <3>1, <3>2
  <2>3. q = issue_read(x, "header", 0, size)
    <3>1. ReadHeader(p, d) = issue_read(x, "header", 0, H!read_buffer(m))
          BY <1>2, <1>12, <1>15 DEF ReadHeader
    <3> QED  BY <1>14, <2>1, <3>1
  <2>4. /\ Carried(x, q) /\ q.writing = <<>> /\ ~q.sending /\ q.reading = <<"header", 0, size>>
        BY <1>13, <2>2, <2>3 DEF issue_read, Carried, Fields
  <2>5. /\ q.header = m /\ ~q.exists /\ q.buffer = T!NewBuffer /\ q.answer = a /\ q.got = <<>>
        /\ q.listed /\ q.outcome = p.outcome
        BY <1>13, <2>4 DEF Carried
  <2>6. q.reading # <<>> /\ q.reading[1] = "header" /\ q.reading[3] = size  BY <2>4
  <2>7. Receiving(q, rest)
    <3>1. Len(q.header.buffer) < BufferSize  BY <1>6, <1>10, <2>2, <2>5
    <3>2. Cat(q.header.buffer, rest) = q.answer.chars  BY <1>6, <1>10, <2>5
    <3>3. q.header = H!parse(H!NewMessage("response"), q.header.buffer)  BY <1>8, <1>10, <1>11, <2>5
    <3>4. Parsing(q.header) /\ q.header.error = "parsing"  BY <1>10, <1>15, <2>5
    <3>5. q.reading[3] = H!read_buffer(q.header)  BY <2>1, <2>5, <2>6
    <3> QED  BY <2>4, <2>5, <2>6, <3>1, <3>2, <3>3, <3>4, <3>5 DEF Receiving
  <2> QED  BY <1>1, <1>14, <2>5, <2>7
<1>16. CASE m.error # "parsing" /\ m.error # "ok"
  <2>1. q = NotPossible(x, TRUE)  BY <1>2, <1>12, <1>14, <1>16 DEF ReadHeader
  <2>2. ~q.listed /\ q.outcome = "error" /\ q.reading = <<>> /\ q.writing = <<>>
        BY <1>13, <2>1 DEF NotPossible, Fields
  <2> QED  BY <1>1, <1>14, <2>2 DEF Quiet
<1>17. CASE m.error = "ok"
  <2>1. PICK e : e = H!body_expected(m, a.method)  OBVIOUS
  <2>2. PICK t : t = T!start(encoding(m), content_length(m), H!unparsed_buffer(m))  OBVIOUS
  <2>3. PICK u, h : u = H!unparsed_buffer(m) /\ h = filtered_header(m)  OBVIOUS
  <2>4. PICK f : f = [[x EXCEPT !.writing = <<"header", 0, Len(h)>>, !.sending = TRUE] EXCEPT !.exists = e]
        OBVIOUS
  <2>5. PICK g : g = [f EXCEPT !.buffer = t]  OBVIOUS
  <2>6. f = [forward_header(x) EXCEPT !.exists = H!body_expected(m, p.answer.method)]
        BY <1>1, <1>13, <2>1, <2>3, <2>4 DEF forward_header
  <2>7. q = IF f.exists THEN Transfer(g) ELSE f
        BY <1>2, <1>12, <1>14, <1>17, <2>2, <2>5, <2>6 DEF ReadHeader
  <2>8. /\ DOMAIN f = Fields /\ f.header = m /\ f.reading = <<>> /\ f.writing = <<"header", 0, Len(h)>>
        /\ f.listed /\ f.exists = e /\ f.buffer = T!NewBuffer /\ f.sending = TRUE
        /\ f.answer = a /\ f.got = <<>> /\ f.outcome = p.outcome
        BY <1>13, <2>4 DEF Fields
  <2>9. /\ DOMAIN g = Fields /\ g.header = m /\ g.reading = <<>> /\ g.writing = <<"header", 0, Len(h)>>
        /\ g.listed /\ g.exists = e /\ g.buffer = t /\ g.sending = TRUE
        /\ g.answer = a /\ g.got = <<>> /\ g.outcome = p.outcome
        BY <2>5, <2>8 DEF Fields
  <2>10. PICK body : body = u \o rest  OBVIOUS
  <2>11. /\ Announced(m, a.method, body) /\ a.forward \in Seq(Octets)
         /\ \E j \in 0 .. Len(a.forward) : /\ h = SubSeq(a.forward, 1, j)
                                           /\ body = SubSeq(a.forward, j + 1, Len(a.forward))
    <3>1. a.forward \in Seq(Octets) /\ WellFormed(a, k)  BY <1>1, <1>6, <1>7, AnswersAssumption
    <3>2. m = H!parse(H!NewMessage("response"), SubSeq(a.chars, 1, k))  BY <1>6, <1>8, <1>11
    <3>3. body = H!unparsed_buffer(m) \o SubSeq(a.chars, k + 1, Len(a.chars))  BY <1>6, <2>3, <2>10
    <3> QED  BY <1>17, <2>3, <3>1, <3>2, <3>3 DEF WellFormed
  <2>12. u \in Seq(Octets)
    <3>1. PICK c \in Seq(Octets), i \in Nat, j \in Nat : c = m.buffer /\ i = m.parse_ptr /\ j = m.read_ptr
          BY <1>10 DEF Parsing
    <3>2. i \in 0 .. Len(c)  BY <1>10, <3>1 DEF Parsing
    <3>3. SubSeq(c, i + 1, Len(c)) \in Seq(Octets)  BY <3>2, Pieces
    <3> QED  BY <2>3, <3>1, <3>3 DEF H!unparsed_buffer
  <2>13. h \in Seq(Octets) /\ h \o body = a.forward
    <3>1. PICK j \in 0 .. Len(a.forward) : /\ h = SubSeq(a.forward, 1, j)
                                           /\ body = SubSeq(a.forward, j + 1, Len(a.forward))
          BY <2>11
    <3>2. PICK w \in Seq(Octets) : w = a.forward  BY <2>11
    <3> QED  BY <3>1, <3>2, Pieces
  <2>14. CASE f.exists
    <3>1. RingType(t) /\ t.unparsed = u /\ Content(t) = <<>> /\ Expected(t, rest)
      <4>1. PICK method : method = a.method  OBVIOUS
      <4>2. Announced(m, method, u \o rest)  BY <2>10, <2>11, <4>1
      <4>3. t = T!start(encoding(m), content_length(m), u)  BY <2>2, <2>3
      <4> QED  BY <1>6, <2>12, <4>2, <4>3, Started
    <3>2. Kept(t) = u
      <4>1. u \o <<>> = u  BY <2>12
      <4> QED  BY <3>1, <4>1 DEF Kept
    <3>3. g.writing[1] = "header" /\ g.writing # <<>>  BY <2>9
    <3>4. HeaderPending(g) /\ Shown(g) = h  BY <2>3, <2>9, <3>3 DEF HeaderPending, Shown
    <3>5. ReadFits(g) /\ WriteFits(g)  BY <2>9, <3>4 DEF ReadFits, WriteFits
    <3>6. Shown(g) \o (Kept(g.buffer) \o rest) = g.answer.forward /\ Shown(g) \in Seq(Octets)
          BY <2>9, <2>10, <2>13, <3>2, <3>4
    <3>7. g.exists /\ RingType(g.buffer) /\ Expected(g.buffer, rest) /\ g.sending /\ g.got = <<>>
          BY <2>8, <2>9, <2>14, <3>1
    <3>8. Flowing(g, rest)  BY <3>5, <3>6, <3>7 DEF Flowing
    <3>9. q = Transfer(g)  BY <2>7, <2>14
    <3>10. Flowing(q, rest)  BY <1>6, <2>9, <3>7, <3>8, <3>9, TransferFlows
    <3>11. q.writing = g.writing
      <4>1. g.writing # <<>> => q.writing = g.writing
            BY <2>9, <3>7, <3>9, TransferAsks
      <4> QED  BY <3>3, <4>1
    <3>12. Carried(g, q)  BY <2>9, <3>9, TransferCarries
    <3> QED  BY <1>1, <1>14, <2>9, <3>3, <3>10, <3>11, <3>12 DEF Carried, Quiet
  <2>15. CASE ~f.exists
    <3>1. u \o rest = <<>>  BY <2>1, <2>8, <2>10, <2>11, <2>15 DEF Announced
    <3>2. u = <<>> /\ rest = <<>>
      <4>1. Cat(u, rest) = <<>>  BY <3>1 DEF Cat
      <4> QED  BY <1>6, <2>12, <4>1, CatParts
    <3>3. f.writing[1] = "header" /\ f.writing # <<>>  BY <2>8
    <3>4. HeaderPending(f) /\ Shown(f) = h  BY <2>3, <2>8, <3>3 DEF HeaderPending, Shown
    <3>5. ReadFits(f) /\ WriteFits(f)  BY <2>8, <3>4 DEF ReadFits, WriteFits
    <3>6. RingType(f.buffer) /\ Kept(f.buffer) = <<>>  BY <2>8, NewRing
    <3>7. Shown(f) \o (Kept(f.buffer) \o rest) = f.answer.forward /\ Shown(f) \in Seq(Octets)
          BY <2>8, <2>10, <2>13, <3>2, <3>4, <3>6
    <3>8. Flowing(f, rest)  BY <2>8, <2>15, <3>2, <3>5, <3>6, <3>7 DEF Flowing
    <3>9. q = f  BY <2>7, <2>15
    <3> QED  BY <1>1, <1>14, <2>8, <3>3, <3>8, <3>9 DEF Quiet
  <2> QED  BY <2>14, <2>15
<1> QED  BY <1>15, <1>16, <1>17

LEMMA Beginnings ==
    ASSUME NEW f \in Seq(Octets)
    PROVE  /\ IsPrefix(<<>>, f) /\ IsPrefix(f, f)
           /\ \A x \in Seq(Octets), y \in Seq(Octets) : Cat(x, y) = f => IsPrefix(x, f)
<1>1. IsPrefix(f, f)
  <2>1. Len(f) \in Nat  OBVIOUS
  <2>2. Len(f) <= Len(f)  BY <2>1
  <2> QED  BY <2>2 DEF IsPrefix
<1>2. ASSUME NEW x \in Seq(Octets), NEW y \in Seq(Octets), Cat(x, y) = f PROVE IsPrefix(x, f)
  <2>1. SubSeq(f, 1, Len(x)) = x /\ Len(f) = Len(x) + Len(y) /\ Len(x) \in Nat /\ Len(y) \in Nat
        BY <1>2, CatParts
  <2>2. SubSeq(x, 1, Len(x)) = x  OBVIOUS
  <2>3. Len(x) <= Len(f)  BY <2>1
  <2> QED  BY <2>1, <2>2, <2>3 DEF IsPrefix
<1>3. IsPrefix(<<>>, f)
  <2>1. <<>> \in Seq(Octets)  OBVIOUS
  <2>2. <<>> \o f = f  OBVIOUS
  <2> QED  BY <1>2, <2>1, <2>2 DEF Cat
<1> QED  BY <1>1, <1>2, <1>3

LEMMA FlowingGot ==
    ASSUME NEW p, NEW o \in Seq(Octets), Flowing(p, o), p.answer.forward \in Seq(Octets)
    PROVE  /\ IsPrefix(p.got, p.answer.forward)
           /\ ~HeaderPending(p) /\ Kept(p.buffer) = <<>> /\ o = <<>> => p.got = p.answer.forward
<1>1. PICK f, x, k : f = p.answer.forward /\ x = p.got /\ k = Kept(p.buffer)  OBVIOUS
<1>2. f \in Seq(Octets) /\ RingType(p.buffer)  BY <1>1 DEF Flowing
<1>3. k \in Seq(Octets)  BY <1>1, <1>2, KeptType
<1>4. CASE HeaderPending(p)
  <2>1. x = <<>>  BY <1>1, <1>4 DEF Flowing
  <2> QED  BY <1>1, <1>2, <1>4, <2>1, Beginnings
<1>5. CASE ~HeaderPending(p)
  <2>1. x \in Seq(Octets) /\ x \o (k \o o) = f  BY <1>1, <1>5 DEF Flowing, Shown
  <2>2. Cat(k, o) \in Seq(Octets) /\ Cat(x, Cat(k, o)) = f
    <3>1. Cat(k, o) \in Seq(Octets)  BY <1>3, CatParts
    <3> QED  BY <2>1, <3>1 DEF Cat
  <2>3. IsPrefix(x, f)  BY <1>2, <2>1, <2>2, Beginnings
  <2>4. ASSUME k = <<>>, o = <<>> PROVE x = f
    <3>1. <<>> \o <<>> = <<>> /\ \A y \in Seq(Octets) : y \o <<>> = y  OBVIOUS
    <3> QED  BY <2>1, <2>4, <3>1
  <2> QED  BY <1>1, <2>3, <2>4
<1> QED  BY <1>4, <1>5

LEMMA AnswerType ==
    ASSUME NEW r \in Responses, NEW a \in Answers[r]
    PROVE  a.chars \in Seq(Octets) /\ a.forward \in Seq(Octets)
BY AnswersAssumption

(* A response without data for its client. *)
LEMMA NothingGot ==
    ASSUME NEW r \in Responses, NEW p, p.answer \in Answers[r] \cup {None}, p.got = <<>>, p.outcome # "completed"
    PROVE  Got(p)
BY AnswerType, Beginnings DEF Got

(* The destructor: a response is complete if its client has got all. *)
LEMMA DestroyedStream ==
    ASSUME NEW r \in Responses, NEW p, Got(p), p.answer \in Answers[r] \cup {None},
           p.outcome = "none" /\ p.answer # None => p.got = p.answer.forward, NEW o
    PROVE  Stream(r, Destroyed(p), o)
<1>1. PICK n : n = NewResponse  OBVIOUS
<1>2. DOMAIN n = Fields  BY <1>1, NewSound DEF Sound
<1>3. PICK q : q = Destroyed(p)  OBVIOUS
<1>4. /\ q.pc = "gone" /\ q.outcome = (IF p.outcome = "none" THEN "completed" ELSE p.outcome)
      /\ q.answer = (IF p.outcome = "closed" THEN None ELSE p.answer)
      /\ q.got = (IF p.outcome = "closed" THEN <<>> ELSE p.got)
      BY <1>1, <1>2, <1>3 DEF Destroyed, Fields
<1>5. Got(q)  BY <1>4 DEF Got
<1> QED  BY <1>3, <1>4, <1>5 DEF Stream

(* What a response that is under way has to fulfil. *)
LEMMA ActiveStream ==
    ASSUME NEW r \in Responses, NEW p, p.pc \in {"active", "assertion"}, p.socket # None, ~p.requesting,
           p.restarts >= MaxRestarts, p.restarts \in Nat, p.answer \in Answers[r], NEW o, Got(p),
           p.pc = "active" => IF p.listed THEN p.outcome = "none" /\ Flows(p, o)
                              ELSE p.outcome \in {"error", "closed"} /\ GivenUp(p)
    PROVE  Stream(r, p, o)
<1>1. ~(p.restarts < MaxRestarts)  OBVIOUS
<1> QED  BY <1>1 DEF Stream

(* A response that is under way forwards what it has got. *)
LEMMA FlowingStream ==
    ASSUME NEW r \in Responses, NEW p, p.socket # None, ~p.requesting, p.pc = "active",
           p.restarts >= MaxRestarts, p.restarts \in Nat, p.answer \in Answers[r], NEW o \in Seq(Octets),
           p.listed, p.outcome = "none", (Flowing(p, o) /\ ~Quiet(p)) \/ Receiving(p, o)
    PROVE  Stream(r, p, o)
<1>1. Got(p)
  <2>1. PICK f \in Seq(Octets) : f = p.answer.forward  BY AnswerType
  <2>2. CASE Flowing(p, o)  BY <2>1, <2>2, FlowingGot DEF Got
  <2>3. CASE Receiving(p, o)
    <3>1. p.got = <<>>  BY <2>3 DEF Receiving
    <3> QED  BY <3>1, NothingGot
  <2> QED  BY <2>2, <2>3
<1>2. Flows(p, o)  BY DEF Flows
<1> QED  BY <1>1, <1>2, ActiveStream

(* response_not_possible() *)
LEMMA NotPossibleStream ==
    ASSUME NEW r \in Responses, NEW p, DOMAIN p = Fields, p.socket # None, ~p.requesting, p.pc = "active",
           p.restarts >= MaxRestarts, p.restarts \in Nat, p.answer \in Answers[r] \cup {None}, Got(p),
           p.listed /\ ~p.sending => p.got = <<>>, ~p.listed => p.outcome \in {"error", "closed"},
           GivenUp(p), NEW answer, NEW o
    PROVE  LET q == NotPossible(p, answer)
           IN  /\ p.answer \in Answers[r] => Stream(r, q, o)
               /\ Got(q) /\ q.answer = p.answer /\ q.socket = p.socket /\ q.outcome # "none"
               /\ DOMAIN q = Fields /\ q.reading = p.reading /\ q.writing = p.writing
               /\ q.requesting = p.requesting /\ q.pc \in {"active", "assertion"}
<1>1. PICK q : q = NotPossible(p, answer)  OBVIOUS
<1>2. CASE p.listed
  <2>1. q = [p EXCEPT !.listed = FALSE, !.outcome = IF answer /\ ~p.sending THEN "error" ELSE "closed"]
        BY <1>1, <1>2 DEF NotPossible
  <2>2. /\ q.socket = p.socket /\ q.requesting = p.requesting /\ q.pc = p.pc /\ q.restarts = p.restarts
        /\ q.answer = p.answer /\ q.got = p.got /\ ~q.listed
        /\ q.outcome = (IF answer /\ ~p.sending THEN "error" ELSE "closed")
        /\ DOMAIN q = Fields /\ q.reading = p.reading /\ q.writing = p.writing
        /\ q.exists = p.exists /\ q.buffer = p.buffer
        BY <2>1 DEF Fields
  <2>3. Got(q) /\ GivenUp(q)  BY <1>2, <2>2 DEF Got, GivenUp, BodyOnly
  <2> QED  BY <1>1, <2>2, <2>3, ActiveStream
<1>3. CASE ~p.listed
  <2>1. q = [p EXCEPT !.pc = "assertion"]  BY <1>1, <1>3 DEF NotPossible
  <2>2. /\ q.socket = p.socket /\ q.requesting = p.requesting /\ q.pc = "assertion" /\ q.restarts = p.restarts
        /\ q.answer = p.answer /\ q.got = p.got /\ q.outcome = p.outcome
        /\ DOMAIN q = Fields /\ q.reading = p.reading /\ q.writing = p.writing
        BY <2>1 DEF Fields
  <2>3. Got(q)  BY <2>2 DEF Got
  <2> QED  BY <1>1, <1>3, <2>2, <2>3, ActiveStream
<1> QED  BY <1>2, <1>3

-----------------------------------------------------------------------------

(* A step of one response, which changes no other connection than its own. *)
LEMMA StreamKeeps ==
    ASSUME PInv, SInv, NEW r \in Responses, NEW q, Becomes(r, q),
           origin' \in [Conns -> Seq(Octets)],
           \A c \in Conns : c # resp[r].socket => origin'[c] = origin[c],
           \A c \in Conns : c = resp[r].socket /\ origin'[c] # <<>> => q.socket = c,
           NEW o, q.socket # None => o = origin'[q.socket], Stream(r, q, o)
    PROVE  SInv'
<1>1. OriginType'  BY DEF OriginType
<1>2. OriginHeld'
  <2> SUFFICES ASSUME NEW c \in Conns, origin'[c] # <<>> PROVE \E s \in Responses : resp'[s].socket = c
      BY DEF OriginHeld
  <2>1. CASE c = resp[r].socket  BY <2>1 DEF Becomes
  <2>2. CASE c # resp[r].socket
    <3>1. origin[c] # <<>>  BY <2>2
    <3>2. PICK s \in Responses : resp[s].socket = c  BY <3>1 DEF SInv, OriginHeld
    <3>3. resp'[s].socket = c  BY <2>2, <3>2 DEF Becomes
    <3> QED  BY <3>3
  <2> QED  BY <2>1, <2>2
<1>3. \A s \in Responses : \A p, x, y : Stream(s, p, x) /\ (p.socket # None => x = y) => Stream(s, p, y)
      BY DEF Stream
<1>4. ASSUME NEW s \in Responses PROVE Stream(s, resp[s], Left(resp[s]))'
  <2>1. CASE s = r
    <3>1. resp'[r] = q  BY DEF Becomes
    <3>2. PICK y : y = IF q.socket = None THEN <<>> ELSE origin'[q.socket]  OBVIOUS
    <3>3. Stream(r, q, y)  BY <1>3, <3>2
    <3>4. Left(resp[s])' = y  BY <2>1, <3>1, <3>2 DEF Left
    <3>5. Stream(s, resp'[s], Left(resp[s])')  BY <2>1, <3>1, <3>3, <3>4
    <3> QED  BY <3>5 DEF Stream, Flows
  <2>2. CASE s # r
    <3>1. resp'[s] = resp[s]  BY <2>2 DEF Becomes
    <3>2. Stream(s, resp[s], Left(resp[s]))  BY DEF SInv, AllStreams
    <3>3. Left(resp[s])' = Left(resp[s])
      <4>1. CASE resp[s].socket = None  BY <3>1, <4>1 DEF Left
      <4>2. CASE resp[s].socket # None
        <5>1. resp[s].socket \in Conns  BY <4>2 DEF PInv, Responding, Sound
        <5>2. resp[s].socket # resp[r].socket  BY <2>2, <5>1 DEF PInv, Held, Holds
        <5> QED  BY <3>1, <4>2, <5>1, <5>2 DEF Left
      <4> QED  BY <4>1, <4>2
    <3> QED  BY <3>1, <3>2, <3>3
  <2> QED  BY <2>1, <2>2
<1>5. AllStreams'  BY <1>4 DEF AllStreams
<1> QED  BY <1>1, <1>2, <1>5 DEF SInv

(* What is known of a response that has a connection. *)
LEMMA HeldStream ==
    ASSUME PInv, SInv, NEW r \in Responses, resp[r].socket # None
    PROVE  LET c == resp[r].socket
           IN  /\ c \in Conns /\ origin[c] \in Seq(Octets) /\ Stream(r, resp[r], origin[c])
               /\ origin \in [Conns -> Seq(Octets)] /\ Sound(resp[r])
<1>1. Sound(resp[r])  BY DEF PInv, Responding
<1>2. resp[r].socket \in Conns  BY <1>1 DEF Sound
<1>3. Stream(r, resp[r], origin[resp[r].socket])
  <2>1. Stream(r, resp[r], Left(resp[r]))  BY DEF SInv, AllStreams
  <2> QED  BY <2>1 DEF Left
<1>4. origin \in [Conns -> Seq(Octets)]  BY DEF SInv, OriginType
<1> QED  BY <1>1, <1>2, <1>3, <1>4

(* The end of a handler. *)
LEMMA ContinueStream ==
    ASSUME PInv, SInv, NEW r \in Responses, NEW p, DOMAIN p = Fields, p.socket = resp[r].socket,
           p.socket # None, p.pc \in {"active", "assertion"}, NEW done,
           Got(p), p.answer \in Answers[r] \cup {None},
           p.pc = "active" /\ Unreferenced(p) /\ p.outcome = "none" /\ p.answer # None
               => p.got = p.answer.forward,
           p.pc = "active" /\ ~Unreferenced(p) => Stream(r, p, origin[p.socket]),
           done => Unreferenced(p) /\ origin[p.socket] = <<>>, Continue(r, p, done)
    PROVE  SInv'
<1>1. PICK c \in Conns : c = p.socket /\ c = resp[r].socket /\ origin \in [Conns -> Seq(Octets)]
      BY HeldStream
<1>2. c # None  OBVIOUS
<1>3. Responding  BY DEF PInv
<1>4. PICK destroyed : destroyed = (p.pc = "active" /\ Unreferenced(p))  OBVIOUS
<1>5. PICK q : q = IF destroyed THEN Destroyed(p) ELSE IF done THEN [p EXCEPT !.socket = None] ELSE p
      OBVIOUS
<1>6. Becomes(r, q)
  <2>1. resp' = [resp EXCEPT ![r] = q]  BY <1>4, <1>5 DEF Continue
  <2> QED  BY <1>3, <2>1, UpdateBecomes
<1>7. CASE destroyed \/ done
  <2>1. (done /\ origin' = origin) \/ origin' = [origin EXCEPT ![c] = <<>>]
        BY <1>1, <1>2, <1>4, <1>7 DEF Continue
  <2>2. <<>> \in Seq(Octets)  OBVIOUS
  <2>3. /\ origin' \in [Conns -> Seq(Octets)] /\ origin'[c] = <<>>
        /\ \A d \in Conns : d # c => origin'[d] = origin[d]
        BY <1>1, <2>1, <2>2
  <2>4. q.socket = None /\ \A o : Stream(r, q, o)
    <3>1. CASE destroyed
      <4>1. q = Destroyed(p)  BY <1>5, <3>1
      <4>2. q.socket = None  BY <4>1, DestroyedSound
      <4>3. p.outcome = "none" /\ p.answer # None => p.got = p.answer.forward  BY <1>4, <3>1
      <4>4. \A o : Stream(r, q, o)  BY <4>1, <4>3, DestroyedStream
      <4> QED  BY <4>2, <4>4
    <3>2. CASE ~destroyed
      <4>1. q = [p EXCEPT !.socket = None] /\ p.pc = "assertion"  BY <1>4, <1>5, <1>7, <3>2
      <4>2. /\ q.socket = None /\ q.pc = "assertion" /\ q.answer = p.answer /\ q.got = p.got
            /\ q.outcome = p.outcome
            BY <4>1 DEF Fields
      <4>3. Got(q)  BY <4>2 DEF Got
      <4> QED  BY <4>2, <4>3 DEF Stream
    <3> QED  BY <3>1, <3>2
  <2>5. PICK o : o = <<>>  OBVIOUS
  <2> QED  BY <1>1, <1>6, <2>3, <2>4, StreamKeeps
<1>8. CASE ~(destroyed \/ done)
  <2>1. q = p /\ origin' = origin  BY <1>4, <1>5, <1>8 DEF Continue
  <2>2. PICK o : o = origin[c]  OBVIOUS
  <2>3. Stream(r, q, o)
    <3>1. CASE p.pc = "active"  BY <1>1, <1>4, <1>8, <2>1, <2>2, <3>1
    <3>2. CASE p.pc = "assertion"  BY <2>1, <3>2 DEF Stream
    <3> QED  BY <3>1, <3>2
  <2> QED  BY <1>1, <1>6, <2>1, <2>2, <2>3, StreamKeeps
<1> QED  BY <1>7, <1>8

(* The handlers of a response that forwards its answer. *)
LEMMA FlowingContinues ==
    ASSUME PInv, SInv, NEW r \in Responses, NEW q, DOMAIN q = Fields, q.socket = resp[r].socket,
           q.socket # None, q.pc = "active", q.listed, q.outcome = "none", ~q.requesting,
           q.restarts >= MaxRestarts, q.restarts \in Nat, q.answer \in Answers[r],
           Flowing(q, origin[q.socket]),
           Quiet(q) => origin[q.socket] = <<>> /\ Kept(q.buffer) = <<>>,
           NEW done, done => Quiet(q), Continue(r, q, done)
    PROVE  SInv'
<1>1. PICK o \in Seq(Octets) : o = origin[q.socket]  BY HeldStream
<1>2. PICK f \in Seq(Octets) : f = q.answer.forward  BY AnswerType
<1>3. IsPrefix(q.got, f) /\ (~HeaderPending(q) /\ Kept(q.buffer) = <<>> /\ o = <<>> => q.got = f)
      BY <1>1, <1>2, FlowingGot
<1>4. Got(q)  BY <1>2, <1>3 DEF Got
<1>5. Unreferenced(q) <=> Quiet(q)  BY DEF Unreferenced, Quiet
<1>6. Quiet(q) => ~HeaderPending(q)  BY DEF Quiet, HeaderPending
<1>7. Quiet(q) => q.got = q.answer.forward  BY <1>1, <1>2, <1>3, <1>6
<1>8. ~Unreferenced(q) => Stream(r, q, origin[q.socket])
  <2>1. ASSUME ~Quiet(q) PROVE Stream(r, q, o)  BY <1>1, <2>1, FlowingStream
  <2> QED  BY <1>1, <1>5, <2>1
<1> QED  BY <1>4, <1>5, <1>7, <1>8, ContinueStream

(* A response that is not listed any more reads on; it must not write. *)
LEMMA UnlistedTransfer ==
    ASSUME NEW p, DOMAIN p = Fields, ~p.listed, p.writing = <<>>, BodyOnly(p)
    PROVE  LET q == Transfer(p)
           IN  /\ Carried(p, q) /\ q.pc \in {p.pc, "assertion"}
               /\ q.pc # "assertion" => GivenUp(q)
<1>1. PICK w, a, n : w = T!write_buffer(p.buffer) /\ a = w[1] /\ n = w[2]  OBVIOUS
<1>2. PICK x : x = issue_read(p, "body", a, n)  OBVIOUS
<1>3. PICK q : q = issue_write(x)  OBVIOUS
<1>4. Transfer(p) = q  BY <1>1, <1>2, <1>3 DEF Transfer
<1>5. /\ Carried(p, x) /\ x.writing = <<>> /\ x.pc = p.pc
      /\ x.reading = IF p.reading = <<>> /\ n # 0 THEN <<"body", a, n>> ELSE p.reading
      BY <1>2, ReadCarries
<1>6. BodyOnly(x) /\ DOMAIN x = Fields /\ ~x.listed  BY <1>5 DEF BodyOnly, Carried
<1>7. Carried(x, q) /\ q.reading = x.reading /\ q.writing = <<>> /\ q.pc \in {x.pc, "assertion"}
      BY <1>3, <1>5, <1>6, WriteCarries
<1>8. Carried(p, q) /\ GivenUp(q)  BY <1>5, <1>6, <1>7 DEF Carried, GivenUp, BodyOnly
<1> QED  BY <1>4, <1>5, <1>7, <1>8

(* Its client gets nothing more. *)
LEMMA UnlistedContinues ==
    ASSUME PInv, SInv, NEW r \in Responses, NEW p, DOMAIN p = Fields, p.socket = resp[r].socket,
           p.socket # None, p.pc = "active", ~p.listed, p.outcome \in {"error", "closed"}, ~p.requesting,
           p.restarts >= MaxRestarts, p.restarts \in Nat, p.answer \in Answers[r], Got(p),
           p.reading = <<>>, p.writing = <<>>,
           NEW q, q = Transfer(p), NEW done, ~done, Continue(r, q, done)
    PROVE  SInv'
<1>1. Carried(p, q) /\ q.pc \in {"active", "assertion"} /\ (q.pc = "active" => GivenUp(q))
      BY UnlistedTransfer DEF BodyOnly
<1>2. /\ DOMAIN q = Fields /\ q.socket = p.socket /\ q.restarts = p.restarts /\ ~q.requesting
      /\ ~q.listed /\ q.outcome = p.outcome /\ q.answer = p.answer /\ q.got = p.got
      BY <1>1 DEF Carried
<1>3. Got(q)  BY <1>2 DEF Got
<1>4. PICK o : o = origin[q.socket]  OBVIOUS
<1>5. Stream(r, q, o)  BY <1>1, <1>2, <1>3, ActiveStream
<1>6. q.outcome # "none"  BY <1>2
<1> QED  BY <1>1, <1>2, <1>3, <1>4, <1>5, <1>6, ContinueStream

(* Who writes to its client has the header of the answer. *)
LEMMA WritingFlows ==
    ASSUME PInv, SInv, NEW r \in Responses, resp[r].pc = "active", resp[r].writing # <<>>
    PROVE  LET s == resp[r]
           IN  /\ s.socket # None /\ ~s.requesting /\ s.restarts \in Nat /\ s.restarts >= MaxRestarts
               /\ s.answer \in Answers[r] /\ Got(s) /\ DOMAIN s = Fields
               /\ s.listed => s.outcome = "none" /\ Flowing(s, origin[s.socket])
               /\ ~s.listed => s.outcome \in {"error", "closed"} /\ GivenUp(s)
               /\ BodyOnly(s)
<1>1. PICK s : s = resp[r]  OBVIOUS
<1>2. Sound(s)  BY <1>1 DEF PInv, Responding
<1>3. /\ s.socket # None /\ ~s.requesting /\ s.restarts \in Nat /\ s.restarts >= MaxRestarts
      /\ DOMAIN s = Fields
      BY <1>1, <1>2 DEF Sound, Unreferenced, Unanswered
<1>4. PICK o : o = origin[s.socket]  OBVIOUS
<1>5. Stream(r, s, o)  BY <1>1, <1>3, <1>4, HeldStream
<1>6. /\ s.answer \in Answers[r] /\ Got(s)
      /\ s.listed => s.outcome = "none" /\ Flows(s, o)
      /\ ~s.listed => s.outcome \in {"error", "closed"} /\ GivenUp(s)
      BY <1>1, <1>3, <1>5 DEF Stream
<1>7. Flows(s, o) => Flowing(s, o)  BY <1>1 DEF Flows, Quiet, Receiving
<1>8. BodyOnly(s)  BY <1>1, <1>2 DEF Sound, Fits, BodyOnly
<1> QED  BY <1>1, <1>3, <1>4, <1>6, <1>7, <1>8

LEMMA HeaderWrittenStream ==
    ASSUME PInv, SInv, NEW r \in Responses, HeaderWritten(r)
    PROVE  SInv'
<1>0. PICK s : s = resp[r]  OBVIOUS
<1>1. s.pc = "active" /\ s.writing # <<>> /\ HeaderPending(s)
      BY <1>0 DEF HeaderWritten, HeaderPending
<1>2. PICK o \in Seq(Octets) : o = origin[s.socket] /\ s.socket # None
      BY <1>0, <1>1, WritingFlows, HeldStream
<1>3. /\ DOMAIN s = Fields /\ ~s.requesting /\ s.restarts \in Nat /\ s.restarts >= MaxRestarts
      /\ s.answer \in Answers[r] /\ Got(s)
      /\ s.listed => s.outcome = "none" /\ Flowing(s, o)
      /\ ~s.listed => s.outcome \in {"error", "closed"} /\ GivenUp(s)
      BY <1>0, <1>1, <1>2, WritingFlows
<1>4. PICK x : x = filtered_header(s.header)  OBVIOUS
<1>5. PICK p : p = Sent(s, x)  OBVIOUS
<1>6. /\ DOMAIN p = Fields /\ p.socket = s.socket /\ p.restarts = s.restarts
      /\ p.requesting = s.requesting /\ p.reading = s.reading /\ p.writing = <<>>
      /\ p.buffer = s.buffer /\ p.exists = s.exists /\ p.pc = "active" /\ p.listed = s.listed
      /\ p.outcome = s.outcome /\ p.answer = s.answer /\ p.header = s.header /\ p.sending = s.sending
      /\ p.got = IF s.listed THEN s.got \o x ELSE s.got
      BY <1>1, <1>3, <1>5 DEF Fields, Sent
<1>8. PICK q, done : q = (IF p.exists THEN Transfer(p) ELSE p) /\ done = ~p.exists  OBVIOUS
<1>9. Continue(r, q, done)  BY <1>0, <1>4, <1>5, <1>8 DEF HeaderWritten
<1>10. CASE ~s.listed
  <2>1. p.reading = <<>> /\ p.exists  BY <1>1, <1>3, <1>6, <1>10 DEF GivenUp
  <2>2. Got(p)  BY <1>3, <1>6, <1>10 DEF Got
  <2>3. q = Transfer(p) /\ ~done  BY <1>8, <2>1
  <2> QED  BY <1>0, <1>2, <1>3, <1>6, <1>9, <1>10, <2>1, <2>2, <2>3, UnlistedContinues
<1>11. CASE s.listed
  <2>1. /\ p.listed /\ p.outcome = "none" /\ Flowing(s, o)
        /\ p.got = s.got \o filtered_header(s.header)
        BY <1>3, <1>4, <1>6, <1>11
  <2>2. Flowing(p, o)  BY <1>1, <1>6, <2>1, HeaderGone
  <2>3. CASE p.exists
    <3>1. q = Transfer(p) /\ ~done  BY <1>8, <2>3
    <3>2. Flowing(q, o) /\ (Quiet(q) => o = <<>> /\ Kept(p.buffer) = <<>>)
          BY <1>6, <2>1, <2>2, <2>3, <3>1, TransferFlows DEF Quiet
    <3>3. /\ DOMAIN q = Fields /\ q.socket = s.socket /\ q.restarts = s.restarts /\ ~q.requesting
          /\ q.buffer = p.buffer /\ q.listed /\ q.outcome = "none" /\ q.answer = s.answer /\ q.pc = "active"
          BY <1>3, <1>6, <2>1, <3>1, TransferCarries DEF Carried
    <3> QED  BY <1>0, <1>2, <1>3, <1>9, <3>1, <3>2, <3>3, FlowingContinues
  <2>4. CASE ~p.exists
    <3>1. q = p  BY <1>8, <2>4
    <3>2. Quiet(p) /\ o = <<>> /\ Kept(p.buffer) = <<>>
          BY <1>6, <2>2, <2>4 DEF Flowing, ReadFits, Quiet
    <3> QED  BY <1>0, <1>2, <1>3, <1>6, <1>9, <2>1, <2>2, <3>1, <3>2, FlowingContinues
  <2> QED  BY <2>3, <2>4
<1> QED  BY <1>10, <1>11

(* Nothing is left of a body that was transmitted. *)
LEMMA DoneKept ==
    ASSUME NEW t, RingType(t), T!transmission_done(t), NEW o, Expected(t, o)
    PROVE  t.state = "done" /\ o = <<>> /\ Kept(t) = <<>>
<1>1. t.state = "done" /\ t.start = t.end /\ t.unparsed = <<>>  BY DEF T!transmission_done
<1>2. o = <<>>  BY <1>1 DEF Expected
<1>3. PICK i \in 0 .. Size - 1 : i = t.start /\ i = t.end  BY <1>1 DEF RingType
<1>4. Filled(t) = 0  BY <1>3 DEF Filled
<1>5. Content(t) = <<>>  BY <1>4, ContentType
<1>6. <<>> \o <<>> = <<>>  OBVIOUS
<1> QED  BY <1>1, <1>2, <1>5, <1>6 DEF Kept

LEMMA BodyWrittenStream ==
    ASSUME PInv, SInv, NEW r \in Responses, BodyWritten(r)
    PROVE  SInv'
<1>0. PICK s : s = resp[r]  OBVIOUS
<1>1. s.pc = "active" /\ s.writing # <<>> /\ ~HeaderPending(s)
      BY <1>0 DEF BodyWritten, HeaderPending
<1>2. PICK o \in Seq(Octets) : o = origin[s.socket] /\ s.socket # None
      BY <1>0, <1>1, WritingFlows, HeldStream
<1>3. /\ DOMAIN s = Fields /\ ~s.requesting /\ s.restarts \in Nat /\ s.restarts >= MaxRestarts
      /\ s.answer \in Answers[r] /\ Got(s)
      /\ s.listed => s.outcome = "none" /\ Flowing(s, o)
      /\ ~s.listed => s.outcome \in {"error", "closed"} /\ GivenUp(s)
      BY <1>0, <1>1, <1>2, WritingFlows
<1> DEFINE written(n, data) == [Sent(s, data) EXCEPT !.buffer = T!data_read(s.buffer, n)]
<1>4. \E n \in 1 .. s.writing[3] :
         LET p    == written(n, Written(s.buffer, s.writing[2], n))
             done == T!transmission_done(p.buffer)
         IN  Continue(r, IF done THEN p ELSE Transfer(p), done)
      BY <1>0, Zenon DEF BodyWritten, Written
<1>5. PICK n \in 1 .. s.writing[3] :
         LET p    == written(n, Written(s.buffer, s.writing[2], n))
             done == T!transmission_done(p.buffer)
         IN  Continue(r, IF done THEN p ELSE Transfer(p), done)
  <2> HIDE DEF written
  <2> QED  BY <1>4
<1>7. PICK p, d, b, done : /\ d = Written(s.buffer, s.writing[2], n) /\ b = T!data_read(s.buffer, n)
                           /\ p = written(n, d) /\ done = T!transmission_done(p.buffer)
      OBVIOUS
<1>8. Continue(r, IF done THEN p ELSE Transfer(p), done)
  <2> HIDE DEF written
  <2> QED  BY <1>5, <1>7
<1>9. /\ DOMAIN p = Fields /\ p.socket = s.socket /\ p.restarts = s.restarts
      /\ p.requesting = s.requesting /\ p.reading = s.reading /\ p.writing = <<>>
      /\ p.buffer = b /\ p.exists = s.exists /\ p.pc = "active" /\ p.listed = s.listed
      /\ p.outcome = s.outcome /\ p.answer = s.answer /\ p.header = s.header /\ p.sending = s.sending
      /\ p.got = IF s.listed THEN s.got \o d ELSE s.got
      BY <1>1, <1>3, <1>7 DEF Fields, Sent
<1> HIDE DEF written
<1>10. Sound(s) /\ b.state = s.buffer.state
  <2>1. Sound(s)  BY <1>0 DEF PInv, Responding
  <2> QED  BY <1>7, <2>1, ReadFields DEF Sound
<1>11. CASE ~s.listed
  <2>1. p.reading = <<>> /\ s.buffer.state # "done"  BY <1>1, <1>3, <1>9, <1>11 DEF GivenUp
  <2>2. Got(p)  BY <1>3, <1>9, <1>11 DEF Got
  <2>3. ~done  BY <1>7, <1>9, <1>10, <2>1 DEF T!transmission_done
  <2>4. PICK q : q = Transfer(p)  OBVIOUS
  <2>5. Continue(r, q, done)  BY <1>8, <2>3, <2>4
  <2> QED  BY <1>0, <1>2, <1>3, <1>9, <1>11, <2>1, <2>2, <2>3, <2>4, <2>5, UnlistedContinues
<1>12. CASE s.listed
  <2>0. p.listed /\ p.outcome = "none" /\ Flowing(s, o) /\ p.got = s.got \o d  BY <1>3, <1>9, <1>12
  <2>a. n \in Nat /\ 1 <= n /\ n <= s.writing[3]
    <3>1. PICK w \in Nat : w = s.writing[3]  BY <1>1, <2>0 DEF Flowing, WriteFits
    <3> QED  BY <3>1
  <2>1. Flowing(p, o) /\ p.exists
    <3>1. p.got = s.got \o Written(s.buffer, s.writing[2], n) /\ p.buffer = T!data_read(s.buffer, n)
          BY <1>7, <1>9, <2>0
    <3> QED  BY <1>1, <1>9, <2>0, <2>a, <3>1, BodyGone
  <2>2. CASE done
    <3>1. RingType(b) /\ Expected(b, o) /\ T!transmission_done(b)
          BY <1>7, <1>9, <2>1, <2>2 DEF Flowing
    <3>2. b.state = "done" /\ o = <<>> /\ Kept(b) = <<>>  BY <3>1, DoneKept
    <3>3. Quiet(p)  BY <1>9, <1>10, <3>2 DEF Sound, Quiet
    <3>4. Continue(r, p, done)  BY <1>8, <2>2
    <3> QED  BY <1>0, <1>2, <1>3, <1>9, <2>0, <2>1, <3>2, <3>3, <3>4, FlowingContinues
  <2>3. CASE ~done
    <3>1. PICK q : q = Transfer(p)  OBVIOUS
    <3>2. Flowing(q, o) /\ (Quiet(q) => o = <<>> /\ Kept(p.buffer) = <<>>)
          BY <1>9, <2>0, <2>1, <3>1, TransferFlows DEF Quiet
    <3>3. /\ DOMAIN q = Fields /\ q.socket = s.socket /\ q.restarts = s.restarts /\ ~q.requesting
          /\ q.buffer = p.buffer /\ q.listed /\ q.outcome = "none" /\ q.answer = s.answer /\ q.pc = "active"
          BY <1>3, <1>9, <2>0, <3>1, TransferCarries DEF Carried
    <3>4. Continue(r, q, done)  BY <1>8, <2>3, <3>1
    <3> QED  BY <1>0, <1>2, <1>3, <2>3, <3>2, <3>3, <3>4, FlowingContinues
  <2> QED  BY <2>2, <2>3
<1> QED  BY <1>11, <1>12

LEMMA ClientWriteErrorStream ==
    ASSUME PInv, SInv, NEW r \in Responses, ClientWriteError(r)
    PROVE  SInv'
<1>0. PICK s : s = resp[r]  OBVIOUS
<1>1. s.pc = "active" /\ s.writing # <<>>  BY <1>0 DEF ClientWriteError
<1>2. /\ s.socket # None /\ ~s.requesting /\ s.restarts \in Nat /\ s.restarts >= MaxRestarts
      /\ s.answer \in Answers[r] /\ Got(s) /\ DOMAIN s = Fields
      /\ s.listed => s.outcome = "none" /\ s.sending
      /\ ~s.listed => s.outcome \in {"error", "closed"}
      /\ BodyOnly(s)
      BY <1>0, <1>1, WritingFlows DEF Flowing
<1>3. PICK p : p = [s EXCEPT !.writing = <<>>]  OBVIOUS
<1>4. /\ DOMAIN p = Fields /\ p.socket = s.socket /\ p.restarts = s.restarts
      /\ p.requesting = s.requesting /\ p.pc = "active" /\ p.listed = s.listed /\ p.sending = s.sending
      /\ p.outcome = s.outcome /\ p.answer = s.answer /\ p.got = s.got
      /\ p.reading = s.reading /\ p.writing = <<>>
      BY <1>1, <1>2, <1>3 DEF Fields
<1>5. Got(p) /\ GivenUp(p)  BY <1>2, <1>4 DEF Got, GivenUp, BodyOnly
<1>6. PICK q, answer, done, o : /\ answer = FALSE /\ q = NotPossible(p, answer) /\ done = FALSE
                                /\ o = origin[s.socket]
      OBVIOUS
<1>7. /\ Stream(r, q, o) /\ Got(q) /\ q.answer = s.answer /\ q.socket = s.socket /\ q.outcome # "none"
      /\ DOMAIN q = Fields /\ q.pc \in {"active", "assertion"}
      BY <1>2, <1>4, <1>5, <1>6, NotPossibleStream
<1>8. Continue(r, q, done)  BY <1>0, <1>3, <1>6 DEF ClientWriteError
<1> QED  BY <1>0, <1>2, <1>6, <1>7, <1>8, ContinueStream

(* response_not_possible() when the restarts are used up. *)
LEMMA Exhausted ==
    ASSUME NEW r \in Responses, NEW q, DOMAIN q = Fields, q.socket # None, ~q.requesting, q.pc = "active",
           q.restarts >= MaxRestarts, q.restarts \in Nat, q.answer \in Answers[r] \cup {None}, Got(q),
           q.listed /\ ~q.sending => q.got = <<>>, ~q.listed => q.outcome \in {"error", "closed"},
           GivenUp(q), NEW answer, NEW o, NEW s, s = NotPossible(q, answer)
    PROVE  /\ q.answer \in Answers[r] => Stream(r, s, o)
           /\ Got(s) /\ s.answer = q.answer /\ s.socket = q.socket /\ s.outcome # "none"
           /\ DOMAIN s = Fields /\ s.reading = q.reading /\ s.writing = q.writing
           /\ s.requesting = q.requesting /\ s.pc \in {"active", "assertion"}
BY NotPossibleStream

(* restart(), also when it is not possible any more. *)
LEMMA RestartStream ==
    ASSUME PInv, SInv, NEW r \in Responses, NEW p, DOMAIN p = Fields, p.pc = "active",
           p.socket = resp[r].socket, p.socket # None, ~p.requesting, p.reading = <<>>, p.restarts \in Nat,
           Got(p), p.answer \in Answers[r] \cup {None}, p.writing # <<>> => p.answer \in Answers[r],
           p.listed => p.outcome = "none", p.listed /\ ~p.sending => p.got = <<>>,
           ~p.listed => p.outcome \in {"error", "closed"},
           p.writing # <<>> => p.exists /\ p.buffer.state # "done",
           p.restarts < MaxRestarts => Fresh(p), restart(r, p)
    PROVE  SInv'
<1>1. CASE p.restarts + 1 > MaxRestarts
  <2>1. PICK q : q = [p EXCEPT !.restarts = @ + 1]  OBVIOUS
  <2>2. /\ DOMAIN q = Fields /\ q.socket = p.socket /\ q.restarts = p.restarts + 1
        /\ q.requesting = p.requesting /\ q.reading = p.reading /\ q.writing = p.writing
        /\ q.pc = p.pc /\ q.listed = p.listed /\ q.sending = p.sending
        /\ q.outcome = p.outcome /\ q.answer = p.answer /\ q.got = p.got
        /\ q.exists = p.exists /\ q.buffer = p.buffer
        BY <2>1 DEF Fields
  <2>3. Got(q) /\ q.restarts \in Nat /\ q.restarts >= MaxRestarts  BY <1>1, <2>2 DEF Got
  <2>a. /\ q.socket # None /\ ~q.requesting /\ q.pc = "active" /\ q.answer \in Answers[r] \cup {None}
        /\ q.listed /\ ~q.sending => q.got = <<>>
        /\ ~q.listed => q.outcome \in {"error", "closed"}
        /\ GivenUp(q)
        BY <2>2 DEF GivenUp, BodyOnly
  <2>4. PICK s, answer, o, done : /\ answer = TRUE /\ s = NotPossible(q, answer) /\ done = FALSE
                                  /\ o = origin[p.socket]
        OBVIOUS
  <2>5. /\ q.answer \in Answers[r] => Stream(r, s, o)
        /\ Got(s) /\ s.answer = q.answer /\ s.socket = q.socket /\ s.outcome # "none"
        /\ DOMAIN s = Fields /\ s.reading = q.reading /\ s.writing = q.writing
        /\ s.requesting = q.requesting /\ s.pc \in {"active", "assertion"}
    <3>1. DOMAIN q = Fields  BY <2>2
    <3>2. s = NotPossible(q, answer)  BY <2>4
    <3> QED  BY <2>3, <2>a, <3>1, <3>2, Exhausted
  <2>6. Continue(r, s, done)  BY <1>1, <2>1, <2>4 DEF restart
  <2>7. ~Unreferenced(s) => q.answer \in Answers[r]  BY <2>2, <2>5 DEF Unreferenced
  <2> QED  BY <2>2, <2>4, <2>5, <2>6, <2>7, ContinueStream
<1>2. CASE ~(p.restarts + 1 > MaxRestarts)
  <2>1. Fresh(p)
    <3>1. p.restarts < MaxRestarts  BY <1>2
    <3> QED  BY <3>1
  <2>2. PICK q : q = [p EXCEPT !.pc = "restarting", !.restarts = @ + 1, !.socket = None,
                              !.reading = <<>>, !.writing = <<>>]
        OBVIOUS
  <2>3. /\ q.socket = None /\ q.requesting = p.requesting
        /\ q.pc = "restarting" /\ q.listed = p.listed /\ q.sending = p.sending
        /\ q.outcome = p.outcome /\ q.answer = p.answer /\ q.got = p.got
        /\ q.header = p.header /\ q.buffer = p.buffer /\ q.exists = p.exists
        BY <2>2 DEF Fields
  <2>4. Fresh(q) /\ Got(q)  BY <2>1, <2>3 DEF Fresh, Untouched, Got
  <2>5. PICK o : o = <<>>  OBVIOUS
  <2>6. Stream(r, q, o)  BY <2>3, <2>4 DEF Stream, Fresh
  <2>7. Becomes(r, q)
    <3>1. resp' = [resp EXCEPT ![r] = q]  BY <1>2, <2>2 DEF restart
    <3>2. Responding  BY DEF PInv
    <3> QED  BY <3>1, <3>2, UpdateBecomes
  <2>8. PICK c \in Conns : c = p.socket /\ origin \in [Conns -> Seq(Octets)]  BY HeldStream
  <2>9. <<>> \in Seq(Octets)  OBVIOUS
  <2>10. /\ origin' \in [Conns -> Seq(Octets)] /\ origin'[c] = <<>>
         /\ \A d \in Conns : d # c => origin'[d] = origin[d]
    <3>1. origin' = [origin EXCEPT ![c] = <<>>]  BY <1>2, <2>8 DEF restart
    <3>2. PICK S, e : S = Seq(Octets) /\ e = <<>>  OBVIOUS
    <3>3. origin \in [Conns -> S] /\ e \in S /\ origin' = [origin EXCEPT ![c] = e]
          BY <2>8, <2>9, <3>1, <3>2, Zenon
    <3>4. /\ origin' \in [Conns -> S] /\ origin'[c] = e
          /\ \A d \in Conns : d # c => origin'[d] = origin[d]
          BY <3>3
    <3> QED  BY <3>2, <3>4, Zenon
  <2> QED  BY <2>3, <2>6, <2>7, <2>8, <2>10, StreamKeeps
<1> QED  BY <1>1, <1>2

-----------------------------------------------------------------------------
(* The steps *)

(* A step of a response that has no connection. *)
LEMMA WaitingStream ==
    ASSUME PInv, SInv, NEW r \in Responses, resp[r].socket = None, NEW q, Becomes(r, q),
           UNCHANGED origin, \A o : Stream(r, q, o)
    PROVE  SInv'
<1>1. \A c \in Conns : c # resp[r].socket  OBVIOUS
<1>2. origin' \in [Conns -> Seq(Octets)] /\ \A c \in Conns : origin'[c] = origin[c]
      BY DEF SInv, OriginType
<1>3. PICK o : o = origin'[q.socket]  OBVIOUS
<1> QED  BY <1>1, <1>2, <1>3, StreamKeeps

LEMMA StartStream ==
    ASSUME PInv, SInv, NEW r \in Responses, Start(r)
    PROVE  SInv'
<1>1. PICK s : s = resp[r]  OBVIOUS
<1>2. Responding /\ Sound(s) /\ s.pc = "new" /\ s.socket = None
  <2>1. Responding /\ Sound(s) /\ s.pc = "new"  BY <1>1 DEF PInv, Responding, Start
  <2> QED  BY <2>1 DEF Sound
<1>3. Untouched(s) /\ s.answer = None /\ s.outcome = "none" /\ ~s.requesting
  <2>1. Stream(r, s, Left(s))  BY <1>1 DEF SInv, AllStreams
  <2>2. Unreferenced(s)  BY <1>2 DEF Sound
  <2> QED  BY <1>2, <2>1, <2>2 DEF Stream, Unreferenced
<1>4. UNCHANGED origin  BY DEF Start
<1>5. CASE LimitReached
  <2>1. PICK q : q = [s EXCEPT !.pc = "gone", !.outcome = "error"]  OBVIOUS
  <2>2. q.pc = "gone" /\ q.answer = None  BY <1>2, <1>3, <2>1 DEF Sound, Fields
  <2>3. \A o : Stream(r, q, o)  BY <2>2 DEF Stream, Got
  <2>4. Becomes(r, q)  BY <1>1, <1>2, <1>5, <2>1 DEF Start, Responding, Becomes
  <2> QED  BY <1>1, <1>2, <1>4, <2>3, <2>4, WaitingStream
<1>6. CASE ~LimitReached
  <2>1. PICK q : q = [s EXCEPT !.pc = "active", !.listed = TRUE]  OBVIOUS
  <2>2. /\ q.pc = "active" /\ q.answer = None /\ q.listed /\ q.outcome = "none" /\ ~q.requesting
        /\ q.header = s.header /\ q.buffer = s.buffer /\ q.got = s.got /\ q.sending = s.sending
        /\ q.exists = s.exists /\ q.socket = None
        BY <1>2, <1>3, <2>1 DEF Sound, Fields
  <2>3. Fresh(q) /\ Got(q)  BY <1>3, <2>2 DEF Fresh, Untouched, Got
  <2>4. \A o : Stream(r, q, o)  BY <2>2, <2>3 DEF Stream
  <2>5. Becomes(r, q)  BY <1>1, <1>2, <1>6, <2>1 DEF Start, Responding, Becomes
  <2> QED  BY <1>1, <1>2, <1>4, <2>4, <2>5, WaitingStream
<1> QED  BY <1>5, <1>6

(* The second half of a restart, or the error of one that is refused. *)
LEMMA ReconnectStream ==
    ASSUME PInv, SInv, NEW r \in Responses, Reconnect(r)
    PROVE  SInv'
<1>1. PICK s : s = resp[r]  OBVIOUS
<1>2. Responding /\ DOMAIN s = Fields /\ s.pc = "restarting" /\ s.socket = None
  <2>1. Responding /\ Sound(s) /\ s.pc = "restarting"  BY <1>1 DEF PInv, Responding, Reconnect
  <2> QED  BY <2>1 DEF Sound
<1>3. Fresh(s) /\ s.outcome = "none" /\ s.answer \in Answers[r] \cup {None} /\ Got(s)
  <2>1. Stream(r, s, Left(s))  BY <1>1 DEF SInv, AllStreams
  <2> QED  BY <1>2, <2>1 DEF Stream
<1>4. s.listed /\ ~s.sending /\ s.got = <<>>  BY <1>3 DEF Fresh, Untouched
<1>5. UNCHANGED origin  BY DEF Reconnect
<1>6. CASE LimitReached
  <2>1. PICK p : p = NotPossible(s, TRUE)  OBVIOUS
  <2>2. p.outcome = "error" /\ p.answer = s.answer /\ p.got = <<>>
        BY <1>2, <1>4, <2>1 DEF NotPossible, Fields
  <2>3. PICK q : q = Destroyed(p)  OBVIOUS
  <2>4. Got(p)  BY <1>3, <2>2, NothingGot
  <2>5. \A o : Stream(r, q, o)  BY <1>3, <2>2, <2>3, <2>4, DestroyedStream
  <2>6. resp' = [resp EXCEPT ![r] = q]
        BY <1>1, <1>2, <1>6, <2>1, <2>3 DEF Reconnect, Responding
  <2>7. Becomes(r, q)  BY <1>2, <2>6, UpdateBecomes
  <2> QED  BY <1>1, <1>2, <1>5, <2>5, <2>7, WaitingStream
<1>7. CASE ~LimitReached
  <2>1. PICK q : q = [s EXCEPT !.pc = "active"]  OBVIOUS
  <2>2. /\ q.pc = "active" /\ q.answer = s.answer /\ q.listed /\ q.outcome = "none" /\ q.socket = None
        /\ q.header = s.header /\ q.buffer = s.buffer /\ q.got = s.got /\ q.sending = s.sending
        /\ q.exists = s.exists
        BY <1>2, <1>3, <1>4, <2>1 DEF Fields
  <2>3. Fresh(q) /\ Got(q)  BY <1>3, <2>2 DEF Fresh, Untouched, Got
  <2>4. \A o : Stream(r, q, o)  BY <1>3, <2>2, <2>3 DEF Stream
  <2>5. Becomes(r, q)  BY <1>1, <1>2, <1>7, <2>1 DEF Reconnect, Responding, Becomes
  <2> QED  BY <1>1, <1>2, <1>5, <2>4, <2>5, WaitingStream
<1> QED  BY <1>6, <1>7

(* A response that waited has its connection, or an error. *)
LEMMA ConnectStream ==
    ASSUME PInv, SInv, NEW r \in Responses, Idle(resp[r]), NEW c \in Conns \cup {None},
           handle_orgin_connect(r, c), UNCHANGED origin
    PROVE  SInv'
<1>1. PICK s : s = resp[r]  OBVIOUS
<1>2. /\ Responding /\ DOMAIN s = Fields /\ s.pc = "active" /\ s.socket = None /\ ~s.requesting
      /\ Quiet(s)
      BY <1>1 DEF PInv, Responding, Sound, Idle, Unreferenced, Quiet
<1>3. Fresh(s) /\ s.outcome = "none" /\ s.answer \in Answers[r] \cup {None} /\ Got(s)
  <2>1. Stream(r, s, Left(s))  BY <1>1 DEF SInv, AllStreams
  <2> QED  BY <1>2, <2>1 DEF Stream, Fresh
<1>4. s.listed /\ ~s.sending /\ s.got = <<>>  BY <1>3 DEF Fresh, Untouched
<1>5. CASE c = None
  <2>1. PICK p : p = NotPossible(s, TRUE)  OBVIOUS
  <2>2. p.outcome = "error" /\ p.answer = s.answer /\ p.got = <<>>
        BY <1>2, <1>4, <2>1 DEF NotPossible, Fields
  <2>3. PICK q : q = Destroyed(p)  OBVIOUS
  <2>4. Got(p)  BY <1>3, <2>2, NothingGot
  <2>5. \A o : Stream(r, q, o)  BY <1>3, <2>2, <2>3, <2>4, DestroyedStream
  <2>6. resp' = [resp EXCEPT ![r] = q]
        BY <1>1, <1>2, <1>5, <2>1, <2>3 DEF handle_orgin_connect, Responding
  <2>7. Becomes(r, q)  BY <1>2, <2>6, UpdateBecomes
  <2> QED  BY <1>1, <1>2, <2>5, <2>7, WaitingStream
<1>6. CASE c # None
  <2>1. PICK q : q = [s EXCEPT !.socket = c, !.requesting = TRUE]  OBVIOUS
  <2>2. /\ q.pc = "active" /\ q.answer = s.answer /\ q.listed /\ q.outcome = "none" /\ q.requesting
        /\ q.header = s.header /\ q.buffer = s.buffer /\ q.got = s.got /\ q.sending = s.sending
        /\ q.exists = s.exists /\ q.reading = s.reading /\ q.writing = s.writing
        BY <1>2, <1>3, <1>4, <2>1 DEF Fields
  <2>3. Fresh(q) /\ Got(q) /\ Quiet(q)  BY <1>2, <1>3, <2>2 DEF Fresh, Untouched, Got, Quiet
  <2>4. \A o : Flows(q, o)  BY <2>2, <2>3 DEF Flows
  <2>5. \A o : Stream(r, q, o)  BY <1>3, <2>2, <2>3, <2>4 DEF Stream
  <2>6. resp' = [resp EXCEPT ![r] = q]
        BY <1>1, <1>2, <1>6, <2>1 DEF handle_orgin_connect, Responding
  <2>7. Becomes(r, q)  BY <1>2, <2>6, UpdateBecomes
  <2> QED  BY <1>1, <1>2, <2>5, <2>7, WaitingStream
<1> QED  BY <1>5, <1>6

LEMMA PoolStream ==
    ASSUME PInv, SInv, NEW c \in Conns,
           Connected(c) \/ ConnectTimeout(c) \/ IdleTimeout(c) \/ TimerExpires(c)
    PROVE  SInv'
<1>1. ASSUME c \in connecting PROVE call_back[c] \in Responses /\ Idle(resp[call_back[c]])
      BY <1>1 DEF PInv, Waits
<1>2. UNCHANGED origin  BY DEF Connected, ConnectTimeout, IdleTimeout, TimerExpires
<1>3. CASE UNCHANGED resp
      BY <1>2, <1>3 DEF SInv, AllStreams, OriginType, OriginHeld, Left, Stream, Flows
<1>4. CASE ~UNCHANGED resp
  <2>1. PICK d \in Conns \cup {None} : c \in connecting /\ handle_orgin_connect(call_back[c], d)
    <3>1. CASE Connected(c)
      <4>1. PICK error \in BOOLEAN :
               IF c \in connecting
                 THEN handle_orgin_connect(call_back[c], IF error THEN None ELSE c) ELSE UNCHANGED resp
            BY <3>1 DEF Connected
      <4>2. PICK d \in Conns \cup {None} : d = IF error THEN None ELSE c  OBVIOUS
      <4> QED  BY <1>4, <4>1, <4>2
    <3>2. CASE ConnectTimeout(c)
      <4>1. IF c \in connecting THEN handle_orgin_connect(call_back[c], None) ELSE UNCHANGED resp
            BY <3>2 DEF ConnectTimeout
      <4> QED  BY <1>4, <4>1
    <3>3. CASE IdleTimeout(c) \/ TimerExpires(c)  BY <1>4, <3>3 DEF IdleTimeout, TimerExpires
    <3> QED  BY <3>1, <3>2, <3>3
  <2>2. PICK r \in Responses : r = call_back[c] /\ Idle(resp[r])  BY <1>1, <2>1
  <2> QED  BY <1>2, <2>1, <2>2, ConnectStream
<1> QED  BY <1>3, <1>4

LEMMA ReceivedStream ==
    ASSUME PInv, SInv, NEW r \in Responses, NEW c \in Conns, connection_received(r, c)
    PROVE  SInv'
<1>1. <<r, c>> \in posted /\ handle_orgin_connect(r, c) /\ UNCHANGED origin
      BY DEF connection_received
<1>2. Idle(resp[r])  BY <1>1 DEF PInv, Waits
<1>3. PICK d \in Conns \cup {None} : d = c  OBVIOUS
<1> QED  BY <1>1, <1>2, <1>3, ConnectStream

(* A response whose request is on its way. *)
LEMMA RequestingFresh ==
    ASSUME PInv, SInv, NEW r \in Responses, resp[r].requesting, resp[r].pc # "assertion"
    PROVE  LET s == resp[r]
           IN  /\ s.pc = "active" /\ DOMAIN s = Fields /\ s.socket # None /\ s.restarts \in Nat
               /\ Fresh(s) /\ Quiet(s) /\ Got(s) /\ s.outcome = "none"
               /\ s.answer \in Answers[r] \cup {None}
<1>1. PICK s : s = resp[r]  OBVIOUS
<1>2. /\ DOMAIN s = Fields /\ s.socket # None /\ s.restarts \in Nat /\ s.pc = "active"
      /\ s.reading = <<>> /\ s.writing = <<>>
      BY <1>1 DEF PInv, Responding, Sound, Unreferenced, Unanswered
<1>3. Stream(r, s, Left(s))  BY <1>1 DEF SInv, AllStreams
<1>4. Fresh(s) /\ Got(s) /\ s.answer \in Answers[r] \cup {None}  BY <1>1, <1>2, <1>3 DEF Stream
<1>5. s.outcome = "none"  BY <1>2, <1>3, <1>4 DEF Stream, Fresh
<1> QED  BY <1>1, <1>2, <1>4, <1>5 DEF Quiet

LEMMA RequestWrittenStream ==
    ASSUME PInv, SInv, NEW r \in Responses, resp[r].pc # "assertion", RequestWritten(r)
    PROVE  SInv'
<1>0. PICK s : s = resp[r] /\ s.requesting  BY DEF RequestWritten
<1>1. /\ s.pc = "active" /\ DOMAIN s = Fields /\ s.socket # None /\ s.restarts \in Nat
      /\ Fresh(s) /\ Quiet(s) /\ s.outcome = "none"
      BY <1>0, RequestingFresh
<1>2. PICK c \in Conns : c = s.socket /\ origin \in [Conns -> Seq(Octets)]  BY <1>0, <1>1, HeldStream
<1>3. PICK a \in Answers[r] :
         /\ resp' = [resp EXCEPT ![r] =
               issue_read([resp[r] EXCEPT !.requesting = FALSE, !.answer = a], "header", 0,
                          H!read_buffer([resp[r] EXCEPT !.requesting = FALSE, !.answer = a].header))]
         /\ origin' = [origin EXCEPT ![[resp[r] EXCEPT !.requesting = FALSE, !.answer = a].socket] = a.chars]
      BY DEF RequestWritten
<1>4. PICK p : p = [s EXCEPT !.requesting = FALSE, !.answer = a]  OBVIOUS
<1>5. /\ DOMAIN p = Fields /\ p.socket = s.socket /\ p.restarts = s.restarts /\ ~p.requesting
      /\ p.reading = s.reading /\ p.writing = s.writing /\ p.buffer = s.buffer /\ p.exists = s.exists
      /\ p.pc = s.pc /\ p.listed = s.listed /\ p.sending = s.sending /\ p.outcome = s.outcome
      /\ p.answer = a /\ p.got = s.got /\ p.header = s.header
      BY <1>1, <1>4 DEF Fields
<1>6. PICK m : m = H!NewMessage("response")  OBVIOUS
<1>7. p.header = m /\ m.buffer = <<>> /\ Parsing(m) /\ m.error = "parsing"
  <2>1. m.error = "parsing"  BY <1>6 DEF H!NewMessage
  <2> QED  BY <1>1, <1>5, <1>6, <2>1, NewParsing DEF Fresh, Untouched
<1>8. PICK size : size = H!read_buffer(p.header)  OBVIOUS
<1>9. size # 0 /\ Len(m.buffer) < BufferSize
  <2>1. Len(<<>>) = 0  OBVIOUS
  <2>2. size = BufferSize - 0  BY <1>7, <1>8, <2>1 DEF H!read_buffer
  <2> QED  BY <1>7, <2>1, <2>2
<1>10. PICK q : q = issue_read(p, "header", 0, size)  OBVIOUS
<1>11. /\ Carried(p, q) /\ q.writing = <<>> /\ ~q.sending /\ q.pc = "active"
       /\ q.reading = <<"header", 0, size>>
  <2>1. p.reading = <<>> /\ p.writing = <<>> /\ ~p.sending
        BY <1>1, <1>5 DEF Quiet, Fresh, Untouched
  <2> QED  BY <1>1, <1>5, <1>9, <1>10, <2>1 DEF issue_read, Carried, Fields
<1>12. /\ DOMAIN q = Fields /\ q.socket = c /\ q.restarts = s.restarts /\ ~q.requesting
       /\ q.buffer = s.buffer /\ q.exists = s.exists /\ q.listed = s.listed /\ q.outcome = "none"
       /\ q.answer = a /\ q.got = s.got /\ q.header = m
       BY <1>1, <1>2, <1>5, <1>7, <1>11 DEF Carried
<1>13. Fresh(q) /\ q.listed /\ q.got = <<>>  BY <1>1, <1>11, <1>12, <1>6 DEF Fresh, Untouched
<1>14. PICK o \in Seq(Octets) : o = a.chars  BY AnswerType
<1>15. Receiving(q, o)
  <2>1. q.reading # <<>> /\ q.reading[1] = "header" /\ q.reading[3] = H!read_buffer(q.header)
        BY <1>7, <1>8, <1>11, <1>12
  <2>2. Cat(q.header.buffer, o) = q.answer.chars
    <3>1. <<>> \o o = o  OBVIOUS
    <3> QED  BY <1>7, <1>12, <1>14, <3>1 DEF Cat
  <2>3. q.got = <<>> /\ ~q.sending /\ ~q.exists /\ q.writing = <<>> /\ q.buffer = T!NewBuffer
        BY <1>11, <1>13 DEF Fresh, Untouched
  <2>4. q.header.error = "parsing" /\ Parsing(q.header) /\ Len(q.header.buffer) < BufferSize
        BY <1>7, <1>9, <1>12
  <2>5. q.header = H!NewMessage("response")  BY <1>6, <1>12
  <2> QED  BY <2>1, <2>2, <2>3, <2>4, <2>5 DEF Receiving
<1>16. Stream(r, q, o)
  <2>1. Got(q)  BY <1>12, <1>13, NothingGot
  <2>2. Flows(q, o)  BY <1>12, <1>15 DEF Flows
  <2> QED  BY <1>11, <1>12, <1>13, <2>1, <2>2 DEF Stream
<1>17. Becomes(r, q)
  <2>1. resp' = [resp EXCEPT ![r] = q]  BY <1>0, <1>3, <1>4, <1>8, <1>10
  <2>2. Responding  BY DEF PInv
  <2> QED  BY <2>1, <2>2, UpdateBecomes
<1>18. /\ origin' \in [Conns -> Seq(Octets)] /\ origin'[c] = o
       /\ \A d \in Conns : d # c => origin'[d] = origin[d]
  <2>1. origin' = [origin EXCEPT ![c] = o]  BY <1>0, <1>2, <1>3, <1>4, <1>5, <1>14
  <2> QED  BY <1>2, <2>1
<1>19. resp[r].socket = c  BY <1>0, <1>2
<1> QED  BY <1>12, <1>16, <1>17, <1>18, <1>19, StreamKeeps

LEMMA RequestWriteErrorStream ==
    ASSUME PInv, SInv, NEW r \in Responses, resp[r].pc # "assertion", RequestWriteError(r)
    PROVE  SInv'
<1>0. PICK s : s = resp[r] /\ s.requesting  BY DEF RequestWriteError
<1>1. /\ s.pc = "active" /\ DOMAIN s = Fields /\ s.socket # None /\ s.restarts \in Nat
      /\ Fresh(s) /\ Quiet(s) /\ Got(s) /\ s.outcome = "none" /\ s.answer \in Answers[r] \cup {None}
      BY <1>0, RequestingFresh
<1>2. PICK p : p = [s EXCEPT !.requesting = FALSE]  OBVIOUS
<1>3. /\ DOMAIN p = Fields /\ p.socket = s.socket /\ p.restarts = s.restarts /\ ~p.requesting
      /\ p.reading = s.reading /\ p.writing = s.writing /\ p.buffer = s.buffer /\ p.exists = s.exists
      /\ p.pc = s.pc /\ p.listed = s.listed /\ p.sending = s.sending /\ p.outcome = s.outcome
      /\ p.answer = s.answer /\ p.got = s.got /\ p.header = s.header
      BY <1>1, <1>2 DEF Fields
<1>4. Fresh(p) /\ Got(p)  BY <1>1, <1>3 DEF Fresh, Untouched, Got
<1>5. p.reading = <<>> /\ p.writing = <<>> /\ p.listed /\ p.got = <<>>
      BY <1>1, <1>3, <1>4 DEF Quiet, Fresh, Untouched
<1>6. restart(r, p)  BY <1>0, <1>2 DEF RequestWriteError
<1> QED  BY <1>0, <1>1, <1>3, <1>4, <1>5, <1>6, RestartStream

LEMMA OriginReadErrorStream ==
    ASSUME PInv, SInv, NEW r \in Responses, OriginReadError(r)
    PROVE  SInv'
<1>0. PICK s : s = resp[r] /\ s.pc = "active" /\ s.reading # <<>>  BY DEF OriginReadError
<1>1. DOMAIN s = Fields /\ s.socket # None /\ ~s.requesting /\ s.restarts \in Nat
      BY <1>0 DEF PInv, Responding, Sound, Unreferenced
<1>2. PICK o : o = origin[s.socket]  OBVIOUS
<1>3. Stream(r, s, o)  BY <1>0, <1>1, <1>2, HeldStream
<1>4. /\ s.answer \in Answers[r] /\ Got(s) /\ (s.restarts < MaxRestarts => Fresh(s))
      /\ s.listed => s.outcome = "none" /\ Flows(s, o)
      /\ ~s.listed => s.outcome \in {"error", "closed"}
      BY <1>0, <1>1, <1>3 DEF Stream
<1>5. Flows(s, o) /\ ~s.sending => s.got = <<>>
      BY <1>1 DEF Flows, Receiving, Flowing
<1>6. PICK p : p = [s EXCEPT !.reading = <<>>]  OBVIOUS
<1>7. /\ DOMAIN p = Fields /\ p.socket = s.socket /\ p.restarts = s.restarts /\ ~p.requesting
      /\ p.reading = <<>> /\ p.writing = s.writing /\ p.buffer = s.buffer /\ p.exists = s.exists
      /\ p.pc = s.pc /\ p.listed = s.listed /\ p.sending = s.sending /\ p.outcome = s.outcome
      /\ p.answer = s.answer /\ p.got = s.got /\ p.header = s.header
      BY <1>1, <1>6 DEF Fields
<1>8. Got(p) /\ (p.restarts < MaxRestarts => Fresh(p))  BY <1>4, <1>7 DEF Got, Fresh, Untouched
<1>9. restart(r, p)  BY <1>0, <1>6 DEF OriginReadError
<1>10. /\ p.answer \in Answers[r] /\ p.socket = resp[r].socket /\ p.socket # None /\ p.pc = "active"
       /\ p.restarts \in Nat /\ (p.listed => p.outcome = "none")
       /\ (p.listed /\ ~p.sending => p.got = <<>>)
       /\ (~p.listed => p.outcome \in {"error", "closed"})
       BY <1>0, <1>1, <1>4, <1>5, <1>7
<1>11. p.writing # <<>> => p.exists /\ p.buffer.state # "done"
  <2>1. Sound(s)  BY <1>0 DEF PInv, Responding
  <2> QED  BY <1>0, <1>7, <2>1 DEF Sound, Fits
<1> HIDE <1>4, <1>5
<1> QED  BY <1>7, <1>8, <1>9, <1>10, <1>11, RestartStream

(* A response that is destroyed. *)
Ended(q) == q.pc = "active" /\ Unreferenced(q)

(* What handle_read_from_orgin() makes of a response, rest is what the     *)
(* origin has still to send.                                               *)
ReadInto(r, s, q, rest) ==
    /\ DOMAIN q = Fields /\ q.answer = s.answer /\ q.socket = s.socket /\ Got(q)
    /\ IF Ended(q) THEN q.outcome # "none" ELSE Stream(r, q, rest)

HeaderOutcome(p, q, rest) ==
    IF q.listed THEN q.outcome = p.outcome /\ (Receiving(q, rest) \/ (Flowing(q, rest) /\ ~Quiet(q)))
    ELSE q.outcome = "error" /\ Quiet(q)

LEMMA HeaderReads ==
    ASSUME NEW r \in Responses, NEW s, s.answer \in Answers[r], NEW o \in Seq(Octets), Receiving(s, o),
           NEW n \in Nat, 1 <= n, n <= s.reading[3], n <= Len(o),
           NEW p, DOMAIN p = Fields, p.listed, p.reading = <<>>, p.writing = s.writing,
           p.header = s.header, p.exists = s.exists, p.buffer = s.buffer, p.sending = s.sending,
           p.answer = s.answer, p.got = s.got
    PROVE  HeaderOutcome(p, ReadHeader(p, SubSeq(o, 1, n)), SubSeq(o, n + 1, Len(o)))
BY HeaderRead DEF HeaderOutcome

LEMMA ReadHeaderListed ==
    ASSUME NEW r \in Responses, NEW s, s.pc = "active", s.listed, s.outcome = "none", ~s.requesting,
           s.socket # None, s.answer \in Answers[r], NEW o \in Seq(Octets), Receiving(s, o),
           NEW n \in Nat, 1 <= n, n <= s.reading[3], n <= Len(o),
           NEW p, DOMAIN p = Fields, p.pc = s.pc, p.listed, p.outcome = s.outcome, ~p.requesting,
           p.socket = s.socket, p.restarts = MaxRestarts, p.reading = <<>>, p.writing = s.writing,
           p.header = s.header, p.exists = s.exists, p.buffer = s.buffer, p.sending = s.sending,
           p.answer = s.answer, p.got = s.got
    PROVE  ReadInto(r, s, ReadHeader(p, SubSeq(o, 1, n)), SubSeq(o, n + 1, Len(o)))
<1>1. PICK d : d = SubSeq(o, 1, n)  OBVIOUS
<1>2. PICK rest \in Seq(Octets) : rest = SubSeq(o, n + 1, Len(o))
  <2>1. n \in 0 .. Len(o)  OBVIOUS
  <2> QED  BY <2>1, Pieces
<1>3. PICK q : q = ReadHeader(p, d)  OBVIOUS
<1>4. IF q.listed THEN q.outcome = p.outcome /\ (Receiving(q, rest) \/ (Flowing(q, rest) /\ ~Quiet(q)))
      ELSE q.outcome = "error" /\ Quiet(q)
  <2>1. HeaderOutcome(p, ReadHeader(p, SubSeq(o, 1, n)), SubSeq(o, n + 1, Len(o)))
        BY HeaderReads, Zenon
  <2>2. HeaderOutcome(p, q, rest)  BY <1>1, <1>2, <1>3, <2>1, Zenon
  <2> QED  BY <2>2 DEF HeaderOutcome
<1>5. /\ DOMAIN q = Fields /\ q.got = p.got /\ q.answer = p.answer /\ q.socket = p.socket
      /\ q.restarts = p.restarts /\ q.requesting = p.requesting /\ q.pc = p.pc
      BY <1>3, HeaderKeeps
<1>6. Unreferenced(q) <=> Quiet(q)  BY <1>5 DEF Unreferenced, Quiet
<1>7. CASE q.listed
  <2>1. q.outcome = "none" /\ ((Flowing(q, rest) /\ ~Quiet(q)) \/ Receiving(q, rest))
        BY <1>4, <1>7
  <2>2. ~Quiet(q)  BY <2>1 DEF Receiving, Quiet
  <2>3. Stream(r, q, rest)
    <3>1. q.restarts >= MaxRestarts /\ q.restarts \in Nat  BY <1>5
    <3> QED  BY <1>5, <1>7, <2>1, <3>1, FlowingStream
  <2>4. Got(q)  BY <2>3 DEF Stream
  <2> QED  BY <1>1, <1>2, <1>3, <1>5, <1>6, <2>2, <2>3, <2>4 DEF ReadInto, Ended
<1>8. CASE ~q.listed
  <2>1. q.outcome = "error" /\ Quiet(q)  BY <1>4, <1>8
  <2>2. q.got = <<>>  BY <1>5 DEF Receiving
  <2>3. Got(q)  BY <1>5, <2>1, <2>2, NothingGot
  <2> QED  BY <1>1, <1>2, <1>3, <1>5, <1>6, <2>1, <2>3 DEF ReadInto, Ended
<1> QED  BY <1>7, <1>8

LEMMA ReadBodyListed ==
    ASSUME NEW r \in Responses, NEW s, s.pc = "active", s.listed, s.outcome = "none", ~s.requesting,
           s.socket # None, s.answer \in Answers[r], NEW o \in Seq(Octets), Flowing(s, o), s.reading # <<>>,
           NEW n \in Nat, 1 <= n, n <= s.reading[3], n <= Len(o),
           NEW p, DOMAIN p = Fields, p.pc = s.pc, p.listed, p.outcome = s.outcome, ~p.requesting,
           p.socket = s.socket, p.restarts = MaxRestarts, p.reading = <<>>, p.writing = s.writing,
           p.header = s.header, p.exists = s.exists, p.sending = s.sending,
           p.answer = s.answer, p.got = s.got,
           p.buffer = T!data_written(s.buffer, s.reading[2], SubSeq(o, 1, n))
    PROVE  ReadInto(r, s, Transfer(p), SubSeq(o, n + 1, Len(o)))
<1>1. PICK rest \in Seq(Octets) : rest = SubSeq(o, n + 1, Len(o))
  <2>1. n \in 0 .. Len(o)  OBVIOUS
  <2> QED  BY <2>1, Pieces
<1>2. Flowing(p, rest) /\ p.exists /\ Kept(p.buffer) # <<>>  BY <1>1, BodyRead
<1>3. PICK q : q = Transfer(p)  OBVIOUS
<1>4. Flowing(q, rest) /\ ~Quiet(q)  BY <1>2, <1>3, TransferFlows DEF Quiet
<1>5. /\ DOMAIN q = Fields /\ q.got = p.got /\ q.answer = p.answer /\ q.socket = p.socket
      /\ q.restarts = p.restarts /\ q.requesting = p.requesting /\ q.pc = p.pc
      /\ q.listed /\ q.outcome = p.outcome
      BY <1>3, TransferCarries DEF Carried
<1>6. ~Unreferenced(q)  BY <1>4 DEF Unreferenced, Quiet
<1>7. Stream(r, q, rest)
  <2>1. q.restarts >= MaxRestarts /\ q.restarts \in Nat  BY <1>5
  <2> QED  BY <1>4, <1>5, <2>1, FlowingStream
<1>8. Got(q)  BY <1>7 DEF Stream
<1> QED  BY <1>1, <1>3, <1>5, <1>6, <1>7, <1>8 DEF ReadInto, Ended

(* A response that is not in the list any more. *)
LEMMA ReadUnlisted ==
    ASSUME NEW r \in Responses, NEW s, s.pc = "active", s.socket # None, s.answer \in Answers[r],
           s.outcome \in {"error", "closed"}, Got(s),
           NEW q, DOMAIN q = Fields, q.got = s.got, q.answer = s.answer, q.socket = s.socket,
           q.restarts = MaxRestarts, ~q.requesting, ~q.listed, q.outcome = s.outcome,
           q.pc \in {"active", "assertion"}, q.pc = "active" => GivenUp(q), NEW rest
    PROVE  ReadInto(r, s, q, rest)
<1>1. Got(q)  BY DEF Got
<1>2. q.restarts >= MaxRestarts /\ q.restarts \in Nat /\ q.socket # None  OBVIOUS
<1>3. Stream(r, q, rest)  BY <1>1, <1>2, ActiveStream
<1> QED  BY <1>1, <1>3 DEF ReadInto, Ended

(* The response s after a read. *)
HandledRead(s, data) ==
    LET p == [s EXCEPT !.reading = <<>>, !.restarts = MaxRestarts]
    IN  IF s.reading[1] = "header" THEN ReadHeader(p, data)
        ELSE Transfer([p EXCEPT !.buffer = T!data_written(@, s.reading[2], data)])

LEMMA OriginReadInto ==
    ASSUME NEW r \in Responses, NEW s, DOMAIN s = Fields, s.pc = "active", s.socket # None, ~s.requesting,
           s.reading # <<>>, NEW o \in Seq(Octets), Stream(r, s, o),
           NEW n \in Nat, 1 <= n, n <= s.reading[3], n <= Len(o)
    PROVE  ReadInto(r, s, HandledRead(s, SubSeq(o, 1, n)), SubSeq(o, n + 1, Len(o)))
<1> DEFINE d == SubSeq(o, 1, n)
<1>a. PICK p : p = [s EXCEPT !.reading = <<>>, !.restarts = MaxRestarts]  OBVIOUS
<1>b. PICK q : q = HandledRead(s, d)  OBVIOUS
<1>c. q = IF s.reading[1] = "header" THEN ReadHeader(p, d)
          ELSE Transfer([p EXCEPT !.buffer = T!data_written(@, s.reading[2], d)])
      BY <1>a, <1>b DEF HandledRead
<1>1. /\ DOMAIN p = Fields /\ p.pc = s.pc /\ p.listed = s.listed /\ p.outcome = s.outcome
      /\ p.requesting = s.requesting /\ p.socket = s.socket /\ p.restarts = MaxRestarts
      /\ p.reading = <<>> /\ p.writing = s.writing /\ p.header = s.header /\ p.exists = s.exists
      /\ p.buffer = s.buffer /\ p.sending = s.sending /\ p.answer = s.answer /\ p.got = s.got
      BY <1>a DEF Fields
<1>2. s.answer \in Answers[r] /\ Got(s)  BY DEF Stream
<1>3. s.listed => s.outcome = "none" /\ (Receiving(s, o) \/ Flowing(s, o))  BY DEF Stream, Flows
<1>4. ~s.listed => s.outcome \in {"error", "closed"} /\ GivenUp(s)  BY DEF Stream
<1>5. PICK b : b = T!data_written(s.buffer, s.reading[2], d)  OBVIOUS
<1>6. PICK x : x = [p EXCEPT !.buffer = b]  OBVIOUS
<1>7. /\ DOMAIN x = Fields /\ x.pc = s.pc /\ x.listed = s.listed /\ x.outcome = s.outcome
      /\ x.requesting = s.requesting /\ x.socket = s.socket /\ x.restarts = MaxRestarts
      /\ x.reading = <<>> /\ x.writing = s.writing /\ x.header = s.header /\ x.exists = s.exists
      /\ x.sending = s.sending /\ x.answer = s.answer /\ x.got = s.got /\ x.buffer = b
      BY <1>1, <1>6 DEF Fields
<1>8. q = IF s.reading[1] = "header" THEN ReadHeader(p, d) ELSE Transfer(x)
      BY <1>1, <1>5, <1>6, <1>c
<1>9. CASE s.listed /\ s.reading[1] = "header"
  <2>1. Receiving(s, o)  BY <1>3, <1>9 DEF Flowing, ReadFits
  <2>2. q = ReadHeader(p, SubSeq(o, 1, n))  BY <1>8, <1>9
  <2>3. ReadInto(r, s, ReadHeader(p, SubSeq(o, 1, n)), SubSeq(o, n + 1, Len(o)))
        BY <1>1, <1>2, <1>3, <1>9, <2>1, ReadHeaderListed
  <2> QED  BY <2>2, <2>3, <1>b
<1>10. CASE s.listed /\ s.reading[1] # "header"
  <2>1. Flowing(s, o)  BY <1>3, <1>10 DEF Receiving
  <2>2. q = Transfer(x)  BY <1>8, <1>10
  <2>3. x.buffer = T!data_written(s.buffer, s.reading[2], SubSeq(o, 1, n))  BY <1>5, <1>7
  <2>4. ReadInto(r, s, Transfer(x), SubSeq(o, n + 1, Len(o)))
        BY <1>2, <1>3, <1>7, <1>10, <2>1, <2>3, ReadBodyListed
  <2> QED  BY <2>2, <2>4, <1>b
<1>11. CASE ~s.listed
  <2>1. s.reading[1] # "header" /\ s.writing = <<>>  BY <1>4, <1>11 DEF GivenUp, BodyOnly
  <2>2. q = Transfer(x)  BY <1>8, <2>1
  <2>3. /\ Carried(x, q) /\ q.pc \in {x.pc, "assertion"}
        /\ q.pc # "assertion" => GivenUp(q)
    <3>1. ~x.listed /\ x.writing = <<>> /\ BodyOnly(x)  BY <1>7, <1>11, <2>1 DEF BodyOnly
    <3> QED  BY <1>7, <2>2, <3>1, UnlistedTransfer
  <2>4. /\ DOMAIN q = Fields /\ q.got = s.got /\ q.answer = s.answer /\ q.socket = s.socket
        /\ q.restarts = MaxRestarts /\ q.requesting = s.requesting /\ ~q.listed
        /\ q.outcome = s.outcome /\ q.pc \in {"active", "assertion"}
        /\ q.pc = "active" => GivenUp(q)
        BY <1>7, <1>11, <2>3 DEF Carried
  <2>5. PICK rest : rest = SubSeq(o, n + 1, Len(o))  OBVIOUS
  <2>6. ReadInto(r, s, q, rest)  BY <1>2, <1>4, <1>11, <2>4, ReadUnlisted
  <2> QED  BY <2>5, <2>6, <1>b
<1> QED  BY <1>9, <1>10, <1>11

LEMMA OriginReadStream ==
    ASSUME PInv, SInv, NEW r \in Responses, OriginRead(r)
    PROVE  SInv'
<1>0. PICK s, c : s = resp[r] /\ c = s.socket /\ s.pc = "active" /\ s.reading # <<>>
      BY DEF OriginRead
<1>1. DOMAIN s = Fields /\ c # None /\ ~s.requesting
      BY <1>0 DEF PInv, Responding, Sound, Unreferenced
<1>2. PICK o \in Seq(Octets) : o = origin[c] /\ Stream(r, s, o)  BY <1>0, <1>1, HeldStream
<1>3. c \in Conns /\ origin \in [Conns -> Seq(Octets)]  BY <1>0, <1>1, HeldStream
<1>4. \E n \in 1 .. Len(origin[resp[r].socket]) :
         LET d == resp[r].socket
             q == HandledRead(resp[r], SubSeq(origin[d], 1, n))
         IN  /\ n <= resp[r].reading[3]
             /\ origin' = [origin EXCEPT ![d] = IF Ended(q) THEN <<>> ELSE SubSeq(@, n + 1, Len(@))]
             /\ resp' = [resp EXCEPT ![r] = IF Ended(q) THEN Destroyed(q) ELSE q]
      BY Zenon DEF OriginRead, HandledRead, Ended
<1>5. PICK n \in 1 .. Len(o) :
         LET q == HandledRead(s, SubSeq(o, 1, n))
         IN  /\ n <= s.reading[3]
             /\ origin' = [origin EXCEPT ![c] = IF Ended(q) THEN <<>> ELSE SubSeq(@, n + 1, Len(@))]
             /\ resp' = [resp EXCEPT ![r] = IF Ended(q) THEN Destroyed(q) ELSE q]
      BY <1>0, <1>2, <1>4
<1>6. PICK q, rest : q = HandledRead(s, SubSeq(o, 1, n)) /\ rest = SubSeq(o, n + 1, Len(o))  OBVIOUS
<1>8. /\ n \in Nat /\ 1 <= n /\ n <= Len(o) /\ n <= s.reading[3]
      /\ resp' = [resp EXCEPT ![r] = IF Ended(q) THEN Destroyed(q) ELSE q]
      BY <1>5, <1>6
<1>9. origin' = [origin EXCEPT ![c] = IF Ended(q) THEN <<>> ELSE rest]
      BY <1>2, <1>3, <1>5, <1>6
<1>11. ReadInto(r, s, HandledRead(s, SubSeq(o, 1, n)), SubSeq(o, n + 1, Len(o)))
  <2>1. DOMAIN s = Fields /\ s.pc = "active" /\ s.socket # None /\ ~s.requesting /\ s.reading # <<>>
        BY <1>0, <1>1
  <2> QED  BY <1>2, <1>8, <2>1, OriginReadInto, Zenon
<1>12. ReadInto(r, s, q, rest)  BY <1>6, <1>11
<1>13. rest \in Seq(Octets)
  <2>1. n \in 0 .. Len(o)  BY <1>8
  <2> QED  BY <1>6, <2>1, Pieces
<1>14. s.answer \in Answers[r] \cup {None}  BY <1>2 DEF Stream
<1>15. Responding  BY DEF PInv
<1>16. <<>> \in Seq(Octets)  OBVIOUS
<1>17. CASE Ended(q)
  <2>1. PICK x : x = Destroyed(q)  OBVIOUS
  <2>2. x.socket = None  BY <2>1, DestroyedSound
  <2>3. \A y : Stream(r, x, y)
    <3>1. Got(q) /\ q.answer \in Answers[r] \cup {None} /\ q.outcome # "none"
          BY <1>12, <1>14, <1>17 DEF ReadInto
    <3> QED  BY <2>1, <3>1, DestroyedStream
  <2>4. Becomes(r, x)
    <3>1. resp' = [resp EXCEPT ![r] = x]  BY <1>8, <1>17, <2>1
    <3> QED  BY <1>15, <3>1, UpdateBecomes
  <2>5. /\ origin' \in [Conns -> Seq(Octets)] /\ origin'[c] = <<>>
        /\ \A e \in Conns : e # c => origin'[e] = origin[e]
    <3>1. origin' = [origin EXCEPT ![c] = <<>>]  BY <1>9, <1>17
    <3> QED  BY <1>3, <1>16, <3>1
  <2>6. PICK y : y = <<>>  OBVIOUS
  <2> QED  BY <1>0, <2>2, <2>3, <2>4, <2>5, StreamKeeps
<1>18. CASE ~Ended(q)
  <2>1. Stream(r, q, rest) /\ q.socket = c  BY <1>0, <1>12, <1>18 DEF ReadInto
  <2>2. Becomes(r, q)
    <3>1. resp' = [resp EXCEPT ![r] = q]  BY <1>8, <1>18
    <3> QED  BY <1>15, <3>1, UpdateBecomes
  <2>3. /\ origin' \in [Conns -> Seq(Octets)] /\ origin'[c] = rest
        /\ \A e \in Conns : e # c => origin'[e] = origin[e]
    <3>1. origin' = [origin EXCEPT ![c] = rest]  BY <1>9, <1>18
    <3> QED  BY <1>3, <1>13, <3>1
  <2> QED  BY <1>0, <2>1, <2>2, <2>3, StreamKeeps
<1> QED  BY <1>17, <1>18

-----------------------------------------------------------------------------

LEMMA InitSInv == Init => SInv
<1> SUFFICES ASSUME Init PROVE SInv  OBVIOUS
<1>1. resp = [r \in Responses |-> NewResponse] /\ origin = [c \in Conns |-> <<>>]  BY DEF Init
<1>2. PICK n : n = NewResponse  OBVIOUS
<1>3. /\ n.pc = "new" /\ n.header = H!NewMessage("response") /\ n.buffer = T!NewBuffer /\ n.got = <<>>
      /\ ~n.sending /\ ~n.exists /\ n.answer = None /\ n.outcome = "none" /\ n.socket = None
      BY <1>2 DEF NewResponse
<1>4. \A r \in Responses : \A o : Stream(r, n, o)  BY <1>3 DEF Stream, Untouched, Got
<1>5. AllStreams
  <2>1. \A r \in Responses : resp[r] = n  BY <1>1, <1>2
  <2> QED  BY <1>4, <2>1 DEF AllStreams
<1>6. <<>> \in Seq(Octets)  OBVIOUS
<1> QED  BY <1>1, <1>5, <1>6 DEF SInv, OriginType, OriginHeld

LEMMA NextSInv == PInv /\ SInv /\ [Next]_vars => SInv'
<1> SUFFICES ASSUME PInv, SInv, [Next]_vars PROVE SInv'  OBVIOUS
<1>1. CASE UNCHANGED vars
  <2>1. UNCHANGED <<resp, origin>>  BY <1>1 DEF vars
  <2> QED  BY <2>1 DEF SInv, AllStreams, OriginType, OriginHeld, Left, Stream, Flows
<1>2. CASE Next
  <2>1. (\A r \in Responses : resp[r].pc # "assertion") /\ UNCHANGED max_connections
        BY <1>2 DEF Next, Running, Aborted
  <2>2. CASE \E c \in Conns : Connected(c) \/ ConnectTimeout(c) \/ IdleTimeout(c) \/ TimerExpires(c)
        BY <2>2, PoolStream
  <2>3. CASE \E r \in Responses : Start(r) \/ Reconnect(r)  BY <2>1, <2>3, StartStream, ReconnectStream
  <2>4. CASE \E r \in Responses : RequestWritten(r)  BY <2>1, <2>4, RequestWrittenStream
  <2>5. CASE \E r \in Responses : OriginRead(r)  BY <2>5, OriginReadStream
  <2>6. CASE \E r \in Responses : HeaderWritten(r)  BY <2>6, HeaderWrittenStream
  <2>7. CASE \E r \in Responses : BodyWritten(r)  BY <2>7, BodyWrittenStream
  <2>8. CASE \E r \in Responses : RequestWriteError(r)  BY <2>1, <2>8, RequestWriteErrorStream
  <2>9. CASE \E r \in Responses : OriginReadError(r)  BY <2>9, OriginReadErrorStream
  <2>10. CASE \E r \in Responses : ClientWriteError(r)  BY <2>10, ClientWriteErrorStream
  <2>11. CASE \E r \in Responses, c \in Conns : connection_received(r, c)
         BY <2>11, ReceivedStream
  <2> QED  BY <1>2, <2>2, <2>3, <2>4, <2>5, <2>6, <2>7, <2>8, <2>9, <2>10, <2>11 DEF Next
<1> QED  BY <1>1, <1>2

LEMMA InvariantSInv == Spec => []SInv
BY InitSInv, InvariantPInv, NextSInv, PTL DEF Spec

(* What a client gets is, character for character and in their order, the  *)
(* header without the headers that are not passed on and then the body,    *)
(* however the answer was split, the ring of the buffer wrapped around and *)
(* reads and writes overlapped; a response is only complete (its           *)
(* destructor's response_completed(), response.h:150, finds it in the      *)
(* list) when its client has all of it, and an error response never        *)
(* follows characters of the answer (connection.h:507).                    *)
THEOREM AnswerWhole == Spec => []WholeOrClosed
<1>1. SInv => WholeOrClosed
  <2> SUFFICES ASSUME SInv PROVE WholeOrClosed  OBVIOUS
  <2>1. \A r \in Responses : Got(resp[r])  BY DEF SInv, AllStreams, Stream
  <2> QED  BY <2>1 DEF WholeOrClosed, Got
<1> QED  BY <1>1, InvariantSInv, PTL

(* A connection goes back to the pool only when the origin has nothing     *)
(* more to send for the request before: a body without its length or with  *)
(* the option close ends with the connection, and transmission_done() is   *)
(* not true before the last character of the trailer was read              *)
(* (transfer_buffer.h:217).                                                *)
THEOREM IdleEmpty == Spec => []IdleAtBoundary
<1>1. PInv /\ SInv => IdleAtBoundary
  <2> SUFFICES ASSUME PInv, SInv, NEW i \in DOMAIN idle PROVE origin[idle[i]] = <<>>
      BY DEF IdleAtBoundary
  <2>1. idle \in Seq(Conns)  BY DEF PInv, PoolType
  <2>2. PICK c \in Conns : c = idle[i] /\ c \notin in_use
    <3>1. i \in 1 .. Len(idle)  BY <2>1
    <3> QED  BY <2>1, <3>1 DEF PInv, Lists
  <2>3. \A r \in Responses : resp[r].socket # c  BY <2>2 DEF PInv, Held, Holds
  <2> QED  BY <2>2, <2>3 DEF SInv, OriginHeld
<1> QED  BY <1>1, InvariantPInv, InvariantSInv, PTL
=============================================================================
