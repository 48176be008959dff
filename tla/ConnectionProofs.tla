-------------------------- MODULE ConnectionProofs --------------------------
(***************************************************************************)
(* Proofs about Connection, for any number of requests and of writes.      *)
(* Everything is said of an open connection only: one that was closed is   *)
(* never opened again, and nothing is sent on it.                          *)
(***************************************************************************)
EXTENDS Connection, TLAPS

PipeType ==
    /\ made \in 0 .. MaxRequests
    /\ responses \in Seq(Requests)
    /\ phase \in [Requests -> Phases]
    /\ wire \in Seq(Requests)

(* The list is a run of requests, up to the last one that was read. *)
Consecutive ==
    /\ \A k \in 1 .. Len(responses) : responses[k] = responses[1] + k - 1
    /\ read # "none" =>
         IF responses = <<>> THEN Len(wire) = made ELSE responses[Len(responses)] = made

(* Only the first response writes, or has written; everything before it    *)
(* was sent.                                                               *)
FrontWrites ==
    /\ \A i \in Requests : phase[i] = "writing" => responses # <<>> /\ responses[1] = i
    /\ \A k \in 2 .. Len(responses) : phase[responses[k]] \in {"started", "blocked"}
    /\ responses # <<>> =>
         \/ phase[responses[1]] = "started" /\ Len(wire) = responses[1] - 1
         \/ phase[responses[1]] \in {"writing", "written"} /\ Len(wire) = responses[1]

(* Who is at work is in the list. *)
Listed ==
    \A i \in Requests : phase[i] \notin {"none", "gone"} =>
        \E k \in 1 .. Len(responses) : responses[k] = i

Pipe == PipeType /\ Consecutive /\ FrontWrites /\ Listed

(* The inductive invariant about what is sent. *)
PInv == InOrder /\ (open => Pipe)

-----------------------------------------------------------------------------
(* Facts about sequences: the last of a run, the head and the tail. *)
LEMMA TailFacts ==
    ASSUME NEW S, NEW s \in Seq(S), s # <<>>
    PROVE  /\ Tail(s) \in Seq(S) /\ Len(Tail(s)) = Len(s) - 1
           /\ \A k \in 1 .. Len(Tail(s)) : Tail(s)[k] = s[k + 1]
           /\ Len(s) \in Nat \ {0} /\ s[1] \in S
OBVIOUS

LEMMA AppendFacts ==
    ASSUME NEW S, NEW s \in Seq(S), NEW e \in S
    PROVE  /\ Append(s, e) \in Seq(S) /\ Len(Append(s, e)) = Len(s) + 1
           /\ \A k \in 1 .. Len(s) : Append(s, e)[k] = s[k]
           /\ Append(s, e)[Len(s) + 1] = e /\ Append(s, e) # <<>>
OBVIOUS

(* What is sent for request i, when all before it was sent. *)
LEMMA SentFacts ==
    ASSUME open, wire \in Seq(Requests), InOrder, NEW i \in Requests,
           Len(wire) = i - 1 \/ Len(wire) = i
    PROVE  /\ Sent(i) \in Seq(Requests) /\ Len(Sent(i)) = i
           /\ \A k \in 1 .. Len(Sent(i)) : Sent(i)[k] = k
<1>0. i \in Nat \ {0} /\ Len(wire) \in Nat
      BY ConnectionAssumption DEF Requests
<1>1. CASE Len(wire) = i
  <2>1. wire # <<>> /\ wire[Len(wire)] = i  BY <1>0, <1>1 DEF InOrder
  <2>2. Sent(i) = wire  BY <2>1 DEF Sent
  <2> QED  BY <1>1, <2>2 DEF InOrder
<1>2. CASE Len(wire) = i - 1
  <2>1. ~(wire # <<>> /\ wire[Len(wire)] = i)  BY <1>0, <1>2 DEF InOrder
  <2>2. Sent(i) = Append(wire, i)  BY <2>1 DEF Sent
  <2>3. /\ Append(wire, i) \in Seq(Requests) /\ Len(Append(wire, i)) = i
        /\ \A k \in 1 .. (i - 1) : Append(wire, i)[k] = wire[k]
        /\ Append(wire, i)[i] = i
        BY <1>0, <1>2, AppendFacts
  <2>4. \A k \in 1 .. i : Append(wire, i)[k] = k  BY <1>0, <1>2, <2>3 DEF InOrder
  <2> QED  BY <2>2, <2>3, <2>4
<1> QED  BY <1>1, <1>2

(* A write of i, which is in the list and is not writing. *)
LEMMA WriteKeeps ==
    ASSUME open, InOrder, Pipe, NEW i \in Requests, phase[i] \in {"started", "written"},
           Write(responses, i, phase), UNCHANGED <<made, responses, read>>
    PROVE  InOrder' /\ Pipe'
<1>0. /\ responses \in Seq(Requests) /\ phase \in [Requests -> Phases]
      /\ wire \in Seq(Requests) /\ made \in 0 .. MaxRequests
      BY DEF Pipe, PipeType
<1>1. PICK k \in 1 .. Len(responses) : responses[k] = i
      BY <1>0 DEF Pipe, Listed
<1>2. responses # <<>> /\ Len(responses) \in Nat \ {0} /\ responses[1] \in Requests
      BY <1>0, <1>1
<1>3. CASE responses[1] = i
  <2>1. Len(wire) = i - 1 \/ Len(wire) = i
        BY <1>2, <1>3 DEF Pipe, FrontWrites
  <2>2. phase' = [phase EXCEPT ![i] = "writing"] /\ wire' = Sent(i)
        BY <1>3 DEF Write
  <2>3. /\ wire' \in Seq(Requests) /\ Len(wire') = i
        /\ \A m \in 1 .. Len(wire') : wire'[m] = m
        BY <1>0, <2>1, <2>2, SentFacts
  <2>4. /\ phase' \in [Requests -> Phases] /\ phase'[i] = "writing"
        /\ \A j \in Requests \ {i} : phase'[j] = phase[j]
        BY <1>0, <2>2 DEF Phases
  <2>5. PipeType'  BY <1>0, <2>3, <2>4 DEF PipeType
  <2>6. Consecutive'
        BY <1>2 DEF Pipe, Consecutive
  <2>7. \A m \in 2 .. Len(responses) : responses[m] \in Requests \ {i}
    <3>1. ASSUME NEW m \in 2 .. Len(responses) PROVE responses[m] \in Requests /\ responses[m] # i
      <4>1. m \in 1 .. Len(responses) /\ 1 \in 1 .. Len(responses) /\ m # 1  BY <1>2
      <4>2. responses[m] = responses[1] + m - 1 /\ responses[1] \in Nat
            BY <1>2, <4>1, ConnectionAssumption DEF Pipe, Consecutive, Requests
      <4> QED  BY <1>0, <1>3, <4>1, <4>2
    <3> QED  BY <3>1
  <2>8. FrontWrites'
    <3>1. \A j \in Requests : phase'[j] = "writing" => responses # <<>> /\ responses[1] = j
          BY <1>2, <1>3, <2>4 DEF Pipe, FrontWrites
    <3>2. \A m \in 2 .. Len(responses) : phase'[responses[m]] \in {"started", "blocked"}
          BY <2>4, <2>7 DEF Pipe, FrontWrites
    <3> QED  BY <1>3, <2>3, <2>4, <3>1, <3>2 DEF FrontWrites
  <2>9. Listed'  BY <1>1, <2>4 DEF Pipe, Listed
  <2> QED  BY <2>3, <2>5, <2>6, <2>8, <2>9 DEF Pipe, InOrder
<1>4. CASE responses[1] # i
  <2>2. phase' = [phase EXCEPT ![i] = "blocked"] /\ wire' = wire
        BY <1>4 DEF Write
  <2>4. /\ phase' \in [Requests -> Phases] /\ phase'[i] = "blocked"
        /\ \A j \in Requests \ {i} : phase'[j] = phase[j]
        BY <1>0, <2>2 DEF Phases
  <2>5. PipeType'  BY <1>0, <2>2, <2>4 DEF PipeType
  <2>6. Consecutive'
        BY <1>2, <2>2 DEF Pipe, Consecutive
  <2>8. FrontWrites'
    <3>1. \A j \in Requests : phase'[j] = "writing" => responses # <<>> /\ responses[1] = j
          BY <2>4 DEF Pipe, FrontWrites
    <3>2. \A m \in 2 .. Len(responses) : phase'[responses[m]] \in {"started", "blocked"}
          BY <1>0, <2>4 DEF Pipe, FrontWrites
    <3>3. phase'[responses[1]] = phase[responses[1]]  BY <1>2, <1>4, <2>4
    <3> QED  BY <2>2, <3>1, <3>2, <3>3 DEF Pipe, FrontWrites
  <2>9. Listed'  BY <1>1, <2>4 DEF Pipe, Listed
  <2> QED  BY <2>2, <2>5, <2>6, <2>8, <2>9 DEF Pipe, InOrder
<1> QED  BY <1>3, <1>4

(* The first response is completed, and the next one's write is issued if  *)
(* it was blocked.                                                         *)
LEMMA CompletedKeeps ==
    ASSUME open, InOrder, Pipe, NEW i \in Requests, phase[i] = "writing",
           response_completed, UNCHANGED <<made, read>>
    PROVE  InOrder' /\ Pipe'
<1> DEFINE rs == Tail(responses)
<1>0. /\ responses \in Seq(Requests) /\ phase \in [Requests -> Phases]
      /\ wire \in Seq(Requests) /\ made \in 0 .. MaxRequests
      BY DEF Pipe, PipeType
<1>1. responses # <<>> /\ responses[1] = i /\ Len(wire) = i /\ i \in Nat
      BY ConnectionAssumption DEF Pipe, FrontWrites, Requests
<1>2. /\ rs \in Seq(Requests) /\ Len(rs) = Len(responses) - 1
      /\ \A k \in 1 .. Len(rs) : rs[k] = responses[k + 1]
      /\ Len(responses) \in Nat \ {0}
      BY <1>0, <1>1, TailFacts
<1>3. responses' = rs /\ Unblocked(rs)  BY DEF response_completed
<1>4. \A k \in 1 .. Len(responses) : responses[k] = i + k - 1
      BY <1>1 DEF Pipe, Consecutive
<1>5. \A k \in 1 .. Len(rs) : rs[k] = i + k
      BY <1>1, <1>2, <1>4
<1>6. \A k \in 1 .. Len(rs) : phase[rs[k]] \in {"started", "blocked"}
  <2>1. \A m \in 2 .. Len(responses) : phase[responses[m]] \in {"started", "blocked"}
        BY DEF Pipe, FrontWrites
  <2> QED  BY <1>2, <2>1
<1>7. rs = <<>> \/ (rs # <<>> /\ 1 \in 1 .. Len(rs) /\ rs[1] = i + 1 /\ rs[1] \in Requests)
      BY <1>2, <1>5
<1>8. \A j \in Requests \ {i} : phase[j] \notin {"none", "gone"} =>
          \E k \in 1 .. Len(rs) : rs[k] = j
  <2> SUFFICES ASSUME NEW j \in Requests \ {i}, phase[j] \notin {"none", "gone"}
               PROVE  \E k \in 1 .. Len(rs) : rs[k] = j
      OBVIOUS
  <2>1. PICK m \in 1 .. Len(responses) : responses[m] = j  BY DEF Pipe, Listed
  <2>2. m # 1  BY <1>1, <2>1
  <2>3. m - 1 \in 1 .. Len(rs)  BY <1>2, <2>2
  <2>4. rs[m - 1] = j  BY <1>2, <2>1, <2>3
  <2> QED  BY <2>3, <2>4
<1>9. \A j \in Requests \ {i} : phase[j] # "writing"
      BY <1>1 DEF Pipe, FrontWrites
<1>10. Consecutive'
  <2>1. \A k \in 1 .. Len(rs) : rs[k] = rs[1] + k - 1
    <3>1. SUFFICES ASSUME NEW k \in 1 .. Len(rs) PROVE rs[k] = rs[1] + k - 1
          OBVIOUS
    <3>2. rs[1] = i + 1 /\ rs[k] = i + k  BY <1>2, <1>5, <1>7
    <3> QED  BY <1>1, <3>2
  <2>2. ASSUME read # "none"
        PROVE  IF rs = <<>> THEN Len(wire') = made ELSE rs[Len(rs)] = made
    <3>1. responses[Len(responses)] = made  BY <1>1, <2>2 DEF Pipe, Consecutive
    <3>2. CASE rs = <<>>
      <4>1. Len(responses) = 1  BY <1>2, <3>2
      <4>2. wire' = wire  BY <1>3, <3>2 DEF Unblocked
      <4> QED  BY <1>1, <3>1, <3>2, <4>1, <4>2
    <3>3. CASE rs # <<>>
          BY <1>2, <3>1, <3>3
    <3> QED  BY <3>2, <3>3
  <2> QED  BY <1>3, <2>1, <2>2 DEF Consecutive
<1>11. CASE rs # <<>> /\ phase[rs[1]] = "blocked"
  <2>1. /\ phase' = [phase EXCEPT ![i] = "gone", ![rs[1]] = "writing"]
        /\ wire' = Sent(rs[1])
        BY <1>1, <1>3, <1>11 DEF Unblocked
  <2>2. /\ phase' \in [Requests -> Phases] /\ phase'[i] = "gone" /\ phase'[rs[1]] = "writing"
        /\ \A j \in Requests \ {i, rs[1]} : phase'[j] = phase[j]
        BY <1>0, <1>1, <1>7, <1>11, <2>1 DEF Phases
  <2>3. /\ wire' \in Seq(Requests) /\ Len(wire') = rs[1]
        /\ \A m \in 1 .. Len(wire') : wire'[m] = m
    <3>1. Len(wire) = rs[1] - 1  BY <1>1, <1>7, <1>11
    <3> QED  BY <1>0, <1>7, <1>11, <2>1, <3>1, SentFacts
  <2>4. PipeType'  BY <1>0, <1>2, <1>3, <2>2, <2>3 DEF PipeType
  <2>5. FrontWrites'
    <3>1. \A j \in Requests : phase'[j] = "writing" => rs # <<>> /\ rs[1] = j
          BY <1>9, <1>11, <2>2
    <3>2. \A m \in 2 .. Len(rs) : rs[m] \in Requests \ {i, rs[1]}
          BY <1>1, <1>2, <1>5, <1>7
    <3>3. \A m \in 2 .. Len(rs) : phase'[rs[m]] \in {"started", "blocked"}
          BY <1>2, <1>6, <2>2, <3>2
    <3> QED  BY <1>3, <2>2, <2>3, <3>1, <3>3 DEF FrontWrites
  <2>6. Listed'
        BY <1>3, <1>7, <1>8, <1>11, <2>2 DEF Listed
  <2> QED  BY <1>10, <2>3, <2>4, <2>5, <2>6 DEF Pipe, InOrder
<1>12. CASE ~(rs # <<>> /\ phase[rs[1]] = "blocked")
  <2>1. phase' = [phase EXCEPT ![i] = "gone"] /\ wire' = wire
        BY <1>1, <1>3, <1>12 DEF Unblocked
  <2>2. /\ phase' \in [Requests -> Phases] /\ phase'[i] = "gone"
        /\ \A j \in Requests \ {i} : phase'[j] = phase[j]
        BY <1>0, <2>1 DEF Phases
  <2>4. PipeType'  BY <1>0, <1>2, <1>3, <2>1, <2>2 DEF PipeType
  <2>5. FrontWrites'
    <3>1. \A j \in Requests : phase'[j] # "writing"
          BY <1>9, <2>2
    <3>2. \A m \in 1 .. Len(rs) : rs[m] \in Requests \ {i}
          BY <1>1, <1>2, <1>5
    <3>3. \A m \in 1 .. Len(rs) : phase'[rs[m]] = phase[rs[m]]
          BY <2>2, <3>2
    <3>4. \A m \in 2 .. Len(rs) : phase'[rs[m]] \in {"started", "blocked"}
          BY <1>2, <1>6, <3>3
    <3>5. rs # <<>> => phase'[rs[1]] = "started"
          BY <1>6, <1>7, <1>12, <3>3
    <3>6. rs # <<>> => Len(wire') = rs[1] - 1
      <4>1. wire' = wire  BY <2>1
      <4> QED  BY <1>1, <1>7, <4>1
    <3> QED  BY <1>3, <3>1, <3>4, <3>5, <3>6 DEF FrontWrites
  <2>6. Listed'
        BY <1>3, <1>8, <2>2 DEF Listed
  <2> QED  BY <1>10, <2>1, <2>4, <2>5, <2>6 DEF Pipe, InOrder
<1> QED  BY <1>11, <1>12

(* A request is read, and its response is the last of the list. *)
LEMMA RequestFacts ==
    ASSUME InOrder, Pipe, read # "none", made < MaxRequests,
           NEW i, i = made + 1, NEW rs, rs = Append(responses, i)
    PROVE  /\ i \in Requests /\ i \in Nat /\ made \in Nat
           /\ rs \in Seq(Requests) /\ Len(rs) = Len(responses) + 1 /\ rs # <<>>
           /\ Len(responses) \in Nat
           /\ rs[Len(rs)] = i
           /\ \A k \in 1 .. Len(responses) : rs[k] = responses[k] /\ rs[k] \in Requests /\ rs[k] < i
           /\ \A k \in 1 .. Len(rs) : rs[k] = rs[1] + k - 1
           /\ responses = <<>> => rs[1] = i /\ Len(rs) = 1 /\ Len(wire) = i - 1
           /\ responses # <<>> => rs[1] = responses[1] /\ rs[1] # i
<1>0. /\ responses \in Seq(Requests) /\ made \in 0 .. MaxRequests /\ made \in Nat
      BY ConnectionAssumption DEF Pipe, PipeType
<1>1. i \in Requests /\ i \in Nat  BY <1>0, ConnectionAssumption DEF Requests
<1>2. /\ rs \in Seq(Requests) /\ Len(rs) = Len(responses) + 1 /\ rs # <<>>
      /\ \A k \in 1 .. Len(responses) : rs[k] = responses[k]
      /\ rs[Len(responses) + 1] = i /\ Len(responses) \in Nat
      BY <1>0, <1>1, AppendFacts
<1>3. \A k \in 1 .. Len(responses) : responses[k] \in Requests /\ responses[k] \in Nat
      BY <1>0, ConnectionAssumption DEF Requests
<1>4. CASE responses = <<>>
  <2>1. Len(responses) = 0 /\ Len(wire) = made  BY <1>4 DEF Pipe, Consecutive
  <2> QED  BY <1>0, <1>1, <1>2, <1>4, <2>1
<1>5. CASE responses # <<>>
  <2>1. Len(responses) \in Nat \ {0}  BY <1>0, <1>5
  <2>2. /\ \A k \in 1 .. Len(responses) : responses[k] = responses[1] + k - 1
        /\ responses[Len(responses)] = made
        BY <1>5 DEF Pipe, Consecutive
  <2>3. responses[1] \in Nat /\ made = responses[1] + Len(responses) - 1
        BY <1>3, <2>1, <2>2
  <2>4. \A k \in 1 .. Len(responses) : responses[k] < i  BY <2>1, <2>2, <2>3
  <2>5. rs[1] = responses[1]  BY <1>2, <2>1
  <2>6. i = rs[1] + Len(rs) - 1  BY <1>2, <2>1, <2>3, <2>5
  <2>7. \A k \in 1 .. Len(rs) : rs[k] = rs[1] + k - 1
        BY <1>2, <2>1, <2>2, <2>5, <2>6
  <2> QED  BY <1>0, <1>1, <1>2, <1>3, <1>5, <2>1, <2>4, <2>5, <2>7
<1> QED  BY <1>4, <1>5

(* The list gets the new response i, which begins in phase p. *)
LEMMA RequestKeeps ==
    ASSUME InOrder, Pipe, read # "none", made < MaxRequests, made' = made + 1,
           responses' = Append(responses, made + 1),
           NEW p \in {"started", "blocked", "writing"},
           phase' = [phase EXCEPT ![made + 1] = p],
           \/ p = "started" /\ wire' = wire
           \/ p = "blocked" /\ wire' = wire /\ responses # <<>>
           \/ p = "writing" /\ wire' = Sent(made + 1) /\ responses = <<>> /\ open
    PROVE  InOrder' /\ Pipe'
<1> DEFINE i == made + 1
           rs == Append(responses, i)
<1>0. /\ phase \in [Requests -> Phases] /\ responses \in Seq(Requests)
      /\ wire \in Seq(Requests) /\ made \in 0 .. MaxRequests
      BY DEF Pipe, PipeType
<1>1. /\ i \in Requests /\ i \in Nat /\ made \in Nat
      /\ rs \in Seq(Requests) /\ Len(rs) = Len(responses) + 1 /\ rs # <<>>
      /\ Len(responses) \in Nat
      /\ rs[Len(rs)] = i
      /\ \A k \in 1 .. Len(responses) : rs[k] = responses[k] /\ rs[k] \in Requests /\ rs[k] < i
      /\ \A k \in 1 .. Len(rs) : rs[k] = rs[1] + k - 1
      /\ responses = <<>> => rs[1] = i /\ Len(rs) = 1 /\ Len(wire) = i - 1
      /\ responses # <<>> => rs[1] = responses[1] /\ rs[1] # i
      BY RequestFacts
<1>2. responses' = rs /\ made' = i  OBVIOUS
<1> HIDE DEF i, rs
<1>3. /\ phase' \in [Requests -> Phases] /\ phase'[i] = p
      /\ \A j \in Requests \ {i} : phase'[j] = phase[j]
      BY <1>0, <1>1 DEF Phases, i
<1>4. /\ wire' \in Seq(Requests) /\ \A m \in 1 .. Len(wire') : wire'[m] = m
      /\ p # "writing" => wire' = wire
      /\ p = "writing" => Len(wire') = i /\ responses = <<>>
  <2>1. CASE p # "writing"  BY <1>0, <2>1 DEF InOrder
  <2>2. CASE p = "writing"
    <3>1. responses = <<>> /\ open /\ wire' = Sent(i)  BY <2>2 DEF i
    <3>2. Len(wire) = i - 1  BY <1>1, <3>1
    <3> QED  BY <1>0, <1>1, <3>1, <3>2, SentFacts
  <2> QED  BY <2>1, <2>2
<1>5. PipeType'
  <2>1. made' \in 0 .. MaxRequests  BY <1>1, <1>2, ConnectionAssumption
  <2> QED  BY <1>1, <1>2, <1>3, <1>4, <2>1 DEF PipeType
<1>6. Consecutive'  BY <1>1, <1>2 DEF Consecutive
<1>7. \A k \in 1 .. Len(responses) : phase'[rs[k]] = phase[responses[k]]
  <2>1. \A k \in 1 .. Len(responses) : rs[k] \in Requests \ {i} /\ rs[k] = responses[k]
        BY <1>1
  <2> QED  BY <1>3, <2>1
<1>8. FrontWrites'
  <2>1. CASE responses = <<>>
    <3>1. rs[1] = i /\ Len(rs) = 1 /\ Len(wire) = i - 1  BY <1>1, <2>1
    <3>2. \A j \in Requests \ {i} : phase'[j] # "writing"
          BY <1>3, <2>1 DEF Pipe, FrontWrites
    <3>3. p \in {"started", "writing"}  BY <2>1
    <3>4. p = "started" => Len(wire') = i - 1  BY <1>4, <3>1
    <3> QED  BY <1>1, <1>2, <1>3, <1>4, <3>1, <3>2, <3>3, <3>4 DEF FrontWrites
  <2>2. CASE responses # <<>>
    <3>1. rs[1] = responses[1] /\ rs[1] # i  BY <1>1, <2>2
    <3>2. p # "writing" /\ wire' = wire  BY <1>4, <2>2
    <3>3. \A j \in Requests : phase'[j] = "writing" => rs # <<>> /\ rs[1] = j
          BY <1>1, <1>3, <3>1, <3>2 DEF Pipe, FrontWrites
    <3>4. \A k \in 2 .. Len(responses) : phase[responses[k]] \in {"started", "blocked"}
          BY DEF Pipe, FrontWrites
    <3>5. ASSUME NEW k \in 2 .. Len(rs)
          PROVE  phase'[rs[k]] \in {"started", "blocked"}
      <4>1. CASE k = Len(rs)
        <5>1. phase'[rs[k]] = p  BY <1>1, <1>3, <4>1
        <5> QED  BY <3>2, <5>1
      <4>2. CASE k # Len(rs)
        <5>1. k \in 2 .. Len(responses) /\ k \in 1 .. Len(responses)  BY <1>1, <4>2
        <5> QED  BY <1>7, <3>4, <5>1
      <4> QED  BY <4>1, <4>2
    <3>6. 1 \in 1 .. Len(responses)  BY <1>0, <2>2
    <3>7. phase'[rs[1]] = phase[responses[1]]  BY <1>7, <3>6
    <3>8. \/ phase[responses[1]] = "started" /\ Len(wire) = responses[1] - 1
          \/ phase[responses[1]] \in {"writing", "written"} /\ Len(wire) = responses[1]
          BY <2>2 DEF Pipe, FrontWrites
    <3>9. \/ phase'[rs[1]] = "started" /\ Len(wire') = rs[1] - 1
          \/ phase'[rs[1]] \in {"writing", "written"} /\ Len(wire') = rs[1]
          BY <3>1, <3>2, <3>7, <3>8
    <3> QED  BY <1>2, <3>3, <3>5, <3>9 DEF FrontWrites
  <2> QED  BY <2>1, <2>2
<1>9. Listed'
  <2> SUFFICES ASSUME NEW j \in Requests, phase'[j] \notin {"none", "gone"}
               PROVE  \E k \in 1 .. Len(rs) : rs[k] = j
      BY <1>2 DEF Listed
  <2>1. CASE j = i  BY <1>1, <2>1
  <2>2. CASE j # i
    <3>1. phase[j] \notin {"none", "gone"}  BY <1>3, <2>2
    <3>2. PICK k \in 1 .. Len(responses) : responses[k] = j  BY <3>1 DEF Pipe, Listed
    <3>3. k \in 1 .. Len(rs) /\ rs[k] = j  BY <1>1, <3>2
    <3> QED  BY <3>3
  <2> QED  BY <2>1, <2>2
<1> QED  BY <1>4, <1>5, <1>6, <1>8, <1>9 DEF Pipe, InOrder

-----------------------------------------------------------------------------
LEMMA PInvInit == Init => PInv
<1> SUFFICES ASSUME Init PROVE PInv
    OBVIOUS
<1>1. /\ made = 0 /\ responses = <<>> /\ wire = <<>>
      /\ phase = [i \in Requests |-> "none"]
      BY DEF Init
<1>2. PipeType  BY <1>1, ConnectionAssumption DEF PipeType, Phases
<1>3. Consecutive /\ InOrder  BY <1>1 DEF Consecutive, InOrder
<1>4. \A i \in Requests : phase[i] = "none"  BY <1>1
<1>5. FrontWrites /\ Listed
  <2>1. Len(responses) = 0  BY <1>1
  <2> QED  BY <1>1, <1>4, <2>1 DEF FrontWrites, Listed
<1> QED  BY <1>2, <1>3, <1>5 DEF PInv, Pipe

(* Nothing is sent on a closed connection, and it is not opened again. *)
LEMMA ClosedKeeps == ~open /\ [Next]_vars => ~open' /\ wire' = wire
<1> SUFFICES ASSUME ~open, [Next]_vars PROVE ~open' /\ wire' = wire
    OBVIOUS
<1>0. \A i : Sent(i) = wire  BY DEF Sent
<1>1. ASSUME NEW rs, NEW i, NEW phases, Write(rs, i, phases) PROVE wire' = wire
      BY <1>0, <1>1 DEF Write
<1>2. ASSUME NEW i, NEW replaced, NEW timer, response_not_possible_impl(i, replaced, timer)
      PROVE  ~open' /\ wire' = wire
  <2>1. CASE replaced
    <3>1. Write(responses, i, phase) /\ UNCHANGED socketVars
          BY <1>2, <2>1 DEF response_not_possible_impl
    <3> QED  BY <1>1, <3>1 DEF socketVars
  <2>2. CASE ~replaced
        BY <1>2, <2>2 DEF response_not_possible_impl, shutdown_close
  <2> QED  BY <2>1, <2>2
<1>3. ASSUME NEW i \in Requests, async_write(i) PROVE ~open' /\ wire' = wire
      BY <1>1, <1>3 DEF async_write, socketVars
<1>4. ASSUME NEW i \in Requests, response_not_possible(i) PROVE ~open' /\ wire' = wire
      BY <1>2, <1>4 DEF response_not_possible
<1>5. ASSUME NEW i \in Requests, write_ended(i) PROVE ~open' /\ wire' = wire
  <2>1. CASE response_completed
    <3>1. Unblocked(Tail(responses))  BY <2>1 DEF response_completed
    <3>2. wire' = wire  BY <1>0, <3>1 DEF Unblocked
    <3>3. ~open'  BY <2>1 DEF response_completed, shutdown_close, socketVars
    <3> QED  BY <3>2, <3>3
  <2>2. CASE UNCHANGED wire /\ UNCHANGED socketVars  BY <2>2 DEF socketVars
  <2>3. CASE response_not_possible_impl(i, FALSE, FALSE)  BY <1>2, <2>3
  <2> QED  BY <1>5, <2>1, <2>2, <2>3 DEF write_ended
<1>6. ASSUME handle_read PROVE ~open' /\ wire' = wire
  <2>1. CASE response_not_possible_impl(body, FALSE, write_timer)  BY <1>2, <2>1
  <2>2. CASE UNCHANGED wire /\ UNCHANGED socketVars  BY <2>2 DEF socketVars
  <2> QED  BY <1>6, <2>1, <2>2 DEF handle_read, pipeVars
<1>7. ASSUME body_read \/ handle_request_header \/ issue_read PROVE ~open' /\ wire' = wire
  <2>1. UNCHANGED wire  BY <1>7 DEF body_read, handle_request_header, issue_read, pipeVars
  <2>2. UNCHANGED socketVars  BY <1>7 DEF body_read, handle_request_header, issue_read
  <2> QED  BY <2>1, <2>2 DEF socketVars
<1>8. ASSUME start_throws PROVE ~open' /\ wire' = wire
      BY <1>1, <1>8 DEF start_throws
<1>9. ASSUME TimeOut PROVE ~open' /\ wire' = wire
      BY <1>9 DEF TimeOut, expire, time_out, handle_keep_alive_timeout, shutdown_close,
                  pipeVars, socketVars
<1>10. CASE UNCHANGED vars  BY <1>10 DEF vars, pipeVars, socketVars
<1> QED  BY <1>3, <1>4, <1>5, <1>6, <1>7, <1>8, <1>9, <1>10 DEF Next, Read

(* A step that leaves the list, the wire and the phases alone. *)
LEMMA StillKeeps ==
    ASSUME InOrder, Pipe, UNCHANGED <<made, responses, phase, wire>>,
           read' # "none" => read # "none"
    PROVE  InOrder' /\ Pipe'
BY DEF InOrder, Pipe, PipeType, Consecutive, FrontWrites, Listed

LEMMA PInvStep == PInv /\ [Next]_vars => PInv'
<1> SUFFICES ASSUME PInv, [Next]_vars PROVE InOrder' /\ (open' => Pipe')
    BY DEF PInv
<1>1. CASE ~open  BY <1>1, ClosedKeeps DEF PInv, InOrder
<1>2. CASE open
  <2>0. Pipe /\ InOrder  BY <1>2 DEF PInv
  <2>1. ASSUME NEW i \in Requests, async_write(i) PROVE InOrder' /\ Pipe'
    <3>1. /\ phase[i] \in {"started", "written"} /\ Write(responses, i, phase)
          /\ UNCHANGED <<made, responses, read>>
          BY <2>1 DEF async_write, readVars
    <3> QED  BY <1>2, <2>0, <3>1, WriteKeeps
  <2>2. ASSUME NEW i, NEW timer, response_not_possible_impl(i, FALSE, timer)
        PROVE  InOrder' /\ ~open'
    <3>1. wire' = wire /\ ~open'  BY <2>2 DEF response_not_possible_impl, shutdown_close
    <3> QED  BY <2>0, <3>1 DEF InOrder
  <2>3. ASSUME NEW i \in Requests, response_not_possible(i)
        PROVE  InOrder' /\ (open' => Pipe')
    <3>1. PICK replaced \in BOOLEAN : response_not_possible_impl(i, replaced, write_timer)
          BY <2>3 DEF response_not_possible
    <3>2. CASE replaced = FALSE
      <4>1. response_not_possible_impl(i, FALSE, write_timer)  BY <3>1, <3>2
      <4> QED  BY <2>2, <4>1
    <3>3. CASE replaced = TRUE
      <4>1. /\ Write(responses, i, phase) /\ UNCHANGED responses
            BY <3>1, <3>3 DEF response_not_possible_impl
      <4>2. UNCHANGED <<made, read>> /\ phase[i] \in {"started", "written"}
            BY <2>3 DEF response_not_possible
      <4> QED  BY <1>2, <2>0, <4>1, <4>2, WriteKeeps
    <3> QED  BY <3>2, <3>3
  <2>4. ASSUME NEW i \in Requests, write_ended(i) PROVE InOrder' /\ (open' => Pipe')
    <3>0. phase[i] = "writing" /\ UNCHANGED <<made, read>>  BY <2>4 DEF write_ended
    <3>1. CASE response_completed  BY <1>2, <2>0, <3>0, <3>1, CompletedKeeps
    <3>2. CASE response_not_possible_impl(i, FALSE, FALSE)  BY <2>2, <3>2
    <3>3. CASE phase' = [phase EXCEPT ![i] = "written"] /\ UNCHANGED <<responses, wire>>
      <4>0. /\ responses \in Seq(Requests) /\ phase \in [Requests -> Phases]
            /\ wire \in Seq(Requests) /\ made \in 0 .. MaxRequests
            BY <2>0 DEF Pipe, PipeType
      <4>1. /\ phase' \in [Requests -> Phases] /\ phase'[i] = "written"
            /\ \A j \in Requests \ {i} : phase'[j] = phase[j]
            BY <3>3, <4>0 DEF Phases
      <4>2. responses # <<>> /\ responses[1] = i /\ Len(wire) = i
            BY <2>0, <3>0 DEF Pipe, FrontWrites
      <4>3. \A k \in 2 .. Len(responses) : responses[k] \in Requests \ {i}
        <5>1. Len(responses) \in Nat \ {0} /\ i \in Nat
              BY <4>0, <4>2, ConnectionAssumption DEF Requests
        <5>2. \A k \in 1 .. Len(responses) : responses[k] = i + k - 1
              BY <2>0, <4>2 DEF Pipe, Consecutive
        <5> QED  BY <4>0, <5>1, <5>2
      <4>4. PipeType'  BY <3>0, <3>3, <4>0, <4>1 DEF PipeType
      <4>5. Consecutive'  BY <2>0, <3>0, <3>3 DEF Pipe, Consecutive
      <4>6. FrontWrites'
        <5>1. \A j \in Requests : phase'[j] # "writing"
              BY <2>0, <4>1, <4>2 DEF Pipe, FrontWrites
        <5>2. \A k \in 2 .. Len(responses) : phase'[responses[k]] \in {"started", "blocked"}
              BY <2>0, <4>1, <4>3 DEF Pipe, FrontWrites
        <5> QED  BY <3>3, <4>1, <4>2, <5>1, <5>2 DEF FrontWrites
      <4>7. Listed'  BY <2>0, <3>0, <3>3, <4>1 DEF Pipe, Listed
      <4> QED  BY <2>0, <3>3, <4>4, <4>5, <4>6, <4>7 DEF Pipe, InOrder
    <3> QED  BY <2>4, <3>1, <3>2, <3>3 DEF write_ended
  <2>5. ASSUME handle_read PROVE InOrder' /\ (open' => Pipe')
    <3>1. CASE response_not_possible_impl(body, FALSE, write_timer)  BY <2>2, <3>1
    <3>2. CASE UNCHANGED <<made, responses, phase, wire>>
      <4>1. read # "none"  BY <2>5 DEF handle_read
      <4> QED  BY <2>0, <3>2, <4>1, StillKeeps
    <3> QED  BY <2>5, <3>1, <3>2 DEF handle_read, pipeVars
  <2>6. ASSUME body_read \/ issue_read PROVE InOrder' /\ Pipe'
    <3>1. UNCHANGED <<made, responses, phase, wire>> /\ read # "none"
          BY <2>6 DEF body_read, issue_read, pipeVars
    <3> QED  BY <2>0, <3>1, StillKeeps
  <2>7. ASSUME handle_request_header PROVE InOrder' /\ Pipe'
    <3>1. /\ read # "none" /\ made < MaxRequests /\ made' = made + 1
          /\ responses' = Append(responses, made + 1)
          /\ phase' = [phase EXCEPT ![made + 1] = "started"] /\ wire' = wire
          BY <2>7 DEF handle_request_header
    <3> QED  BY <2>0, <3>1, RequestKeeps
  <2>8. ASSUME start_throws PROVE InOrder' /\ Pipe'
    <3>0. read # "none" /\ read' = "none" /\ made < MaxRequests /\ made' = made + 1
          BY <2>8 DEF start_throws
    <3>1. CASE UNCHANGED <<responses, phase, wire>>
      <4>1. made' \in 0 .. MaxRequests
            BY <2>0, <3>0, ConnectionAssumption DEF Pipe, PipeType
      <4> QED  BY <2>0, <3>0, <3>1, <4>1
               DEF InOrder, Pipe, PipeType, Consecutive, FrontWrites, Listed
    <3>2. CASE /\ responses' = Append(responses, made + 1)
               /\ Write(Append(responses, made + 1), made + 1, phase)
      <4>1. PICK rs : rs = Append(responses, made + 1)  OBVIOUS
      <4>2. /\ responses = <<>> => rs[1] = made + 1
            /\ responses # <<>> => rs[1] # made + 1
            BY <2>0, <3>0, <4>1, RequestFacts
      <4>3. Write(rs, made + 1, phase)  BY <3>2, <4>1
      <4>4. CASE responses = <<>>
        <5>1. phase' = [phase EXCEPT ![made + 1] = "writing"] /\ wire' = Sent(made + 1)
              BY <4>2, <4>3, <4>4 DEF Write
        <5> QED  BY <1>2, <2>0, <3>0, <3>2, <4>4, <5>1, RequestKeeps
      <4>5. CASE responses # <<>>
        <5>1. phase' = [phase EXCEPT ![made + 1] = "blocked"] /\ wire' = wire
              BY <4>2, <4>3, <4>5 DEF Write
        <5> QED  BY <2>0, <3>0, <3>2, <4>5, <5>1, RequestKeeps
      <4> QED  BY <4>4, <4>5
    <3> QED  BY <2>8, <3>1, <3>2 DEF start_throws
  <2>9. ASSUME TimeOut PROVE InOrder' /\ Pipe'
    <3>1. UNCHANGED <<made, responses, phase, wire, read>>
          BY <2>9 DEF TimeOut, expire, time_out, handle_keep_alive_timeout, pipeVars, readVars
    <3> QED  BY <2>0, <3>1, StillKeeps
  <2>10. CASE UNCHANGED vars
    <3>1. UNCHANGED <<made, responses, phase, wire, read>>
          BY <2>10 DEF vars, pipeVars, readVars
    <3> QED  BY <2>0, <3>1, StillKeeps
  <2> QED  BY <2>1, <2>3, <2>4, <2>5, <2>6, <2>7, <2>8, <2>9, <2>10 DEF Next, Read
<1> QED  BY <1>1, <1>2

(* connection::async_write(): whatever the responses, the read and the     *)
(* timers do, the client is sent the responses in the order of its         *)
(* requests, without a gap.                                                *)
THEOREM ResponsesInOrder == Spec => []InOrder
<1>1. PInv => InOrder  BY DEF PInv
<1> QED  BY <1>1, PInvInit, PInvStep, PTL DEF Spec

(* connection::response_completed(): while the connection is open, the     *)
(* first response never waits for its own turn.                            *)
THEOREM FrontIsServed == Spec => []FrontNotBlocked
<1>1. PInv => FrontNotBlocked  BY DEF PInv, Pipe, FrontWrites, FrontNotBlocked
<1> QED  BY <1>1, PInvInit, PInvStep, PTL DEF Spec

-----------------------------------------------------------------------------
(* Idle connections.  A read without a timer is one that was noted, and    *)
(* only while responses are pending; every read is noted that waits for    *)
(* nothing but the next header, so that the last response that ends finds  *)
(* out that the connection becomes idle.                                   *)
Noted ==
    /\ read = "pending" /\ read_timer = "off" /\ late = {} =>
         no_read_timeout_set /\ responses # <<>>
    /\ read = "pending" /\ ~header /\ body = 0 /\ responses # <<>> => no_read_timeout_set
    /\ read = "pending" /\ ~header /\ responses = <<>> => ~close_after_response

(* The body that is read is that of the last response, which did not yet   *)
(* write; who parses more than part of a header has a response.            *)
LastReads ==
    /\ body # 0 => IsLast(body) /\ phase[body] = "started"
    /\ read = "parsed" => responses # <<>>
    /\ read # "none" => ~shutdown_read

(* The inductive invariant about idle connections, with PInv. *)
TInv == open => Noted /\ LastReads

LEMMA TInvInit == Init => TInv
BY DEF Init, TInv, Noted, LastReads

(* A write of i, which is not the one whose body is read. *)
LEMMA WriteReads ==
    ASSUME Pipe, Noted, LastReads, NEW i \in Requests, i # body, Write(responses, i, phase),
           UNCHANGED <<responses, read, header, body, no_read_timeout_set,
                       close_after_response, read_timer, late, shutdown_read>>
    PROVE  Noted' /\ LastReads'
<1>1. Noted'  BY DEF Noted
<1>2. ASSUME body # 0 PROVE IsLast(body)' /\ phase'[body] = "started"
  <2>1. IsLast(body) /\ phase[body] = "started"  BY <1>2 DEF LastReads
  <2>2. body \in Requests /\ phase \in [Requests -> Phases]
        BY <2>1 DEF IsLast, Pipe, PipeType
  <2>3. phase' = [phase EXCEPT ![i] = "writing"] \/ phase' = [phase EXCEPT ![i] = "blocked"]
        BY DEF Write
  <2>4. phase'[body] = phase[body]  BY <2>2, <2>3
  <2> QED  BY <2>1, <2>4 DEF IsLast
<1> QED  BY <1>1, <1>2 DEF LastReads

(* The first response i is completed; if it was the last, and the client   *)
(* is only expected to send a next header, the connection is closed or the *)
(* keep alive timer is started.                                            *)
LEMMA CompletedReads ==
    ASSUME Pipe, Noted, LastReads, NEW i \in Requests, phase[i] = "writing", Quiet,
           response_completed, open', UNCHANGED <<read, header, no_read_timeout_set,
           close_after_response, late>>
    PROVE  Noted' /\ LastReads'
<1> DEFINE rs == Tail(responses)
<1>0. responses \in Seq(Requests) /\ phase \in [Requests -> Phases]
      BY DEF Pipe, PipeType
<1>1. responses # <<>> /\ responses[1] = i  BY DEF Pipe, FrontWrites
<1>2. /\ rs \in Seq(Requests) /\ Len(rs) = Len(responses) - 1
      /\ \A k \in 1 .. Len(rs) : rs[k] = responses[k + 1]
      /\ Len(responses) \in Nat \ {0}
      BY <1>0, <1>1, TailFacts
<1>3. responses' = rs /\ body' = body /\ Unblocked(rs)  BY DEF response_completed
<1>4. ASSUME body # 0
      PROVE  /\ rs # <<>> /\ rs[Len(rs)] = body /\ phase'[body] = "started"
  <2>1. responses[Len(responses)] = body /\ phase[body] = "started" /\ body # i
        BY <1>4 DEF LastReads, IsLast
  <2>2. Len(responses) # 1  BY <1>1, <2>1
  <2>3. Len(rs) \in 1 .. Len(rs) /\ rs # <<>>  BY <1>2, <2>2
  <2>4. rs[Len(rs)] = body  BY <1>2, <2>1, <2>3
  <2>5. body \in Requests /\ rs[1] \in Requests  BY <1>2, <2>3, <2>4
  <2>6. \/ phase' = [phase EXCEPT ![i] = "gone"]
        \/ phase[rs[1]] = "blocked" /\ phase' = [phase EXCEPT ![i] = "gone", ![rs[1]] = "writing"]
        BY <1>1, <1>3 DEF Unblocked
  <2>7. phase'[body] = "started"  BY <1>0, <2>1, <2>5, <2>6
  <2> QED  BY <2>3, <2>4, <2>7
<1>5. LastReads'
  <2>1. read # "parsed"  BY DEF Quiet
  <2>2. ASSUME read # "none" PROVE ~shutdown_read'
    <3>1. ~shutdown_read  BY <2>2 DEF LastReads
    <3>2. UNCHANGED socketVars  BY DEF response_completed, shutdown_close
    <3> QED  BY <3>1, <3>2 DEF socketVars
  <2> QED  BY <1>3, <1>4, <2>1, <2>2 DEF LastReads, IsLast
<1>6. CASE rs # <<>>
  <2>1. UNCHANGED read_timer  BY <1>6 DEF response_completed
  <2> QED  BY <1>1, <1>3, <1>5, <1>6, <2>1 DEF Noted
<1>7. CASE rs = <<>>
  <2>1. body = 0  BY <1>4, <1>7
  <2>2. CASE read = "pending" /\ no_read_timeout_set
    <3>1. ~shutdown_read  BY <2>2 DEF LastReads
    <3>2. ~close_after_response  BY <1>7, <2>2, <3>1 DEF response_completed, shutdown_close
    <3>3. read_timer' = "keep"  BY <1>7, <2>2, <3>1, <3>2 DEF response_completed
    <3> QED  BY <1>3, <1>5, <1>7, <3>2, <3>3 DEF Noted
  <2>3. CASE read = "pending" /\ ~no_read_timeout_set
    <3>1. header  BY <1>1, <2>1, <2>3 DEF Noted
    <3>2. read_timer # "off" \/ late # {}  BY <2>3 DEF Noted
    <3>3. read_timer' = read_timer  BY <2>3 DEF response_completed
    <3> QED  BY <1>3, <1>5, <1>7, <3>1, <3>2, <3>3 DEF Noted
  <2>4. CASE read # "pending"  BY <1>5, <2>4 DEF Noted
  <2> QED  BY <2>2, <2>3, <2>4
<1> QED  BY <1>6, <1>7

LEMMA TInvStep == PInv /\ TInv /\ [Next]_vars => TInv'
<1> SUFFICES ASSUME PInv, TInv, [Next]_vars, open' PROVE Noted' /\ LastReads'
    BY DEF TInv
<1>0. open /\ Pipe /\ Noted /\ LastReads  BY ClosedKeeps DEF PInv, TInv
<1>1. ASSUME NEW i, NEW timer, response_not_possible_impl(i, FALSE, timer) PROVE FALSE
      BY <1>1 DEF response_not_possible_impl, shutdown_close
<1>2. ASSUME NEW i \in Requests, async_write(i) PROVE Noted' /\ LastReads'
  <2>1. /\ i # body /\ Write(responses, i, phase)
        /\ UNCHANGED <<responses, read, header, body, no_read_timeout_set,
                       close_after_response, read_timer, late, shutdown_read>>
        BY <1>2 DEF async_write, readVars, socketVars
  <2> QED  BY <1>0, <2>1, WriteReads
<1>3. ASSUME NEW i \in Requests, response_not_possible(i) PROVE Noted' /\ LastReads'
  <2>1. PICK replaced \in BOOLEAN :
           /\ replaced => body # i
           /\ response_not_possible_impl(i, replaced, write_timer)
        BY <1>3 DEF response_not_possible
  <2>2. replaced = TRUE  BY <1>1, <2>1
  <2>3. /\ i # body /\ Write(responses, i, phase) /\ UNCHANGED <<responses, socketVars>>
        /\ body' = IF IsLast(i) THEN 0 ELSE body
        BY <2>1, <2>2 DEF response_not_possible_impl
  <2>4. body' = body
    <3>1. body # 0 => ~IsLast(i)  BY <1>0, <2>3 DEF LastReads, IsLast
    <3> QED  BY <2>3, <3>1
  <2>5. UNCHANGED <<read, header, no_read_timeout_set, close_after_response, read_timer, late>>
        BY <1>3 DEF response_not_possible
  <2> QED  BY <1>0, <2>3, <2>4, <2>5, WriteReads DEF socketVars
<1>4. ASSUME NEW i \in Requests, write_ended(i) PROVE Noted' /\ LastReads'
  <2>0. /\ phase[i] = "writing" /\ Quiet
        /\ UNCHANGED <<read, header, no_read_timeout_set, close_after_response, late>>
        BY <1>4 DEF write_ended
  <2>1. CASE response_completed  BY <1>0, <2>0, <2>1, CompletedReads
  <2>2. CASE response_not_possible_impl(i, FALSE, FALSE)  BY <1>1, <2>2
  <2>3. CASE /\ phase' = [phase EXCEPT ![i] = "written"]
             /\ UNCHANGED <<responses, body, socketVars, read_timer>>
    <3>1. Noted'  BY <1>0, <2>0, <2>3 DEF Noted
    <3>2. ASSUME body # 0 PROVE phase'[body] = "started"
      <4>1. IsLast(body) /\ phase[body] = "started"  BY <1>0, <3>2 DEF LastReads
      <4>2. body \in Requests /\ phase \in [Requests -> Phases]
            BY <1>0, <4>1 DEF IsLast, Pipe, PipeType
      <4> QED  BY <2>0, <2>3, <4>1, <4>2
    <3> QED  BY <1>0, <2>0, <2>3, <3>1, <3>2 DEF LastReads, IsLast, socketVars
  <2> QED  BY <1>4, <2>1, <2>2, <2>3 DEF write_ended
<1>5. ASSUME handle_read PROVE Noted' /\ LastReads'
  <2>1. CASE response_not_possible_impl(body, FALSE, write_timer)  BY <1>1, <2>1
  <2>2. CASE /\ read' \in {"none", "parsing"} /\ body' \in {0, body}
             /\ UNCHANGED <<responses, phase, socketVars>>
    <3>1. read = "pending"  BY <1>5 DEF handle_read
    <3> QED  BY <1>0, <2>2, <3>1 DEF Noted, LastReads, IsLast, socketVars
  <2> QED  BY <1>5, <2>1, <2>2 DEF handle_read, pipeVars
<1>6. ASSUME body_read PROVE Noted' /\ LastReads'
  <2>1. /\ body # 0 /\ read # "none" /\ read' = "parsed" /\ body' = 0
        /\ UNCHANGED <<responses, shutdown_read>>
        BY <1>6 DEF body_read, pipeVars, socketVars
  <2> QED  BY <1>0, <2>1 DEF Noted, LastReads, IsLast
<1>7. ASSUME handle_request_header PROVE Noted' /\ LastReads'
  <2>1. /\ read # "none" /\ made < MaxRequests /\ body' \in {0, made + 1}
        /\ responses' = Append(responses, made + 1)
        /\ phase' = [phase EXCEPT ![made + 1] = "started"]
        /\ shutdown_read' = shutdown_read
        BY <1>7 DEF handle_request_header, socketVars
  <2>2. read' \in {"parsed", "none"}
        BY <1>7 DEF handle_request_header
  <2>3. PICK i : i = made + 1  OBVIOUS
  <2>4. PICK rs : rs = Append(responses, i)  OBVIOUS
  <2>5. i \in Requests /\ rs # <<>> /\ rs[Len(rs)] = i
        BY <1>0, <2>1, <2>3, <2>4, RequestFacts DEF PInv
  <2>6. phase'[i] = "started"
    <3>1. phase \in [Requests -> Phases]  BY <1>0 DEF Pipe, PipeType
    <3> QED  BY <2>1, <2>3, <2>5, <3>1
  <2> QED  BY <1>0, <2>1, <2>2, <2>3, <2>4, <2>5, <2>6 DEF Noted, LastReads, IsLast
<1>8. ASSUME start_throws PROVE Noted' /\ LastReads'
  <2>1. read' = "none" /\ body = 0 /\ body' = body  BY <1>8 DEF start_throws
  <2> QED  BY <2>1 DEF Noted, LastReads
<1>9. ASSUME issue_read PROVE Noted' /\ LastReads'
  <2>1. /\ read \in {"parsing", "parsed"} /\ read' = "pending"
        /\ UNCHANGED <<responses, phase, body, shutdown_read>>
        BY <1>9 DEF issue_read, pipeVars, socketVars
  <2>2. LastReads'  BY <1>0, <2>1 DEF LastReads, IsLast
  <2>3. header' \/ body # 0 \/ responses = <<>> => read_timer' = "read"
        BY <1>9 DEF issue_read
  <2>4. ~header' /\ body = 0 /\ responses # <<>> => no_read_timeout_set'
        BY <1>9 DEF issue_read
  <2>5. responses = <<>> => header'
    <3>1. responses = <<>> => body = 0 /\ read = "parsing"
          BY <1>0, <2>1 DEF LastReads, IsLast
    <3> QED  BY <1>9, <3>1 DEF issue_read
  <2> QED  BY <2>1, <2>2, <2>3, <2>4, <2>5 DEF Noted
<1>10. ASSUME TimeOut PROVE Noted' /\ LastReads'
  <2>1. expire  BY <1>10 DEF TimeOut, time_out, handle_keep_alive_timeout, shutdown_close
  <2>2. late' # {}  BY <2>1 DEF expire
  <2>3. UNCHANGED <<responses, phase, readVars, socketVars>>  BY <2>1 DEF expire, pipeVars
  <2> QED  BY <1>0, <2>2, <2>3 DEF Noted, LastReads, IsLast, readVars, socketVars
<1>11. CASE UNCHANGED vars
  <2>1. UNCHANGED <<responses, phase, readVars, socketVars, timerVars>>
        BY <1>11 DEF vars, pipeVars
  <2> QED  BY <1>0, <2>1 DEF Noted, LastReads, IsLast, readVars, socketVars, timerVars
<1> QED  BY <1>2, <1>3, <1>4, <1>5, <1>6, <1>7, <1>8, <1>9, <1>10, <1>11 DEF Next, Read

(* connection::issue_header_read() and response_completed(): an open       *)
(* connection that became idle has a timer that will close it, and is not  *)
(* one that should have been closed after the last response.               *)
THEOREM IdleConnectionsEnd == Spec => []IdleEnds
<1>1. TInv => IdleEnds  BY DEF TInv, Noted, IdleEnds
<1> QED  BY <1>1, PInvInit, PInvStep, TInvInit, TInvStep, PTL DEF Spec
=============================================================================
