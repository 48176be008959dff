----------------------------- MODULE RackProofs -----------------------------
(***************************************************************************)
(* The end of the server inside a Ruby process, for any set of requests:   *)
(* nothing is left in the ruby_land_queue, or in the I/O thread, when      *)
(* run() returns, and the Ruby thread never sleeps while there is work.    *)
(***************************************************************************)
EXTENDS Rack, SequenceTheorems, TLAPS

(* The Ruby thread is out of process_request(), or on its way. *)
Left == {"leaving", "shutting", "joining", "returned"}

Stopped == ruby \in Left => stop_flag /\ queue = <<>>

(* ruby_land_queue::wait(): no lost wake up.  The Ruby thread waits for a  *)
(* notification only while there is nothing to execute and nobody has      *)
(* asked it to stop.                                                       *)
SleepsIdle == ruby = "asleep" => ~stop_flag /\ queue = <<>>

TakenOut == ruby # "leaving" => last_data = <<>>

(* Who waits for the Ruby thread is stored, once, and nobody else is. *)
Stored ==
    /\ \A r \in Requests : at[r] = "queued" <=> r \in ToSet(queue) \cup ToSet(last_data)
    /\ \A i, j \in 1 .. Len(queue) : queue[i] = queue[j] => i = j

Executed ==
    /\ \A r \in Requests : at[r] = "running" => ruby = "running" /\ current = r
    /\ ruby = "running" => current \in Requests /\ at[current] = "running"

Placed ==
    \A r \in Requests :
        /\ at[r] \in {"reading", "lost"} => kind[r] = "app"
        /\ at[r] = "posted" => kind[r] = "subscribe"
        /\ at[r] \in {"answered", "dropped"} => kind[r] = "publish"

(* publish() blocks the I/O thread until its future is ready. *)
Blocks ==
    \A r \in Requests :
        kind[r] = "publish" /\ at[r] \in {"queued", "running", "answered", "dropped"} => io = r

(* The I/O thread ends after shut_down(), and then nothing is in flight. *)
Ended ==
    /\ ~listening => ruby \in {"joining", "returned"}
    /\ io = "ended" =>
         ~listening /\ \A r \in Requests : at[r] \notin {"reading", "writing", "posted"} /\ ~Lingers(r)
    /\ ruby = "returned" => io = "ended"

RInv ==
    /\ TypeOK /\ Stopped /\ SleepsIdle /\ TakenOut /\ Stored
    /\ Executed /\ Placed /\ Blocks /\ Ended

USE RackAssumption

-----------------------------------------------------------------------------
(* The elements of a queue. *)

LEMMA AppendElements ==
    ASSUME NEW s \in Seq(Requests), NEW r \in Requests
    PROVE  /\ Append(s, r) \in Seq(Requests)
           /\ ToSet(Append(s, r)) = ToSet(s) \cup {r}
           /\ r \notin ToSet(s) /\ (\A i, j \in 1 .. Len(s) : s[i] = s[j] => i = j) =>
                \A i, j \in 1 .. Len(Append(s, r)) : Append(s, r)[i] = Append(s, r)[j] => i = j
<1>1. /\ Append(s, r) \in Seq(Requests) /\ Len(s) \in Nat /\ Len(Append(s, r)) = Len(s) + 1
      /\ DOMAIN s = 1 .. Len(s) /\ DOMAIN Append(s, r) = 1 .. Len(s) + 1
      OBVIOUS
<1>2. \A i \in 1 .. Len(s) : Append(s, r)[i] = s[i]  OBVIOUS
<1>3. Append(s, r)[Len(s) + 1] = r  OBVIOUS
<1>4. ToSet(Append(s, r)) = ToSet(s) \cup {r}
  <2>1. ASSUME NEW x \in ToSet(Append(s, r)) PROVE x \in ToSet(s) \cup {r}
        BY <1>1, <1>2, <1>3 DEF ToSet
  <2>2. ASSUME NEW x \in ToSet(s) PROVE x \in ToSet(Append(s, r))
    <3>1. PICK i \in 1 .. Len(s) : x = s[i]  BY <1>1 DEF ToSet
    <3>2. i \in 1 .. Len(s) + 1 /\ x = Append(s, r)[i]  BY <1>1, <1>2, <3>1
    <3> QED  BY <1>1, <3>2 DEF ToSet
  <2>3. r \in ToSet(Append(s, r))
    <3>1. Len(s) + 1 \in DOMAIN Append(s, r)  BY <1>1
    <3> QED  BY <1>3, <3>1 DEF ToSet
  <2> QED  BY <2>1, <2>2, <2>3
<1>5. ASSUME r \notin ToSet(s), \A i, j \in 1 .. Len(s) : s[i] = s[j] => i = j,
             NEW i \in 1 .. Len(s) + 1, NEW j \in 1 .. Len(s) + 1,
             Append(s, r)[i] = Append(s, r)[j]
      PROVE  i = j
  <2>1. \A k \in 1 .. Len(s) : s[k] # r  BY <1>1, <1>5 DEF ToSet
  <2>2. CASE i \in 1 .. Len(s) /\ j \in 1 .. Len(s)  BY <1>2, <1>5, <2>2
  <2>3. CASE i \in 1 .. Len(s) /\ j = Len(s) + 1  BY <1>2, <1>3, <1>5, <2>1, <2>3
  <2>4. CASE i = Len(s) + 1 /\ j \in 1 .. Len(s)  BY <1>2, <1>3, <1>5, <2>1, <2>4
  <2> QED  BY <1>1, <2>2, <2>3, <2>4
<1> QED  BY <1>1, <1>4, <1>5

LEMMA EmptyElements == ToSet(<<>>) = {}
BY DEF ToSet

LEMMA TailElements ==
    ASSUME NEW s \in Seq(Requests), s # <<>>,
           \A i, j \in 1 .. Len(s) : s[i] = s[j] => i = j
    PROVE  /\ Head(s) \in Requests /\ Tail(s) \in Seq(Requests)
           /\ ToSet(Tail(s)) = ToSet(s) \ {Head(s)} /\ Head(s) \in ToSet(s)
           /\ \A i, j \in 1 .. Len(Tail(s)) : Tail(s)[i] = Tail(s)[j] => i = j
<1>1. /\ Head(s) \in Requests /\ Tail(s) \in Seq(Requests) /\ Len(Tail(s)) = Len(s) - 1
      /\ \A i \in 1 .. Len(Tail(s)) : Tail(s)[i] = s[i + 1]
      BY HeadTailProperties
<1>2. /\ Len(s) \in Nat \ {0} /\ Head(s) = s[1]
      /\ DOMAIN s = 1 .. Len(s) /\ DOMAIN Tail(s) = 1 .. Len(Tail(s))
      BY <1>1, EmptySeq, LenProperties
<1>3. ASSUME NEW x \in ToSet(Tail(s)) PROVE x \in ToSet(s) /\ x # Head(s)
  <2>1. PICK i \in 1 .. Len(Tail(s)) : x = Tail(s)[i]  BY <1>2 DEF ToSet
  <2>2. i + 1 \in 1 .. Len(s) /\ i + 1 # 1 /\ x = s[i + 1] /\ 1 \in 1 .. Len(s)
        BY <1>1, <1>2, <2>1
  <2> QED  BY <1>2, <2>2 DEF ToSet
<1>4. ASSUME NEW x \in ToSet(s), x # Head(s) PROVE x \in ToSet(Tail(s))
  <2>1. PICK i \in 1 .. Len(s) : x = s[i]  BY <1>2 DEF ToSet
  <2>2. i - 1 \in 1 .. Len(Tail(s)) /\ Tail(s)[i - 1] = s[i]  BY <1>1, <1>2, <1>4, <2>1
  <2> QED  BY <1>2, <2>1, <2>2 DEF ToSet
<1>5. Head(s) \in ToSet(s)
  <2>1. 1 \in DOMAIN s  BY <1>2
  <2> QED  BY <1>2, <2>1 DEF ToSet
<1>6. ASSUME NEW i \in 1 .. Len(Tail(s)), NEW j \in 1 .. Len(Tail(s)), Tail(s)[i] = Tail(s)[j]
      PROVE  i = j
  <2>1. i + 1 \in 1 .. Len(s) /\ j + 1 \in 1 .. Len(s)  BY <1>1, <1>2
  <2>2. s[i + 1] = s[j + 1]  BY <1>1, <1>6
  <2>3. i + 1 = j + 1  BY <2>1, <2>2
  <2> QED  BY <2>3
<1>7. ToSet(Tail(s)) = ToSet(s) \ {Head(s)}  BY <1>3, <1>4
<1> QED  BY <1>1, <1>5, <1>6, <1>7

-----------------------------------------------------------------------------
(* What the steps have in common: the part of RInv about the queue and the *)
(* Ruby thread.                                                            *)

Places == {"none", "reading", "queued", "running", "posted", "answered", "writing",
           "completed", "closed", "settled", "lost", "dropped"}

QueueInv ==
    /\ queue \in Seq(Requests) /\ last_data \in Seq(Requests)
    /\ at \in [Requests -> Places] /\ stop_flag \in BOOLEAN
    /\ ruby \in Left \cup {"woken", "asleep", "running"}
    /\ current \in Requests \cup {None}
    /\ Stopped /\ SleepsIdle /\ TakenOut /\ Stored /\ Executed

(* The rest of it, about the I/O thread. *)
IoInv ==
    /\ listening \in BOOLEAN /\ kept \in BOOLEAN /\ left \in SUBSET Requests
    /\ io \in Requests \cup {"idle", "ended"}
    /\ kind \in [Requests -> Kinds \cup {"none"}] /\ step \in [Requests -> Steps]
    /\ Placed /\ Blocks /\ Ended

LEMMA Parts == RInv <=> QueueInv /\ IoInv
BY DEF RInv, QueueInv, IoInv, TypeOK, Places, Left

(* push() stores the call back and wakes the Ruby thread, or does nothing  *)
(* but leave the request where it ends.                                    *)
LEMMA PushKeeps ==
    ASSUME QueueInv, NEW r \in Requests, NEW otherwise \in {"closed", "dropped", "settled"},
           at[r] \notin {"queued", "running"}, push(r, otherwise),
           UNCHANGED <<stop_flag, current, last_data>>
    PROVE  /\ QueueInv'
           /\ at'[r] \in {"queued", otherwise} /\ \A q \in Requests \ {r} : at'[q] = at[q]
           /\ ruby \in Left => ruby' = ruby
           /\ ruby' \in Left => ruby' = ruby
<1>1. CASE stop_flag
  <2>1. at' = [at EXCEPT ![r] = otherwise] /\ UNCHANGED <<queue, ruby>>  BY <1>1 DEF push
  <2>2. at' \in [Requests -> Places]  BY <2>1 DEF QueueInv, Places
  <2>3. Stored'  BY <2>1 DEF QueueInv, Stored
  <2>4. Executed'  BY <2>1 DEF QueueInv, Executed
  <2> QED  BY <2>1, <2>2, <2>3, <2>4 DEF QueueInv, Stopped, SleepsIdle, TakenOut
<1>2. CASE ~stop_flag
  <2>1. at' = [at EXCEPT ![r] = "queued"] /\ queue' = Append(queue, r) /\ ruby' = notify(ruby)
        BY <1>2 DEF push
  <2>2. at' \in [Requests -> Places]  BY <2>1 DEF QueueInv, Places
  <2>3. ruby' \in {"woken", "running"} /\ ruby \in {"woken", "asleep", "running"}
        /\ (ruby = "running" <=> ruby' = "running")
        BY <1>2, <2>1 DEF QueueInv, Stopped, notify, Left
  <2>4. r \notin ToSet(queue)  BY DEF QueueInv, Stored
  <2>5. /\ queue' \in Seq(Requests) /\ ToSet(queue') = ToSet(queue) \cup {r}
        /\ \A i, j \in 1 .. Len(queue') : queue'[i] = queue'[j] => i = j
        BY <2>1, <2>4, AppendElements DEF QueueInv, Stored
  <2>6. Stored'  BY <2>1, <2>5 DEF QueueInv, Stored
  <2>7. Executed'  BY <2>1, <2>3 DEF QueueInv, Executed
  <2>8. TakenOut'  BY <2>3 DEF QueueInv, TakenOut
  <2>9. Stopped' /\ SleepsIdle' /\ ruby' \notin Left /\ ruby \notin Left
        BY <2>3 DEF Stopped, SleepsIdle, Left
  <2> QED  BY <2>1, <2>2, <2>3, <2>5, <2>6, <2>7, <2>8, <2>9 DEF QueueInv
<1> QED  BY <1>1, <1>2 DEF QueueInv

(* A request that does not wait for the Ruby thread goes on in the I/O     *)
(* thread.                                                                 *)
LEMMA MoveKeeps ==
    ASSUME QueueInv, NEW r \in Requests, at[r] \notin {"queued", "running"},
           NEW place \in Places \ {"queued", "running"},
           at' = [at EXCEPT ![r] = place], UNCHANGED <<queueVars, rubyVars>>
    PROVE  QueueInv' /\ at'[r] = place /\ \A q \in Requests \ {r} : at'[q] = at[q]
<1>1. at' \in [Requests -> Places]  BY DEF QueueInv
<1>2. Stored'  BY DEF QueueInv, Stored, queueVars, rubyVars
<1>3. Executed'  BY DEF QueueInv, Executed, queueVars, rubyVars
<1> QED  BY <1>1, <1>2, <1>3 DEF QueueInv, Stopped, SleepsIdle, TakenOut, queueVars, rubyVars

(* The call back in execution returns. *)
LEMMA ReturnKeeps ==
    ASSUME RInv, NEW r \in Requests, NEW stop \in BOOLEAN,
           NEW place \in {"writing", "closed", "answered", "posted", "settled"},
           Return(r, place, stop), step' \in [Requests -> Steps],
           place = "answered" => kind[r] = "publish",
           place = "posted" => kind[r] = "subscribe"
    PROVE  RInv'
<1>0. QueueInv /\ IoInv  BY Parts
<1>1. at[r] = "running" /\ ruby = "running" /\ ruby' = "woken" /\ listening
      BY <1>0 DEF Return, QueueInv, Executed, IoInv, Ended
<1>2. at' = [at EXCEPT ![r] = place] /\ at' \in [Requests -> Places]
      BY <1>0 DEF Return, QueueInv, Places
<1>3. Stored'  BY <1>0, <1>1, <1>2 DEF Return, QueueInv, Stored
<1>4. Executed'  BY <1>0, <1>1, <1>2 DEF Return, QueueInv, Executed
<1>5. Stopped' /\ SleepsIdle'  BY <1>1 DEF Stopped, SleepsIdle, Left
<1>6. TakenOut'  BY <1>0, <1>1 DEF QueueInv, TakenOut, Return
<1>7. stop_flag' \in BOOLEAN  BY <1>0 DEF Return, QueueInv
<1>8. QueueInv'
      BY <1>0, <1>1, <1>2, <1>3, <1>4, <1>5, <1>6, <1>7 DEF QueueInv, Return
<1>9. Placed'  BY <1>0, <1>2 DEF IoInv, Placed, Return, QueueInv
<1>10. Blocks'
  <2> SUFFICES ASSUME NEW q \in Requests, kind'[q] = "publish",
                      at'[q] \in {"queued", "running", "answered", "dropped"}
               PROVE  io' = q
      BY DEF Blocks
  <2>1. kind[q] = "publish" /\ at[q] \in {"queued", "running", "answered", "dropped"}
        BY <1>0, <1>1, <1>2 DEF Return, QueueInv
  <2> QED  BY <1>0, <2>1 DEF Return, IoInv, Blocks
<1>11. Ended'
  <2>1. listening' /\ io' # "ended" /\ ruby' # "returned"
        BY <1>0, <1>1 DEF Return, IoInv, Ended
  <2> QED  BY <2>1 DEF Ended
<1>12. IoInv'  BY <1>0, <1>9, <1>10, <1>11 DEF IoInv, Return
<1> QED  BY <1>8, <1>12, Parts, PTL

-----------------------------------------------------------------------------
(* The actions of the Ruby thread. *)

LEMMA LoopKeeps ==
    ASSUME RInv, Loop
    PROVE  RInv'
<1>0. QueueInv /\ IoInv /\ ruby = "woken" /\ listening /\ last_data = <<>>
      BY Parts DEF Loop, QueueInv, TakenOut, IoInv, Ended
<1>1. ToSet(<<>>) = {} /\ <<>> \in Seq(Requests)  BY EmptyElements, EmptySeq
<1>2. CASE /\ stop_flag
           /\ ruby' = "leaving" /\ last_data' = queue /\ queue' = <<>> /\ current' = None
           /\ UNCHANGED at
  <2>1. Stored'  BY <1>0, <1>1, <1>2 DEF QueueInv, Stored
  <2>2. Executed'  BY <1>0, <1>2 DEF QueueInv, Executed
  <2>3. Stopped' /\ SleepsIdle' /\ TakenOut'
        BY <1>2 DEF Stopped, SleepsIdle, TakenOut, Left, Loop
  <2>4. QueueInv'  BY <1>0, <1>1, <1>2, <2>1, <2>2, <2>3 DEF QueueInv, Loop, Left
  <2>5. Placed' /\ Blocks' /\ Ended'  BY <1>0, <1>2 DEF IoInv, Placed, Blocks, Ended, Lingers, Loop
  <2>6. IoInv'  BY <1>0, <2>5 DEF IoInv, Loop
  <2> QED  BY <2>4, <2>6, Parts, PTL
<1>3. CASE /\ ~stop_flag /\ queue # <<>>
           /\ ruby' = "running" /\ current' = Head(queue) /\ queue' = Tail(queue)
           /\ at' = [at EXCEPT ![Head(queue)] = "running"]
           /\ UNCHANGED last_data
  <2>1. /\ Head(queue) \in Requests /\ queue' \in Seq(Requests) /\ Head(queue) \in ToSet(queue)
        /\ ToSet(queue') = ToSet(queue) \ {Head(queue)}
        /\ \A i, j \in 1 .. Len(queue') : queue'[i] = queue'[j] => i = j
        BY <1>0, <1>3, TailElements DEF QueueInv, Stored
  <2>2. at[Head(queue)] = "queued" /\ at' \in [Requests -> Places]
        BY <1>0, <1>3, <2>1 DEF QueueInv, Stored, Places
  <2>3. Stored'
    <3>1. ASSUME NEW q \in Requests
          PROVE  at'[q] = "queued" <=> q \in ToSet(queue') \cup ToSet(last_data')
      <4>1. CASE q = Head(queue)
            BY <1>0, <1>1, <1>3, <2>1, <4>1 DEF QueueInv
      <4>2. CASE q # Head(queue)
            BY <1>0, <1>1, <1>3, <2>1, <4>2 DEF QueueInv, Stored
      <4> QED  BY <4>1, <4>2
    <3> QED  BY <2>1, <3>1 DEF Stored
  <2>4. Executed'  BY <1>0, <1>3, <2>1 DEF QueueInv, Executed
  <2>5. Stopped' /\ SleepsIdle' /\ TakenOut'
        BY <1>0, <1>3 DEF Stopped, SleepsIdle, TakenOut, Left
  <2>6. QueueInv'
        BY <1>0, <1>1, <1>3, <2>1, <2>2, <2>3, <2>4, <2>5 DEF QueueInv, Loop
  <2>7. Placed'  BY <1>0, <1>3, <2>1 DEF IoInv, QueueInv, Placed, Loop
  <2>8. Blocks'
    <3> SUFFICES ASSUME NEW q \in Requests, kind'[q] = "publish",
                        at'[q] \in {"queued", "running", "answered", "dropped"}
                 PROVE  io' = q
        BY DEF Blocks
    <3>1. kind[q] = "publish" /\ at[q] \in {"queued", "running", "answered", "dropped"}
          BY <1>0, <1>3, <2>1, <2>2 DEF Loop, QueueInv
    <3> QED  BY <1>0, <3>1 DEF Loop, IoInv, Blocks
  <2>9. Ended'  BY <1>0, <1>3 DEF IoInv, Ended, Lingers, Loop
  <2>10. IoInv'  BY <1>0, <2>7, <2>8, <2>9 DEF IoInv, Loop
  <2> QED  BY <2>6, <2>10, Parts, PTL
<1>4. CASE /\ ~stop_flag /\ queue = <<>>
           /\ ruby' = "asleep" /\ current' = None
           /\ UNCHANGED <<queue, last_data, at>>
  <2>1. Stored' /\ Executed'  BY <1>0, <1>4 DEF QueueInv, Stored, Executed
  <2>2. Stopped' /\ SleepsIdle' /\ TakenOut'
        BY <1>0, <1>4 DEF Stopped, SleepsIdle, TakenOut, Left, Loop
  <2>3. QueueInv'  BY <1>0, <1>4, <2>1, <2>2 DEF QueueInv, Loop
  <2>4. Placed' /\ Blocks' /\ Ended'  BY <1>0, <1>4 DEF IoInv, Placed, Blocks, Ended, Lingers, Loop
  <2>5. IoInv'  BY <1>0, <2>4 DEF IoInv, Loop
  <2> QED  BY <2>3, <2>5, Parts, PTL
<1> QED  BY <1>2, <1>3, <1>4 DEF Loop, process_request

LEMMA InterruptKeeps ==
    ASSUME RInv, Interrupt
    PROVE  RInv'
<1>0. QueueInv /\ IoInv  BY Parts
<1>1. ruby' = "woken" /\ ruby \in {"asleep", "woken"} /\ stop_flag'
      BY DEF Interrupt, notify
<1>2. Stored' /\ Executed'  BY <1>0, <1>1 DEF QueueInv, Stored, Executed, Interrupt
<1>3. Stopped' /\ SleepsIdle' /\ TakenOut'
      BY <1>0, <1>1 DEF QueueInv, Stopped, SleepsIdle, TakenOut, Left, Interrupt
<1>4. QueueInv'  BY <1>0, <1>1, <1>2, <1>3 DEF QueueInv, Interrupt
<1>5. Placed' /\ Blocks' /\ Ended'
      BY <1>0, <1>1 DEF IoInv, Placed, Blocks, Ended, Lingers, Interrupt
<1>6. IoInv'  BY <1>0, <1>5 DEF IoInv, Interrupt
<1> QED  BY <1>4, <1>6, Parts, PTL

LEMMA DiscardKeeps ==
    ASSUME RInv, Discard
    PROVE  RInv'
<1>0. QueueInv /\ IoInv /\ ruby = "leaving" /\ ruby' = "shutting" /\ queue = <<>> /\ listening
      BY Parts DEF Discard, QueueInv, Stopped, IoInv, Ended, Left
<1>1. ToSet(<<>>) = {} /\ <<>> \in Seq(Requests)  BY EmptyElements, EmptySeq
<1>2. \A r \in Requests : at[r] = "queued" <=> r \in ToSet(last_data)
      BY <1>0, <1>1 DEF QueueInv, Stored
<1>3. \A r \in Requests : r \notin ToSet(last_data) => at'[r] = at[r]
      BY DEF Discard
<1>4. ASSUME NEW r \in Requests, r \in ToSet(last_data)
      PROVE  /\ kind[r] = "app" => at'[r] = "lost"
             /\ kind[r] = "publish" => at'[r] = "dropped"
             /\ kind[r] \notin {"app", "publish"} => at'[r] = "settled"
      BY <1>4 DEF Discard
<1>5. at' \in [Requests -> Places]
  <2>1. \A r \in Requests : at'[r] \in Places  BY <1>0, <1>3, <1>4 DEF QueueInv, Places
  <2>2. at' = [r \in Requests |-> at'[r]]  BY DEF Discard
  <2> QED  BY <2>1, <2>2
<1>6. Stored'
  <2>1. \A r \in Requests : at'[r] # "queued"  BY <1>2, <1>3, <1>4
  <2>2. queue' = <<>> /\ last_data' = <<>>  BY <1>0 DEF Discard
  <2>3. \A i, j \in 1 .. Len(queue') : queue'[i] = queue'[j] => i = j  BY <2>2
  <2> QED  BY <1>1, <2>1, <2>2, <2>3 DEF Stored
<1>7. Executed'
  <2>1. \A r \in Requests : at'[r] # "running"
        BY <1>0, <1>3, <1>4 DEF QueueInv, Executed
  <2> QED  BY <1>0, <2>1 DEF Executed
<1>8. Stopped' /\ SleepsIdle' /\ TakenOut'
      BY <1>0 DEF QueueInv, Stopped, SleepsIdle, TakenOut, Left, Discard
<1>9. QueueInv'
      BY <1>0, <1>1, <1>5, <1>6, <1>7, <1>8 DEF QueueInv, Discard, Left
<1>10. Placed'  BY <1>0, <1>3, <1>4 DEF IoInv, Placed, Discard
<1>11. Blocks'
  <2> SUFFICES ASSUME NEW q \in Requests, kind'[q] = "publish",
                      at'[q] \in {"queued", "running", "answered", "dropped"}
               PROVE  io' = q
      BY DEF Blocks
  <2>1. kind[q] = "publish" /\ at[q] \in {"queued", "running", "answered", "dropped"}
        BY <1>2, <1>3 DEF Discard
  <2> QED  BY <1>0, <2>1 DEF Discard, IoInv, Blocks
<1>12. Ended'  BY <1>0 DEF IoInv, Ended, Discard
<1>13. IoInv'  BY <1>0, <1>10, <1>11, <1>12 DEF IoInv, Discard
<1> QED  BY <1>9, <1>13, Parts, PTL

(* server_.shut_down() and the return from run(). *)
LEMMA EndKeeps ==
    ASSUME RInv, ShutDown \/ Join
    PROVE  RInv'
<1>0. QueueInv /\ IoInv  BY Parts
<1>1. /\ ruby \in {"shutting", "joining"} /\ ruby' \in {"joining", "returned"}
      /\ UNCHANGED <<queue, last_data, at, stop_flag, current, io, kind, step, kept, left>>
      BY DEF ShutDown, Join
<1>2. Stored' /\ Executed'  BY <1>0, <1>1 DEF QueueInv, Stored, Executed
<1>3. Stopped' /\ SleepsIdle' /\ TakenOut'
      BY <1>0, <1>1 DEF QueueInv, Stopped, SleepsIdle, TakenOut, Left
<1>4. QueueInv'  BY <1>0, <1>1, <1>2, <1>3 DEF QueueInv, Left
<1>5. Placed' /\ Blocks'  BY <1>0, <1>1 DEF IoInv, Placed, Blocks
<1>6. Ended'  BY <1>0, <1>1 DEF IoInv, Ended, Lingers, ShutDown, Join
<1>7. IoInv'  BY <1>0, <1>1, <1>5, <1>6 DEF IoInv, ShutDown, Join
<1> QED  BY <1>4, <1>7, Parts, PTL

LEMMA ExecutesKeeps ==
    ASSUME RInv, NEW r \in Requests, Executes(r)
    PROVE  RInv'
<1>0. step \in [Requests -> Steps]  BY DEF RInv, TypeOK
<1>1. CASE call_application(r)
  <2>1. PICK result \in call_rack_application :
             Return(r, IF result.answer THEN "writing" ELSE "closed", result.stop)
        BY <1>1 DEF call_application
  <2>2. \/ result = [answer |-> TRUE, stop |-> FALSE]
        \/ result = [answer |-> FALSE, stop |-> FALSE]
        \/ result = [answer |-> FALSE, stop |-> TRUE]
        BY DEF call_rack_application
  <2>3. step' \in [Requests -> Steps]  BY <1>0, <1>1 DEF call_application
  <2>4. CASE result = [answer |-> TRUE, stop |-> FALSE]
    <3>1. Return(r, "writing", FALSE)  BY <2>1, <2>4
    <3> QED  BY <2>3, <3>1, ReturnKeeps
  <2>5. CASE result = [answer |-> FALSE, stop |-> FALSE]
    <3>1. Return(r, "closed", FALSE)  BY <2>1, <2>5
    <3> QED  BY <2>3, <3>1, ReturnKeeps
  <2>6. CASE result = [answer |-> FALSE, stop |-> TRUE]
    <3>1. Return(r, "closed", TRUE)  BY <2>1, <2>6
    <3> QED  BY <2>3, <3>1, ReturnKeeps
  <2> QED  BY <2>2, <2>4, <2>5, <2>6
<1>2. CASE publish_impl(r)  BY <1>0, <1>2, ReturnKeeps DEF publish_impl
<1>3. CASE validate_node_impl(r)
  <2>1. step' \in [Requests -> Steps]  BY <1>0, <1>3 DEF validate_node_impl, Steps
  <2> QED  BY <1>3, <2>1, ReturnKeeps DEF validate_node_impl
<1>4. CASE authorize_impl(r)
  <2>1. step' \in [Requests -> Steps]  BY <1>0, <1>4 DEF authorize_impl, Steps
  <2> QED  BY <1>4, <2>1, ReturnKeeps DEF authorize_impl
<1>5. CASE node_init_impl(r)  BY <1>0, <1>5, ReturnKeeps DEF node_init_impl
<1> QED  BY <1>1, <1>2, <1>3, <1>4, <1>5 DEF Executes

-----------------------------------------------------------------------------
(* The actions of the I/O thread. *)

LEMMA KeptKeeps ==
    ASSUME RInv, handler_connect \/ KeepAliveTimeout \/ UNCHANGED vars \/ \E r \in Requests : handle_read(r)
    PROVE  RInv'
<1>0. QueueInv /\ IoInv  BY Parts
<1>1. UNCHANGED <<queue, last_data, at, stop_flag, ruby, current, io, kind, step, listening>>
      BY DEF handler_connect, KeepAliveTimeout, handle_read, vars, queueVars, rubyVars
<1>2. kept' \in BOOLEAN /\ left' \in SUBSET Requests /\ left \subseteq left'
      BY <1>0 DEF IoInv, handler_connect, KeepAliveTimeout, handle_read, vars
<1>3. QueueInv'
      BY <1>0, <1>1 DEF QueueInv, Stored, Executed, Stopped, SleepsIdle, TakenOut
<1>4. IoInv'  BY <1>0, <1>1, <1>2 DEF IoInv, Placed, Blocks, Ended, Lingers
<1> QED  BY <1>3, <1>4, Parts, PTL

LEMMA run_queueKeeps ==
    ASSUME RInv, run_queue
    PROVE  RInv'
<1>0. QueueInv /\ IoInv  BY Parts
<1>1. /\ UNCHANGED <<queue, last_data, at, stop_flag, ruby, current, kind, step, listening, kept, left>>
      /\ io = "idle" /\ io' = "ended"
      BY DEF run_queue, queueVars, rubyVars
<1>2. QueueInv'
      BY <1>0, <1>1 DEF QueueInv, Stored, Executed, Stopped, SleepsIdle, TakenOut
<1>3. Blocks'  BY <1>0, <1>1 DEF IoInv, Blocks
<1>4. IoInv'  BY <1>0, <1>1, <1>3 DEF IoInv, Placed, Ended, Lingers, run_queue
<1> QED  BY <1>2, <1>4, Parts, PTL

(* While the I/O thread is not blocked, what it does about a request keeps *)
(* what concerns the I/O thread.                                           *)
LEMMA IdleStepKeeps ==
    ASSUME IoInv, io = "idle", NEW r \in Requests,
           \A q \in Requests \ {r} : at'[q] = at[q],
           kind' \in [Requests -> Kinds \cup {"none"}],
           \A q \in Requests \ {r} : kind'[q] = kind[q],
           at'[r] \in {"reading", "lost"} => kind'[r] = "app",
           at'[r] = "posted" => kind'[r] = "subscribe",
           at'[r] \in {"answered", "dropped"} => kind'[r] = "publish",
           kind'[r] = "publish" /\ at'[r] \in {"queued", "running", "answered", "dropped"} => io' = r,
           io' \in {"idle", r}, kept' \in BOOLEAN,
           ruby \in Left => ruby' = ruby, ruby' \in Left => ruby' = ruby,
           UNCHANGED <<step, listening, left>>
    PROVE  IoInv'
<1>1. Placed'  BY DEF IoInv, Placed
<1>2. Blocks'  BY DEF IoInv, Blocks
<1>3. Ended'  BY DEF IoInv, Ended, Left
<1> QED  BY <1>1, <1>2, <1>3 DEF IoInv

LEMMA create_responseKeeps ==
    ASSUME RInv, NEW r \in Requests, NEW k \in Kinds, create_response(r, k)
    PROVE  RInv'
<1>0. QueueInv /\ IoInv /\ io = "idle" /\ at[r] = "none"  BY Parts DEF create_response, Arrives
<1>1. /\ kept' \in BOOLEAN /\ UNCHANGED <<stop_flag, current, last_data, step, listening, left>>
      /\ kind' \in [Requests -> Kinds \cup {"none"}] /\ kind'[r] = k
      /\ \A q \in Requests \ {r} : kind'[q] = kind[q]
      BY <1>0 DEF create_response, Arrives, IoInv
<1>2. CASE /\ k = "app" /\ UNCHANGED io
           /\ at' = [at EXCEPT ![r] = "reading"] /\ UNCHANGED <<queue, ruby>>
  <2>1. QueueInv' /\ at'[r] = "reading" /\ \A q \in Requests \ {r} : at'[q] = at[q]
        BY <1>0, <1>1, <1>2, MoveKeeps DEF queueVars, rubyVars, Places
  <2>2. IoInv'  BY <1>0, <1>1, <1>2, <2>1, IdleStepKeeps
  <2> QED  BY <2>1, <2>2, Parts, PTL
<1>3. CASE k = "app" /\ UNCHANGED io /\ push(r, "closed")
  <2>1. /\ QueueInv' /\ at'[r] \in {"queued", "closed"} /\ \A q \in Requests \ {r} : at'[q] = at[q]
        /\ (ruby \in Left => ruby' = ruby) /\ (ruby' \in Left => ruby' = ruby)
        BY <1>0, <1>1, <1>3, PushKeeps
  <2>2. IoInv'  BY <1>0, <1>1, <1>3, <2>1, IdleStepKeeps
  <2> QED  BY <2>1, <2>2, Parts, PTL
<1>4. CASE k = "publish" /\ publish(r)
  <2>1. /\ QueueInv' /\ at'[r] \in {"queued", "dropped"} /\ \A q \in Requests \ {r} : at'[q] = at[q]
        /\ (ruby \in Left => ruby' = ruby) /\ (ruby' \in Left => ruby' = ruby)
        BY <1>0, <1>1, <1>4, PushKeeps DEF publish
  <2>2. io' = r  BY <1>4 DEF publish
  <2>3. IoInv'  BY <1>0, <1>1, <1>4, <2>1, <2>2, IdleStepKeeps
  <2> QED  BY <2>1, <2>3, Parts, PTL
<1>5. CASE k = "subscribe" /\ validate_node(r)
  <2>1. /\ QueueInv' /\ at'[r] \in {"queued", "settled"} /\ \A q \in Requests \ {r} : at'[q] = at[q]
        /\ (ruby \in Left => ruby' = ruby) /\ (ruby' \in Left => ruby' = ruby)
        BY <1>0, <1>1, <1>5, PushKeeps DEF validate_node
  <2>2. io' = io  BY <1>5 DEF validate_node
  <2>3. IoInv'  BY <1>0, <1>1, <1>5, <2>1, <2>2, IdleStepKeeps
  <2> QED  BY <2>1, <2>3, Parts, PTL
<1> QED  BY <1>2, <1>3, <1>4, <1>5 DEF create_response, start

LEMMA not_foundKeeps ==
    ASSUME RInv, NEW r \in Requests, not_found(r)
    PROVE  RInv'
<1>0. QueueInv /\ IoInv /\ io = "idle" /\ at[r] = "none"  BY Parts DEF not_found, Arrives
<1>1. /\ kept' \in BOOLEAN /\ UNCHANGED <<step, listening, left, io, ruby>>
      /\ kind' \in [Requests -> Kinds \cup {"none"}]
      /\ \A q \in Requests \ {r} : kind'[q] = kind[q]
      BY <1>0 DEF not_found, Arrives, IoInv, Kinds, rubyVars
<1>2. QueueInv' /\ at'[r] = "writing" /\ \A q \in Requests \ {r} : at'[q] = at[q]
      BY <1>0, MoveKeeps DEF not_found, Places
<1>3. IoInv'  BY <1>0, <1>1, <1>2, IdleStepKeeps
<1> QED  BY <1>2, <1>3, Parts, PTL

LEMMA HandlesKeeps ==
    ASSUME RInv, NEW r \in Requests, Handles(r)
    PROVE  RInv'
<1>0. QueueInv /\ IoInv  BY Parts
<1>1. ASSUME io = "idle", at[r] = "reading", push(r, "closed"),
             UNCHANGED <<stop_flag, current, last_data, kind, step, io, listening, kept, left>>
      PROVE  RInv'
  <2>1. /\ QueueInv' /\ at'[r] \in {"queued", "closed"} /\ \A q \in Requests \ {r} : at'[q] = at[q]
        /\ (ruby \in Left => ruby' = ruby) /\ (ruby' \in Left => ruby' = ruby)
        BY <1>0, <1>1, PushKeeps
  <2>2. kind[r] = "app"  BY <1>0, <1>1 DEF IoInv, Placed
  <2>3. IoInv'  BY <1>0, <1>1, <2>1, <2>2, IdleStepKeeps DEF IoInv
  <2> QED  BY <2>1, <2>3, Parts, PTL
<1>2. ASSUME io = "idle", at[r] \in {"reading", "writing"},
             NEW place \in {"closed", "completed"}, at' = [at EXCEPT ![r] = place], kept' \in BOOLEAN,
             UNCHANGED <<queueVars, rubyVars, kind, step, io, listening, left>>
      PROVE  RInv'
  <2>1. QueueInv' /\ at'[r] = place /\ \A q \in Requests \ {r} : at'[q] = at[q]
        BY <1>0, <1>2, MoveKeeps DEF Places
  <2>2. UNCHANGED <<ruby, kind, step, io, listening, left>>  BY <1>2 DEF rubyVars
  <2>3. IoInv'  BY <1>0, <1>2, <2>1, <2>2, IdleStepKeeps DEF IoInv
  <2> QED  BY <2>1, <2>3, Parts, PTL
<1>3. CASE body_read_handler(r)
      BY <1>0, <1>1, <1>2, <1>3 DEF body_read_handler, IoInv, queueVars, rubyVars
<1>4. CASE response_write_handler(r)
      BY <1>0, <1>2, <1>4 DEF response_write_handler, IoInv
<1>5. CASE AskAdapter(r)
  <2>0. io = "idle" /\ at[r] = "posted" /\ kind[r] = "subscribe" /\ UNCHANGED <<kind, io, kept, step, listening, left>>
        BY <1>0, <1>5 DEF AskAdapter, IoInv, Placed
  <2>1. /\ QueueInv' /\ at'[r] \in {"queued", "settled"} /\ \A q \in Requests \ {r} : at'[q] = at[q]
        /\ (ruby \in Left => ruby' = ruby) /\ (ruby' \in Left => ruby' = ruby)
        BY <1>0, <1>5, PushKeeps DEF AskAdapter
  <2>2. IoInv'  BY <1>0, <2>0, <2>1, IdleStepKeeps DEF IoInv
  <2> QED  BY <2>1, <2>2, Parts, PTL
<1>6. CASE FutureReady(r)
  <2>0. /\ io = r /\ at[r] = "answered" /\ io' = "idle"
        /\ UNCHANGED <<ruby, kind, step, listening, kept, left>>
        BY <1>6 DEF FutureReady, rubyVars
  <2>1. QueueInv' /\ at'[r] = "writing" /\ \A q \in Requests \ {r} : at'[q] = at[q]
        BY <1>0, <1>6, MoveKeeps DEF FutureReady, Places
  <2>2. Placed' /\ Blocks'  BY <1>0, <2>0, <2>1 DEF IoInv, Placed, Blocks
  <2>3. Ended'  BY <1>0, <2>0 DEF IoInv, Ended
  <2>4. IoInv'  BY <1>0, <2>0, <2>2, <2>3 DEF IoInv
  <2> QED  BY <2>1, <2>4, Parts, PTL
<1> QED  BY <1>3, <1>4, <1>5, <1>6 DEF Handles

-----------------------------------------------------------------------------
LEMMA RackInvariant == Spec => []RInv
<1>1. Init => RInv
  <2> SUFFICES ASSUME Init PROVE RInv  OBVIOUS
  <2>1. TypeOK  BY EmptySeq DEF Init, TypeOK, Steps
  <2>2. Stored  BY EmptyElements DEF Init, Stored
  <2> QED  BY <2>1, <2>2
           DEF Init, RInv, Stopped, SleepsIdle, TakenOut, Executed, Placed, Blocks, Ended, Left
<1>2. RInv /\ [Next]_vars => RInv'
      BY LoopKeeps, InterruptKeeps, DiscardKeeps, EndKeeps, ExecutesKeeps, KeptKeeps,
         run_queueKeeps, create_responseKeeps, not_foundKeeps, HandlesKeeps DEF Next
<1> QED  BY <1>1, <1>2, PTL DEF Spec

(* Every variable of the two threads has its type. *)
THEOREM RackTypes == Spec => []TypeOK
BY RackInvariant, PTL DEF RInv

(* ruby_land_queue::push() and the end of process_request(), run(): when   *)
(* the Ruby thread has left its loop, nothing waits for it in the queue,   *)
(* and when run() returns every request that was accepted has come to an   *)
(* end, but for responses that waited for the application, whose clients   *)
(* have closed their connections.                                          *)
THEOREM RunLeavesNothing == Spec => []NothingLeftBehind
<1>1. RInv => NothingLeftBehind
  <2> SUFFICES ASSUME RInv PROVE NothingLeftBehind  OBVIOUS
  <2>1. ruby \in Left => queue = <<>>  BY DEF RInv, Stopped
  <2>2. ASSUME ruby = "returned", NEW r \in Requests
        PROVE  at[r] \in {"none", "completed", "closed", "settled"} \/ (at[r] = "lost" /\ r \in left)
    <3>1. queue = <<>> /\ last_data = <<>>  BY <2>1, <2>2 DEF RInv, TakenOut, Left
    <3>2. at[r] # "queued"  BY <3>1, EmptyElements DEF RInv, Stored
    <3>3. at[r] # "running"  BY <2>2 DEF RInv, Executed
    <3>4. /\ io = "ended" /\ at[r] \notin {"reading", "writing", "posted"}
          /\ at[r] = "lost" => r \in left
          BY <2>2 DEF RInv, Ended, Lingers
    <3>5. at[r] \notin {"answered", "dropped"}  BY <3>4 DEF RInv, Placed, Blocks
    <3> QED  BY <3>2, <3>3, <3>4, <3>5 DEF RInv, TypeOK
  <2> QED  BY <2>1, <2>2 DEF NothingLeftBehind, Done, Left
<1> QED  BY <1>1, RackInvariant, PTL

(* ruby_land_queue::wait(), push() and stop(): no wake up is lost.  The    *)
(* Ruby thread sleeps only while the queue is empty and nobody has stopped *)
(* the server.                                                             *)
THEOREM NoLostNotification == Spec => []SleepsIdle
BY RackInvariant, PTL DEF RInv

(* publish() in the I/O thread: its future is not in the call back, so     *)
(* that nobody answers a publish whose call back was thrown away or not    *)
(* stored.  From then on the I/O thread waits for ever, whatever happens,  *)
(* and run() can not return: the exception that RunEnds makes is needed.   *)
THEOREM AbandonedForEver == Spec => [][Abandoned => Abandoned' /\ ruby' # "returned"]_vars
<1>1. ASSUME RInv, RInv', Next, Abandoned PROVE Abandoned' /\ ruby' # "returned"
  <2>0. /\ io \in Requests /\ at[io] = "dropped" /\ io # "idle" /\ io # "ended"
        /\ at \in [Requests -> Places]
        BY <1>1 DEF Abandoned, RInv, TypeOK, Places
  <2>1. ASSUME io' = io, at'[io] = at[io] PROVE Abandoned' /\ ruby' # "returned"
        BY <1>1, <2>0, <2>1 DEF Abandoned, RInv, Ended
  <2>2. CASE Loop
    <3>1. queue # <<>> => Head(queue) \in Requests /\ at[Head(queue)] = "queued"
          BY <1>1, TailElements DEF RInv, TypeOK, Stored
    <3>2. at'[io] = at[io]  BY <2>0, <2>2, <3>1 DEF Loop, process_request
    <3> QED  BY <2>1, <2>2, <3>2 DEF Loop
  <2>3. CASE Discard
    <3>1. io \notin ToSet(last_data)  BY <1>1, <2>0 DEF RInv, Stored
    <3> QED  BY <2>0, <2>1, <2>3, <3>1 DEF Discard
  <2>4. ASSUME NEW r \in Requests, Executes(r) PROVE Abandoned' /\ ruby' # "returned"
    <3>1. \E place, stop : Return(r, place, stop)
          BY <2>4 DEF Executes, call_application, publish_impl, validate_node_impl, authorize_impl,
                      node_init_impl
    <3>2. at[r] = "running" /\ io' = io /\ \E place : at' = [at EXCEPT ![r] = place]
          BY <1>1, <3>1 DEF Return, RInv, Executed
    <3> QED  BY <2>0, <2>1, <3>2
  <2>5. ASSUME NEW r \in Requests PROVE ~Handles(r) /\ ~not_found(r) /\ ~handle_read(r)
        BY <2>0 DEF Handles, body_read_handler, response_write_handler, AskAdapter, FutureReady,
                    not_found, Arrives, handle_read
  <2>6. ASSUME NEW r \in Requests, NEW k \in Kinds PROVE ~create_response(r, k)
        BY <2>0 DEF create_response, Arrives
  <2>7. ~Join /\ ~handler_connect /\ ~KeepAliveTimeout /\ ~run_queue
        BY <2>0 DEF Join, handler_connect, KeepAliveTimeout, run_queue
  <2>8. CASE Interrupt \/ ShutDown  BY <2>1, <2>8 DEF Interrupt, ShutDown
  <2> QED  BY <1>1, <2>2, <2>3, <2>4, <2>5, <2>6, <2>7, <2>8 DEF Next
<1>2. RInv /\ RInv' /\ [Next]_vars => [Abandoned => Abandoned' /\ ruby' # "returned"]_vars
      BY <1>1
<1> QED  BY <1>2, RackInvariant, PTL DEF Spec
=============================================================================
