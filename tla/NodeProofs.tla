----------------------------- MODULE NodeProofs -----------------------------
(***************************************************************************)
(* What module Node promises for any json values: every update that        *)
(* get_update_from() returns for a version since the last change without   *)
(* an update leads to the current data.                                    *)
(***************************************************************************)
EXTENDS Node, TLAPS

(* The i-th of n updates counts as the one that leads to the version       *)
(* version - n + i.  It does if there is an update for every change since. *)
Aligned ==
    \A i \in 1 .. Len(updates) :
        version - Len(updates) + i > gap =>
            /\ updates[i].from = history[version - Len(updates) + i - 1]
            /\ updates[i].to = history[version - Len(updates) + i]

(* The inductive invariant. *)
NInv ==
    /\ TypeOK
    /\ Len(updates) < version
    /\ history[version] = data
    /\ Aligned

(* Dropping the k oldest of n updates leaves the others, in their order. *)
LEMMA SuffixElements ==
    ASSUME NEW S, NEW u \in Seq(S), NEW k \in 0 .. Len(u)
    PROVE  /\ Suffix(u, k) \in Seq(S)
           /\ Len(Suffix(u, k)) = Len(u) - k
           /\ \A i \in 1 .. (Len(u) - k) : Suffix(u, k)[i] = u[k + i]
BY DEF Suffix

(* The initial state satisfies the invariant. *)
LEMMA NInvInit == Init => NInv
BY NodeAssumption DEF Init, NInv, TypeOK, Aligned

(* A change with an update keeps the updates aligned with the versions. *)
LEMMA WithUpdateStep ==
    ASSUME NInv, NEW v \in Values, update(v), HasUpdate(v)
    PROVE  NInv'
<1> DEFINE d == Delta(data, v)
           u == Append(updates, d)
<1>0. data \in Values /\ version \in 1 .. MaxVersion /\ updates \in Seq(Updates)
      /\ history \in Seq(Values) /\ Len(history) = version
    BY DEF NInv, TypeOK
<1>1. d \in Updates /\ d.from = data /\ d.to = v
    BY <1>0, NodeAssumption DEF Delta, Updates
<1>2. u \in Seq(Updates) /\ Len(u) = Len(updates) + 1
    BY <1>0, <1>1
<1>3. \A i \in 1 .. Len(updates) : u[i] = updates[i]
    BY <1>0, <1>1
<1>4. u[Len(updates) + 1] = d
    BY <1>0, <1>1
<1>5. WithUpdate(v) = u
    BY DEF WithUpdate
<1>6. PICK k \in 0 .. Len(u) : updates' = Suffix(u, k)
    BY <1>5 DEF update
<1>7. /\ updates' \in Seq(Updates)
      /\ Len(updates') = Len(u) - k
      /\ \A i \in 1 .. (Len(u) - k) : updates'[i] = u[k + i]
    BY <1>2, <1>6, SuffixElements
<1>8. /\ version' = version + 1 /\ version < MaxVersion
      /\ data' = v
      /\ history' = Append(history, v)
      /\ gap' = gap /\ gap \in 1 .. version
    BY DEF update, NInv, TypeOK
<1>9. /\ history' \in Seq(Values) /\ Len(history') = version'
      /\ history'[version'] = v
      /\ \A j \in 1 .. version : history'[j] = history[j]
    BY <1>0, <1>8
<1>10. TypeOK'
    <2>1. version' \in 1 .. MaxVersion /\ gap' \in 1 .. version'
        BY <1>0, <1>8, NodeAssumption
    <2>2. QED
        BY <1>7, <1>8, <1>9, <2>1 DEF TypeOK
<1>11. Len(updates') < version'
    BY <1>0, <1>2, <1>6, <1>7, <1>8 DEF NInv
<1>12. ASSUME NEW i \in 1 .. Len(updates'), version' - Len(updates') + i > gap'
       PROVE  /\ updates'[i].from = history'[version' - Len(updates') + i - 1]
              /\ updates'[i].to = history'[version' - Len(updates') + i]
    <2> DEFINE j == k + i
    <2>0. Len(updates) \in Nat /\ Len(updates) < version /\ k \in Nat
        BY <1>0, <1>2, <1>6 DEF NInv
    <2>1. j \in 1 .. (Len(updates) + 1) /\ updates'[i] = u[j]
        <3>1. i \in 1 .. (Len(u) - k)
            BY <1>7
        <3>2. updates'[i] = u[k + i]
            BY <1>7, <3>1
        <3>3. QED
            BY <1>2, <2>0, <3>1, <3>2
    <2>2. version' - Len(updates') + i = version - Len(updates) + j
        BY <1>0, <1>2, <1>7, <1>8, <2>0
    <2>b. version' - Len(updates') + i - 1 = version - Len(updates) + j - 1
        BY <1>0, <1>2, <1>7, <1>8, <2>0
    <2>3. CASE j \in 1 .. Len(updates)
        <3>1. updates'[i] = updates[j]
            BY <1>3, <2>1, <2>3
        <3>2. /\ updates[j].from = history[version - Len(updates) + j - 1]
              /\ updates[j].to = history[version - Len(updates) + j]
            BY <1>8, <1>12, <2>2, <2>3 DEF NInv, Aligned
        <3>3. /\ version - Len(updates) + j \in 1 .. version
              /\ version - Len(updates) + j - 1 \in 1 .. version
            BY <1>0, <2>0, <2>3
        <3>4. QED
            BY <1>9, <2>2, <2>b, <3>1, <3>2, <3>3
    <2>4. CASE j = Len(updates) + 1
        <3>1. updates'[i] = d
            BY <1>4, <2>1, <2>4
        <3>2. version' - Len(updates') + i = version + 1
            BY <1>0, <2>0, <2>2, <2>4
        <3>3. history'[version] = data
            BY <1>0, <1>9 DEF NInv
        <3>4. history'[version + 1] = v
            BY <1>8, <1>9
        <3>5. version' - Len(updates') + i - 1 = version
            <4>1. version - Len(updates) + j - 1 = version
                BY <1>0, <2>0, <2>4
            <4>2. QED
                BY <2>b, <4>1
        <3>6. QED
            BY <1>1, <3>1, <3>2, <3>3, <3>4, <3>5
    <2>5. QED
        BY <2>0, <2>1, <2>3, <2>4
<1>13. QED
    BY <1>8, <1>9, <1>10, <1>11, <1>12 DEF NInv, Aligned

(* After a change without an update, none of the updates counts for a      *)
(* version since the gap.                                                  *)
LEMMA NoUpdateStep ==
    ASSUME NInv, NEW v \in Values, update(v), ~HasUpdate(v)
    PROVE  NInv'
<1>0. /\ version \in 1 .. MaxVersion /\ updates \in Seq(Updates)
      /\ history \in Seq(Values) /\ Len(history) = version
      /\ Len(updates) < version /\ Len(updates) \in Nat
    BY DEF NInv, TypeOK
<1>1. PICK k \in 0 .. Len(updates) : updates' = Suffix(updates, k)
    BY DEF update, WithUpdate
<1>2. updates' \in Seq(Updates) /\ Len(updates') = Len(updates) - k
    BY <1>0, <1>1, SuffixElements
<1>3. /\ version' = version + 1 /\ version < MaxVersion
      /\ data' = v /\ gap' = version'
      /\ history' = Append(history, v)
    BY DEF update
<1>4. history' \in Seq(Values) /\ Len(history') = version' /\ history'[version'] = v
    BY <1>0, <1>3
<1>5. TypeOK'
    BY <1>0, <1>2, <1>3, <1>4, NodeAssumption DEF TypeOK
<1>6. Len(updates') < version'
    BY <1>0, <1>2, <1>3
<1>7. Aligned'
    BY <1>0, <1>2, <1>3 DEF Aligned
<1>8. QED
    BY <1>3, <1>4, <1>5, <1>6, <1>7 DEF NInv

(* Every update() keeps the invariant. *)
LEMMA NInvStep == NInv /\ [Next]_vars => NInv'
<1> SUFFICES ASSUME NInv, [Next]_vars PROVE NInv'
    OBVIOUS
<1>1. ASSUME NEW v \in Values, update(v) PROVE NInv'
    BY <1>1, WithUpdateStep, NoUpdateStep
<1>2. CASE UNCHANGED vars
    BY <1>2 DEF vars, NInv, TypeOK, Aligned
<1>3. QED
    BY <1>1, <1>2 DEF Next, update_equal

(* Aligned updates lead from every version since the gap to the current    *)
(* data.                                                                   *)
LEMMA AlignedLeads == NInv => UpdatesSinceGap
<1> SUFFICES ASSUME NInv, NEW known \in gap .. version, UpdateKnown(known)
             PROVE  Leads(get_update_from(known), history[known], data)
    BY DEF UpdatesSinceGap
<1> DEFINE n == Len(updates)
           dist == version - known
           us == get_update_from(known)
<1>0. version \in Nat /\ updates \in Seq(Updates) /\ n \in Nat /\ known \in Nat /\ gap \in Nat
    BY NodeAssumption DEF NInv, TypeOK
<1>1. dist \in 1 .. n
    BY <1>0 DEF UpdateKnown
<1>2. n - dist \in 0 .. n
    BY <1>0, <1>1
<1>3. us = Suffix(updates, n - dist)
    BY DEF get_update_from
<1>4. Len(us) = dist /\ \A i \in 1 .. dist : us[i] = updates[(n - dist) + i]
    <2>1. Len(us) = n - (n - dist) /\ \A i \in 1 .. (n - (n - dist)) : us[i] = updates[(n - dist) + i]
        BY <1>0, <1>2, <1>3, SuffixElements
    <2>2. n - (n - dist) = dist
        BY <1>0, <1>1
    <2>3. QED
        BY <2>1, <2>2
<1>5. \A i \in 1 .. dist : us[i].from = history[known + i - 1] /\ us[i].to = history[known + i]
    <2> SUFFICES ASSUME NEW i \in 1 .. dist
                 PROVE  us[i].from = history[known + i - 1] /\ us[i].to = history[known + i]
        OBVIOUS
    <2>1. (n - dist) + i \in 1 .. n
        BY <1>0, <1>1
    <2>2. version - n + ((n - dist) + i) = known + i
        BY <1>0, <1>1
    <2>3. /\ updates[(n - dist) + i].from = history[version - n + ((n - dist) + i) - 1]
          /\ updates[(n - dist) + i].to = history[version - n + ((n - dist) + i)]
        <3>1. version - n + ((n - dist) + i) > gap
            BY <1>0, <2>2
        <3>2. QED
            BY <2>1, <3>1 DEF NInv, Aligned
    <2>4. version - n + ((n - dist) + i) - 1 = known + i - 1
        BY <1>0, <1>1
    <2>5. us[i] = updates[(n - dist) + i]
        BY <1>4
    <2>6. QED
        BY <2>2, <2>3, <2>4, <2>5
<1>6. us[1].from = history[known]
    BY <1>0, <1>1, <1>5
<1>7. us[Len(us)].to = data
    <2>1. dist \in 1 .. dist /\ known + dist = version
        BY <1>0, <1>1
    <2>2. us[dist].to = history[known + dist]
        BY <1>5, <2>1
    <2>3. history[version] = data
        BY DEF NInv
    <2>4. QED
        BY <1>4, <2>1, <2>2, <2>3
<1>8. ASSUME NEW i \in 1 .. (Len(us) - 1) PROVE us[i].to = us[i + 1].from
    <2>1. i \in 1 .. dist /\ i + 1 \in 1 .. dist /\ known + i = known + (i + 1) - 1
        BY <1>0, <1>1, <1>4
    <2>2. us[i].to = history[known + i] /\ us[i + 1].from = history[known + (i + 1) - 1]
        BY <1>5, <2>1
    <2>3. QED
        BY <2>1, <2>2
<1>9. QED
    BY <1>6, <1>7, <1>8 DEF Leads

(* Whatever json values a node is given, for every version since the last  *)
(* change without an update (node.cpp:292-294) the updates that            *)
(* get_update_from() returns turn the data of that version into the        *)
(* current data.                                                           *)
THEOREM UpdatesCorrect == Spec => []UpdatesSinceGap
<1>1. Init => NInv
    BY NInvInit
<1>2. NInv /\ [Next]_vars => NInv'
    BY NInvStep
<1>3. NInv => UpdatesSinceGap
    BY AlignedLeads
<1>4. QED
    BY <1>1, <1>2, <1>3, PTL DEF Spec
=============================================================================
