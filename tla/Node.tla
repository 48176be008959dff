-------------------------------- MODULE Node --------------------------------
(***************************************************************************)
(* pubsub::node: the data of a node, its version, and the updates that     *)
(* lead from older versions to the current one.  Versions are counted from *)
(* the first one (the code starts at a random number).  json::delta() is   *)
(* taken by what it promises: an update is a record that turns the value   *)
(* from into the value to and has a size.                                  *)
(***************************************************************************)
EXTENDS Integers, Sequences

CONSTANTS
    Values,     \* json values
    First,      \* the data of the first version
    Kind,       \* [Values -> {"array", "object", "other"}]
    Size,       \* [Values -> Nat], json::value::size()
    DeltaSize,  \* [Values -> [Values -> Nat]], size of the update between two values
    Percent,    \* keep_update_size_percent
    MaxVersion  \* bound: the number of versions

ASSUME NodeAssumption ==
    /\ First \in Values
    /\ Kind \in [Values -> {"array", "object", "other"}]
    /\ Size \in [Values -> Nat]
    /\ DeltaSize \in [Values -> [Values -> Nat]]
    /\ Percent \in Nat
    /\ MaxVersion \in Nat \ {0}

VARIABLES
    data,       \* data_
    version,    \* version_
    updates,    \* updates_
    history,    \* Seq(Values): history[k] was the data of version k
    gap         \* the version that the last change without an update led to

vars == <<data, version, updates, history, gap>>

Updates == [from : Values, to : Values, size : Nat]

-----------------------------------------------------------------------------
(* json::array::size(): brackets, commas and elements. *)
ArraySize(u) ==
    LET sum[i \in 0 .. Len(u)] == IF i = 0 THEN 0 ELSE sum[i - 1] + u[i].size
    IN  2 + sum[Len(u)] + (IF Len(u) > 1 THEN Len(u) - 1 ELSE 0)

(* The first result of json::delta(a, b, max): two arrays have an update   *)
(* unless not even an empty one fits, two objects if it fits, and values   *)
(* of different or of other types never.                                   *)
DeltaFound(a, b, max) ==
    \/ Kind[a] = "array" /\ Kind[b] = "array" /\ max >= 2
    \/ Kind[a] = "object" /\ Kind[b] = "object" /\ DeltaSize[a][b] <= max

Delta(a, b) == [from |-> a, to |-> b, size |-> DeltaSize[a][b]]

max_size(new_data) == (Size[new_data] * Percent) \div 100

(* A change of the type, and a change of an object that takes more than    *)
(* max_size, have no update.                                               *)
HasUpdate(new_data) ==
    max_size(new_data) # 0 /\ DeltaFound(data, new_data, max_size(new_data))

(* The updates after the new one was added, if there is one. *)
WithUpdate(new_data) ==
    IF HasUpdate(new_data) THEN Append(updates, Delta(data, new_data)) ELSE updates

Suffix(u, k) == SubSeq(u, k + 1, Len(u))

(* The loop stops after removing the k oldest updates. *)
remove_old_versions(u, max, k) ==
    /\ k = Len(u) \/ ArraySize(Suffix(u, k)) <= max
    /\ \A j \in 0 .. (k - 1) : ArraySize(Suffix(u, j)) > max

-----------------------------------------------------------------------------
Init ==
    /\ data = First
    /\ version = 1
    /\ updates = <<>>
    /\ history = <<First>>
    /\ gap = 1

update(new_data) ==
    /\ version < MaxVersion
    /\ new_data # data
    /\ data' = new_data
    /\ version' = version + 1
    /\ history' = Append(history, new_data)
    /\ gap' = IF HasUpdate(new_data) THEN gap ELSE version'
    /\ \E k \in 0 .. Len(WithUpdate(new_data)) :
         /\ remove_old_versions(WithUpdate(new_data), max_size(new_data), k)
         /\ updates' = Suffix(WithUpdate(new_data), k)

(* update() with the data that the node already has. *)
update_equal(new_data) == new_data = data /\ UNCHANGED vars

Next == \E new_data \in Values : update(new_data) \/ update_equal(new_data)

Spec == Init /\ [][Next]_vars

(* Whether get_update_from(known) answers with updates, not with the data. *)
UpdateKnown(known) ==
    LET distance == version - known
    IN  distance > 0 /\ distance <= Len(updates)

(* Mutant: the oldest updates instead of the latest. *)
get_update_from_oldest(known) == SubSeq(updates, 1, version - known)

(* json::array( updates_, distance, updates_.length() - distance ) *)
get_update_from(known) == Suffix(updates, Len(updates) - (version - known))

-----------------------------------------------------------------------------
(* Properties *)

(* The types of node's members; the history has one value per version.     *)
TypeOK ==
    /\ data \in Values
    /\ version \in 1 .. MaxVersion
    /\ updates \in Seq(Updates)
    /\ history \in Seq(Values)
    /\ Len(history) = version
    /\ gap \in 1 .. version

(* The updates us, one after the other, turn the value a into the value b. *)
Leads(us, a, b) ==
    /\ us[1].from = a
    /\ us[Len(us)].to = b
    /\ \A i \in 1 .. (Len(us) - 1) : us[i].to = us[i + 1].from

(* node.h:177 says that get_update_from() "returns an update that will     *)
(* update the nodes data from the given, known version to the current      *)
(* version of this node".  The code keeps this for every version since the *)
(* last change without an update, and so for all versions as long as there *)
(* was none: the updates that a client is sent turn its data into the      *)
(* current data.  For older versions it breaks it (node.cpp:292-294): the  *)
(* updates before such a change stay, and are counted as if they led to    *)
(* the versions after it.                                                  *)
UpdatesSinceGap ==
    \A known \in gap .. version :
        UpdateKnown(known) => Leads(get_update_from(known), history[known], data)
=============================================================================
