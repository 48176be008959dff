------------------------------ MODULE JsonDelta ------------------------------
(***************************************************************************)
(* json::delta() and json::update(): the shortest sequence of operations   *)
(* that turns an array into another one, found with A*, the operations for *)
(* two objects, and their application.  Positions count from 0 as in the   *)
(* code.                                                                   *)
(***************************************************************************)
EXTENDS JsonValue
LOCAL INSTANCE SequencesExt
LOCAL INSTANCE FiniteSetsExt
LOCAL INSTANCE TLC

(* An operation is a tuple of its name and arguments; NoOperation is the   *)
(* null pointer.                                                           *)
NoOperation == <<>>

update_at(p, v)         == <<"update_at", p, v>>
edit_at(p, u)           == <<"edit_at", p, u>>
delete_at(p)            == <<"delete_at", p>>
insert_at(p, v)         == <<"insert_at", p, v>>
delete_range(f, t)      == <<"delete_range", f, t>>
update_range(f, t, vs)  == <<"update_range", f, t, vs>>

OperationCode(name) == Number(CASE name = "update_at" -> 1 [] name = "delete_at" -> 2
    [] name = "insert_at" -> 3 [] name = "delete_range" -> 4
    [] name = "update_range" -> 5 [] OTHER -> 6)

(* update_operation::serialize(): the elements that the array gets. *)
serialize(op) ==
    <<OperationCode(op[1]), Number(op[2])>> \o
    (CASE op[1] = "delete_at"    -> <<>>
       [] op[1] = "delete_range" -> <<Number(op[3])>>
       [] op[1] = "update_range" -> <<Number(op[3]), Array(op[4])>>
       [] OTHER                  -> <<op[3]>>)

length(n) == Len(DigitsOf(n))

(* Mutant: the comma before the values of a range is forgotten. *)
operation_size_comma(op) ==
    CASE op[1] = "delete_at"    -> length(op[2]) + 4
      [] op[1] = "delete_range" -> length(op[2]) + length(op[3]) + 5
      [] op[1] = "update_range" -> length(op[2]) + length(op[3]) + size(Array(op[4])) + 5
      [] OTHER                  -> length(op[2]) + size(op[3]) + 5

(* update_operation::size() *)
operation_size(op) ==
    CASE op[1] = "delete_at"    -> length(op[2]) + 4
      [] op[1] = "delete_range" -> length(op[2]) + length(op[3]) + 5
      [] op[1] = "update_range" -> length(op[2]) + length(op[3]) + size(Array(op[4])) + 6
      [] OTHER                  -> length(op[2]) + size(op[3]) + 5

-----------------------------------------------------------------------------
(* merge(): one operation for two, or none.  s is the first operation, o   *)
(* the one that follows it.                                                *)
update_at_merge(s, o) ==
    CASE o[1] = "update_at" /\ s[2] + 1 = o[2] -> update_range(s[2], s[2] + 2, <<s[3], o[3]>>)
      [] o[1] = "insert_at" /\ s[2] = o[2]     -> update_range(s[2], s[2] + 1, <<o[3], s[3]>>)
      [] o[1] = "insert_at" /\ s[2] + 1 = o[2] -> update_range(s[2], s[2] + 1, <<s[3], o[3]>>)
      [] o[1] = "delete_at" /\ s[2] = o[2]     -> o
      [] o[1] = "delete_at" /\ s[2] + 1 = o[2] -> update_range(s[2], s[2] + 2, <<s[3]>>)
      [] OTHER -> NoOperation

delete_at_merge(s, o) ==
    CASE o[1] = "update_at" /\ s[2] = o[2]     -> update_range(s[2], s[2] + 2, <<o[3]>>)
      [] o[1] = "update_at" /\ s[2] = o[2] + 1 -> update_range(o[2], o[2] + 2, <<o[3]>>)
      [] o[1] = "insert_at" /\ s[2] = o[2]     -> update_at(s[2], o[3])
      [] o[1] = "delete_at" /\ s[2] = o[2]     -> delete_range(s[2], s[2] + 2)
      [] o[1] = "delete_at" /\ s[2] = o[2] + 1 -> delete_range(o[2], o[2] + 2)
      [] OTHER -> NoOperation

insert_at_merge(s, o) ==
    CASE o[1] = "update_at" /\ s[2] = o[2] + 1 -> update_range(o[2], o[2] + 1, <<o[3], s[3]>>)
      [] o[1] = "update_at" /\ s[2] + 1 = o[2] -> update_range(s[2], s[2] + 1, <<s[3], o[3]>>)
      [] o[1] = "update_at" /\ s[2] = o[2]     -> insert_at(s[2], o[3])
      [] o[1] = "insert_at" /\ s[2] = o[2]     -> update_range(s[2], s[2], <<o[3], s[3]>>)
      [] o[1] = "insert_at" /\ s[2] + 1 = o[2] -> update_range(s[2], s[2], <<s[3], o[3]>>)
      [] o[1] = "delete_at" /\ s[2] = o[2] + 1 -> update_at(o[2], s[3])
      [] OTHER -> NoOperation

delete_range_merge(s, o) ==
    CASE o[1] = "update_at" /\ s[2] = o[2]     -> update_range(s[2], s[3] + 1, <<o[3]>>)
      [] o[1] = "update_at" /\ s[2] = o[2] + 1 -> update_range(o[2], s[3], <<o[3]>>)
      [] o[1] = "insert_at" /\ s[2] = o[2]     -> update_range(s[2], s[3], <<o[3]>>)
      [] o[1] = "delete_at" /\ s[2] = o[2]     -> delete_range(s[2], s[3] + 1)
      [] o[1] = "delete_at" /\ s[2] = o[2] + 1 -> delete_range(o[2], s[3])
      [] OTHER -> NoOperation

(* An operation within the new values always changes the first of them:    *)
(* the code computes the index other.position() - other.position().        *)
update_range_merge(s, o) ==
    LET end    == s[2] + Len(s[4])
        inside == s[2] <= o[2] /\ o[2] < end
    IN
    CASE o[1] = "update_at" /\ s[2] = o[2] + 1 -> update_range(o[2], s[3], <<o[3]>> \o s[4])
      [] o[1] = "update_at" /\ o[2] = end      -> update_range(s[2], s[3] + 1, Append(s[4], o[3]))
      [] o[1] = "update_at" /\ inside          -> update_range(s[2], s[3], ReplaceAt(s[4], 1, o[3]))
      [] o[1] = "insert_at" /\ s[2] <= o[2] /\ o[2] <= end
           -> update_range(s[2], s[3], InsertAt(s[4], o[2] - s[2] + 1, o[3]))
      [] o[1] = "delete_at" /\ s[2] = o[2] + 1 -> update_range(o[2], s[3], s[4])
      [] o[1] = "delete_at" /\ o[2] = end      -> update_range(s[2], s[3] + 1, s[4])
      [] o[1] = "delete_at" /\ inside          -> update_range(s[2], s[3], Tail(s[4]))
      [] OTHER -> NoOperation

merge(s, o) ==
    CASE s[1] = "update_at"    -> update_at_merge(s, o)
      [] s[1] = "delete_at"    -> delete_at_merge(s, o)
      [] s[1] = "insert_at"    -> insert_at_merge(s, o)
      [] s[1] = "delete_range" -> delete_range_merge(s, o)
      [] s[1] = "update_range" -> update_range_merge(s, o)
      [] OTHER                 -> NoOperation    \* edit_at

-----------------------------------------------------------------------------
(* heuristic::build_index(): the length of the rest of the array's text. *)
build_index(a) ==
    LET rest[i \in 0 .. Len(a)] == IF i = Len(a) THEN 0 ELSE rest[i + 1] + size(a[i + 1]) + 1
    IN  [i \in 0 .. Len(a) |-> IF i = 0 /\ a # <<>> THEN rest[0] - 1 ELSE rest[i]]

Estimate(ra, rb) == CASE ra = rb -> 0 [] rb > ra -> rb - ra [] OTHER -> 4

heuristic(a, b, i, j) == Estimate(build_index(a)[i], build_index(b)[j])

(* The search.  vertices_ is a function on pairs <<length, index>>: the    *)
(* array has the first index elements of b, then the rest of a.  A vertex  *)
(* keeps the operation that led to it, the vertex before, and costs.       *)
(* open_list_ holds vertices in the order of their costs; one that gets    *)
(* cheaper while it is in the list keeps its place and is inserted again.  *)
Start == [op |-> NoOperation, previous |-> <<>>, total |-> 2, costs |-> 2]

InsertSorted(open, vertices, key) ==
    LET after == { i \in DOMAIN open : vertices[open[i]].total > vertices[key].total }
    IN  IF after = {} THEN Append(open, key)
        ELSE InsertAt(open, CHOOSE i \in after : \A j \in after : i <= j, key)

(* A vertex that was found already is replaced only by a cheaper one. *)
Improved(search, vertices, key) ==
    IF key \in DOMAIN search.vertices /\ search.vertices[key].costs <= vertices[key].costs THEN search
    ELSE [vertices |-> vertices, open |-> InsertSorted(search.open, vertices, key)]

(* The vertex that is reached from previous, with the estimate of the rest. *)
Reached(v, previous, op, rest) ==
    LET costs == v[previous].costs + operation_size(op) - 2
                   + (IF v[previous].op = NoOperation THEN 0 ELSE 1)
    IN  [op |-> op, previous |-> previous, costs |-> costs, total |-> costs + rest]

Merged(v, current, op, merged, rest) ==
    IF merged = NoOperation THEN Reached(v, current, op, rest)
    ELSE Reached(v, v[current].previous, merged, rest)

add_open(search, a, b, current, key, op) ==
    LET v      == search.vertices
        merged == IF v[current].op = NoOperation THEN NoOperation ELSE merge(v[current].op, op)
        rest   == heuristic(a, b, key[2] - (key[1] - Len(a)), key[2])
    IN  Improved(search, (key :> Merged(v, current, op, merged, rest)) @@ v, key)

(* std::size_t( max - used ), which wraps around below 0: no limit then. *)
NoLimit == 1000000
Remaining(max, used) == IF used > max THEN NoLimit ELSE max - used

(* assemble_result() *)
RECURSIVE assemble(_, _)
assemble(vertices, goal) ==
    IF vertices[goal].op = NoOperation THEN <<>>
    ELSE assemble(vertices, vertices[goal].previous) \o serialize(vertices[goal].op)

NotFound(b) == [found |-> FALSE, value |-> b, costs |-> 0]

RECURSIVE delta(_, _, _), array_diff(_, _, _, _), object_diff(_, _, _, _, _, _)

(* The index of the first difference between the array at the vertex and b. *)
first_difference(a, b, vertex) ==
    LET inserts == vertex[1] - Len(a)
        end     == Min({vertex[1], Len(b)})
    IN  Min({end} \cup { i \in vertex[2] .. (end - 1) : ~equal(a[i - inserts + 1], b[i + 1]) })

(* The operations that are tried there, in their order, each with the      *)
(* vertex it leads to: an update, an edit, an insert and a delete.         *)
Candidates(a, b, vertex, index, edit) ==
    LET len      == vertex[1]
        more_a   == index # len
        more_b   == index # Len(b)
        If(c, x) == IF c THEN <<x>> ELSE <<>>
    IN  If(more_a /\ more_b, << <<len, index + 1>>, update_at(index, b[index + 1])>>)
        \o If(more_a /\ more_b /\ edit.found, << <<len, index + 1>>, edit_at(index, edit.value)>>)
        \o If(more_b, << <<len + 1, index + 1>>, insert_at(index, b[index + 1])>>)
        \o If(more_a, << <<len - 1, index>>, delete_at(index)>>)

(* array_diff::operator(): takes the cheapest vertex and, if it is not the *)
(* goal, adds those that the operations at the first difference lead to.   *)
array_diff(search, a, b, max) ==
    IF search.open = <<>> THEN NotFound(Array(b))
    ELSE
    LET current == Head(search.open)
        index   == first_difference(a, b, current)
        costs   == search.vertices[current].costs
        member  == a[index - (current[1] - Len(a)) + 1]
    IN  IF index = current[1] /\ index = Len(b)
          THEN [found |-> TRUE, costs |-> costs, value |-> Array(assemble(search.vertices, current))]
          ELSE array_diff(FoldLeft(LAMBDA s, x : add_open(s, a, b, current, x[1], x[2]),
                                   [search EXCEPT !.open = Tail(@)],
                                   Candidates(a, b, current, index, delta(member, b[index + 1], Remaining(max, costs)))),
                          a, b, max)

(* A member that both objects have is edited if that is shorter. *)
EditOrUpdate(name, v, edit) ==
    IF edit.found /\ size(edit.value) < size(v) THEN <<OperationCode("edit_at"), name, edit.value>>
    ELSE <<OperationCode("update_at"), name, v>>

(* delta() of two objects merges their sorted names; it ends when the      *)
(* result has reached the limit, whether names are left or not.            *)
object_diff(a, b, ka, kb, result, max) ==
    LET used == size(Array(result))
        next(ka2, kb2, more) == object_diff(a, b, ka2, kb2, result \o more, max)
        name(k) == StringText(Head(k))
    IN
    IF (ka = <<>> /\ kb = <<>>) \/ used >= max
      THEN IF used <= max THEN [found |-> TRUE, value |-> Array(result), costs |-> used]
                          ELSE NotFound(Object(b))
    ELSE IF kb = <<>> \/ (ka # <<>> /\ less_impl(Head(ka), Head(kb)))
      THEN next(Tail(ka), kb, <<OperationCode("delete_at"), name(ka)>>)
    ELSE IF ka = <<>> \/ less_impl(Head(kb), Head(ka))
      THEN next(ka, Tail(kb), <<OperationCode("insert_at"), name(kb), b[Head(kb)]>>)
    ELSE next(Tail(ka), Tail(kb), EditOrUpdate(name(ka), b[Head(kb)],
                                    delta(a[Head(ka)], b[Head(kb)], Remaining(max, used))))

delta(a, b, max) ==
    CASE a[1] = "array" /\ b[1] = "array" ->
           array_diff(IF Start.costs <= max
                        THEN [vertices |-> (<<Len(a[2]), 0>> :> Start), open |-> <<<<Len(a[2]), 0>>>>]
                        ELSE [vertices |-> <<>>, open |-> <<>>],
                      a[2], b[2], max)
      [] a[1] = "object" /\ b[1] = "object" ->
           object_diff(a[2], b[2], keys(a[2]), keys(b[2]), <<>>, max)
      [] OTHER -> NotFound(b)

-----------------------------------------------------------------------------
(* update_impl(): the effect of one operation after the other.  us are the *)
(* elements of the update that are left.                                   *)
RECURSIVE update_array(_, _), update_object(_, _), update(_, _)

Cut(m, from, to) == SubSeq(m, 1, from) \o SubSeq(m, to + 1, Len(m))

(* What is left when an index is out of range: an exception. *)
Thrown == << <<"thrown", <<>> >> >>

update_array(m, us) ==
    IF us = <<>> THEN m
    ELSE
    LET code == to_int(us[1])
        p    == to_int(us[2])
        end  == IF code \in {4, 5} THEN to_int(us[3]) ELSE IF code = 3 THEN p ELSE p + 1
        rest(n) == SubSeq(us, n + 1, Len(us))
    IN
    CASE end > Len(m) -> Thrown
      [] end <= Len(m) /\ code = 1 -> update_array(ReplaceAt(m, p + 1, us[3]), rest(3))
      [] end <= Len(m) /\ code = 2 -> update_array(Cut(m, p, p + 1), rest(2))
      [] end <= Len(m) /\ code = 3 -> update_array(InsertAt(m, p + 1, us[3]), rest(3))
      [] end <= Len(m) /\ code = 4 -> update_array(Cut(m, p, to_int(us[3])), rest(3))
      [] end <= Len(m) /\ code = 5 -> update_array(SubSeq(m, 1, p) \o us[4][2] \o SubSeq(m, to_int(us[3]) + 1, Len(m)), rest(4))
      [] end <= Len(m) /\ code = 6 -> update_array(ReplaceAt(m, p + 1, update(m[p + 1], us[3])), rest(3))

update_object(m, us) ==
    IF us = <<>> THEN m
    ELSE
    LET code == to_int(us[1])
        name == us[2][2]
        rest(n) == SubSeq(us, n + 1, Len(us))
    IN
    CASE code = 1 -> update_object([m EXCEPT ![name] = us[3]], rest(3))
      [] code = 2 -> update_object(erase(m, name), rest(2))
      [] code = 3 -> update_object(add(m, name, us[3]), rest(3))
      [] code = 6 -> update_object([m EXCEPT ![name] = update(m[name], us[3])], rest(3))

update(v, us) ==
    CASE us[1] # "array"                    -> us
      [] us[1] = "array" /\ v[1] = "array"  -> Array(update_array(v[2], us[2]))
      [] us[1] = "array" /\ v[1] = "object" -> Object(update_object(v[2], us[2]))
      [] OTHER                              -> us
=============================================================================
