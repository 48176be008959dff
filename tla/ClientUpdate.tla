---------------------------- MODULE ClientUpdate ----------------------------
(***************************************************************************)
(* PubSub.update() of the browser client (update.coffee): how the client   *)
(* applies the operations that json::delta() found on the server.  An      *)
(* operation with an index or a range that does not fit raises a           *)
(* RangeError, after which nothing is applied.                             *)
(***************************************************************************)
EXTENDS JsonValue
LOCAL INSTANCE SequencesExt

RangeError == <<"RangeError", <<>> >>

(* The operations that are left after n elements. *)
After(n, us) == SubSeq(us, n + 1, Len(us))

(* input.splice( start, end - start, inserted... ) *)
Splice(m, start, end, inserted) ==
    Array(SubSeq(m, 1, start) \o inserted \o SubSeq(m, end + 1, Len(m)))

(* input[ index ] is not undefined. *)
Defined(input, index) ==
    IF input[1] = "array" THEN to_int(index) < Len(input[2]) ELSE index[2] \in DOMAIN input[2]

Assign(input, index, v) ==
    IF input[1] = "array" THEN Array(ReplaceAt(input[2], to_int(index) + 1, v))
                          ELSE Object([input[2] EXCEPT ![index[2]] = v])

delete_at_operation(input, index) ==
    CASE ~Defined(input, index) -> RangeError
      [] Defined(input, index) /\ index[1] = "string" -> Object(erase(input[2], index[2]))
      [] OTHER -> Splice(input[2], to_int(index), to_int(index) + 1, <<>>)

insert_at_operation(input, index, v) ==
    IF index[1] = "string"
      THEN IF Defined(input, index) THEN RangeError ELSE Object(add(input[2], index[2], v))
      ELSE IF to_int(index) > Len(input[2]) THEN RangeError
           ELSE Splice(input[2], to_int(index), to_int(index), <<v>>)

delete_range_operation(input, start, end) ==
    IF start >= end \/ end > Len(input[2]) THEN RangeError ELSE Splice(input[2], start, end, <<>>)

(* Mutant: the end of the range is taken to be part of it. *)
update_range_operation_inclusive(input, start, end, substitute) ==
    IF start > end \/ end > Len(input[2]) THEN RangeError
    ELSE Splice(input[2], start, end + 1, substitute)

update_range_operation(input, start, end, substitute) ==
    IF start > end \/ end > Len(input[2]) THEN RangeError
    ELSE Splice(input[2], start, end, substitute)

(* PubSub.update, with next_operation. *)
RECURSIVE PubSub_update(_, _)
PubSub_update(input, us) ==
    IF us = <<>> \/ input = RangeError THEN input
    ELSE
    LET code == to_int(us[1])
    IN
    CASE code = 1 -> PubSub_update(IF Defined(input, us[2]) THEN Assign(input, us[2], us[3]) ELSE RangeError,
                                   After(3, us))
      [] code = 2 -> PubSub_update(delete_at_operation(input, us[2]), After(2, us))
      [] code = 3 -> PubSub_update(insert_at_operation(input, us[2], us[3]), After(3, us))
      [] code = 4 -> PubSub_update(delete_range_operation(input, to_int(us[2]), to_int(us[3])), After(3, us))
      [] code = 5 -> PubSub_update(update_range_operation(input, to_int(us[2]), to_int(us[3]), us[4][2]),
                                   After(4, us))
      [] code = 6 -> PubSub_update(IF Defined(input, us[2])
                                     THEN LET member == IF input[1] = "array" THEN input[2][to_int(us[2]) + 1]
                                                                              ELSE input[2][us[2][2]]
                                          IN  Assign(input, us[2], PubSub_update(member, us[3][2]))
                                     ELSE RangeError,
                                   After(3, us))

(* sum_up_updates() of the server: the updates of several versions in one. *)
sum_up_updates(updates) == FlattenSeq([i \in DOMAIN updates |-> updates[i][2]])
=============================================================================
