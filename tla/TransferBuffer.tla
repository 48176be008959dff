--------------------------- MODULE TransferBuffer ---------------------------
(***************************************************************************)
(* server::transfer_buffer: a ring into which the body of an origin        *)
(* server's answer is read while it is written to the client.  buffer is a *)
(* function on 0 .. Size - 1; error stands for a parse error of the        *)
(* chunks, whose characters are those of BodyDecoder.                      *)
(***************************************************************************)
EXTENDS Integers, Sequences

CONSTANTS
    Size,           \* sizeof buffer_
    MaxSize         \* the largest value of a std::size_t

Free == <<"free">>

min(a, b) == IF b < a THEN b ELSE a

(* Before start(), which sets everything. *)
NewBuffer ==
    [buffer |-> [i \in 0 .. Size - 1 |-> Free], unparsed |-> <<>>, start |-> 0, end |-> 0,
     body_size |-> 0, state |-> "no_size_given", current_chunk |-> 0, chunked_state |-> "chunk_size_start", error |-> FALSE]

(* The lines after the last chunk; an empty one ends the body. *)
trailer_char(t, c) ==
    LET s     == t.chunked_state
        to(x) == [t EXCEPT !.chunked_state = x]
    IN  CASE s = "chunk_trailer_start" -> to(IF c = <<"CR">> THEN "chunk_last_trailer_lf" ELSE "chunk_trailer")
          [] s = "chunk_trailer" -> IF c = <<"CR">> THEN to("chunk_trailer_lf") ELSE t
          [] s = "chunk_trailer_lf" /\ c = <<"LF">> -> to("chunk_trailer_start")
          [] s = "chunk_last_trailer_lf" /\ c = <<"LF">> -> [t EXCEPT !.state = "done"]
          [] OTHER -> [t EXCEPT !.error = TRUE]

(* The framing, which is passed on as it is; two characters are added to a *)
(* chunk for the line end that follows it.                                 *)
chunk_char(t, c) ==
    LET s     == t.chunked_state
        to(x) == [t EXCEPT !.chunked_state = x]
        size  == (t.current_chunk + 2) % (MaxSize + 1)
    IN  CASE s = "chunk_size_start" /\ c[1] = "hex" ->
               [t EXCEPT !.current_chunk = c[2], !.chunked_state = "chunk_size"]
          [] s = "chunk_size" /\ c[1] = "hex" /\ t.current_chunk <= MaxSize \div 16 ->
               [t EXCEPT !.current_chunk = 16 * @ + c[2]]
          [] s \in {"chunk_size", "chunk_extension"} /\ c = <<"CR">> -> to("chunk_size_lf")
          [] s = "chunk_size" /\ c[1] \notin {"hex", "CR"} -> to("chunk_extension")
          [] s = "chunk_extension" /\ c # <<"CR">> -> t
          [] s = "chunk_size_lf" /\ c = <<"LF">> ->
               IF t.current_chunk = 0 THEN to("chunk_trailer_start")
               ELSE [t EXCEPT !.current_chunk = size, !.chunked_state = "chunk_data"]
          [] s = "chunk_data" ->
               [t EXCEPT !.current_chunk = @ - 1,
                         !.chunked_state = IF t.current_chunk = 1 THEN "chunk_size_start" ELSE @]
          [] s \in {"chunk_trailer_start", "chunk_trailer", "chunk_trailer_lf", "chunk_last_trailer_lf"} ->
               trailer_char(t, c)
          [] OTHER -> [t EXCEPT !.error = TRUE]

(* The characters one after the other, until the body or an error ends it. *)
handle_chunked_write(t, data) ==
    LET framing[i \in 0 .. Len(data)] ==
            IF i = 0
            THEN [state |-> t.state, current_chunk |-> t.current_chunk, chunked_state |-> t.chunked_state, error |-> t.error]
            ELSE LET x == framing[i - 1] IN IF x.state = "done" \/ x.error THEN x ELSE chunk_char(x, data[i])
        b == framing[Len(data)]
    IN  [t EXCEPT !.state = b.state, !.current_chunk = b.current_chunk,
                  !.chunked_state = b.chunked_state, !.error = b.error]

(* start(): encoding is "chunked", "unsized" or, with a Content-Length,    *)
(* "length"; data is what was read together with the header.               *)
start(encoding, length, data) ==
    LET t == [NewBuffer EXCEPT !.unparsed = data, !.body_size = Size]
        missing == length - min(length, Len(data))
    IN  IF encoding = "chunked" THEN handle_chunked_write([t EXCEPT !.state = "chunked"], data)
        ELSE IF encoding = "length"
        THEN [t EXCEPT !.body_size = missing, !.state = IF missing # 0 THEN "size_given" ELSE "done"]
        ELSE t

(* What can be written to the client. *)
read_buffer(t) ==
    IF t.unparsed # <<>> THEN t.unparsed
    ELSE LET last == IF t.start > t.end THEN Size ELSE t.end
         IN  [i \in 1 .. last - t.start |-> t.buffer[t.start + i - 1]]

(* The place of what can be read from the origin, and its size. *)
write_buffer(t) ==
    IF t.state = "done" THEN <<0, 0>>
    ELSE IF t.start > t.end THEN <<t.end, min(t.start - t.end - 1, t.body_size)>>
    ELSE IF t.end = Size /\ t.start # 0 THEN <<0, min(t.start - 1, t.body_size)>>
    ELSE <<t.end, min(Size - t.end, t.body_size)>>

(* Mutant: everything that was read has been written, whether more is to   *)
(* come or not.                                                            *)
transmission_done_early(t) == t.start = t.end /\ t.unparsed = <<>>

transmission_done(t) == t.state = "done" /\ t.start = t.end /\ t.unparsed = <<>>

(* Mutant: the end of the ring is left behind the last place of it. *)
data_read_stays(t, n) ==
    IF t.unparsed # <<>> THEN [t EXCEPT !.unparsed = SubSeq(@, n + 1, Len(@))]
    ELSE [t EXCEPT !.start = IF t.start + n = Size THEN 0 ELSE @ + n]

(* n characters of read_buffer() have been written to the client. *)
data_read(t, n) ==
    IF t.unparsed # <<>> THEN [t EXCEPT !.unparsed = SubSeq(@, n + 1, Len(@))]
    ELSE IF t.start + n = Size THEN [t EXCEPT !.start = 0, !.end = IF @ = Size THEN 0 ELSE @]
    ELSE [t EXCEPT !.start = @ + n]

(* The data has been read to the place at, which write_buffer() returned   *)
(* when the read was started.                                              *)
data_written(t, at, data) ==
    LET n    == Len(data)
        from == IF t.end = Size THEN 0 ELSE t.end
        w    == [t EXCEPT !.buffer = [i \in DOMAIN @ |-> IF i \in at .. at + n - 1 THEN data[i - at + 1] ELSE @[i]]]
        s    == IF t.state = "no_size_given" THEN [w EXCEPT !.state = IF n = 0 THEN "done" ELSE @]
                ELSE IF t.state = "size_given"
                THEN [w EXCEPT !.body_size = @ - n, !.state = IF t.body_size = n THEN "done" ELSE @]
                ELSE handle_chunked_write(w, [i \in 1 .. n |-> w.buffer[from + i - 1]])
    IN  [s EXCEPT !.end = IF from + n = Size /\ t.start # 0 THEN 0 ELSE from + n]
=============================================================================
