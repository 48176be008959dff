----------------------------- MODULE BodyDecoder -----------------------------
(***************************************************************************)
(* http::body_decoder and the chunk_decoder it is derived from.  A decoder *)
(* is a record; current holds the characters that were fed and not decoded *)
(* yet, and error stands for a chunk_decoder_parse_error.                  *)
(***************************************************************************)
EXTENDS HttpMessage
LOCAL INSTANCE SequencesExt
LOCAL INSTANCE FiniteSetsExt

CONSTANTS
    MaxSize         \* the largest value of a std::size_t

NewDecoder ==
    [total_size |-> 0, current |-> <<>>, chunked |-> FALSE,
     current_chunk |-> 0, chunked_state |-> "chunk_size_start", error |-> FALSE]

(* Mutant: a body of a given length is one character too long. *)
start_too_long(d, m) ==
    IF option_available(m, "transfer-encoding", "chunked") THEN [d EXCEPT !.chunked = TRUE]
    ELSE IF HasHeader(m, "content-length") /\ IsNumber(Head(find_header(m, "content-length")).value)
    THEN [d EXCEPT !.total_size = parse_number(Head(find_header(m, "content-length")).value) + 1, !.current = <<>>]
    ELSE d

(* body_decoder::start().  Neither chunked_ nor the state of the chunks is *)
(* set back, and no caller looks at the error code for a missing or        *)
(* malformed length.                                                       *)
start(d, m) ==
    IF option_available(m, "transfer-encoding", "chunked") THEN [d EXCEPT !.chunked = TRUE]
    ELSE IF HasHeader(m, "content-length") /\ IsNumber(Head(find_header(m, "content-length")).value)
    THEN [d EXCEPT !.total_size = parse_number(Head(find_header(m, "content-length")).value), !.current = <<>>]
    ELSE d

done(d) ==
    IF d.chunked THEN d.chunked_state = "chunk_done" ELSE d.total_size = 0 /\ d.current = <<>>

(* What one character of the framing does. *)
chunk_char(d, c) ==
    LET to(s) == [d EXCEPT !.chunked_state = s]
        fail  == [d EXCEPT !.error = TRUE]
        s     == d.chunked_state
    IN  CASE s = "chunk_size_start" /\ c[1] = "hex" ->
               [d EXCEPT !.current_chunk = c[2], !.chunked_state = "chunk_size"]
          [] s = "chunk_size" /\ c[1] = "hex" /\ d.current_chunk <= MaxSize \div 16 ->
               [d EXCEPT !.current_chunk = 16 * @ + c[2]]
          [] s = "chunk_size" /\ c = <<"ext">>      -> to("chunk_extension")
          [] s \in {"chunk_size", "chunk_extension"} /\ c = CR -> to("chunk_size_lf")
          [] s = "chunk_extension" /\ c # CR        -> d
          [] s = "chunk_size_lf" /\ c = LF          ->
               to(IF d.current_chunk = 0 THEN "chunk_trailer_start" ELSE "chunk_data")
          [] s = "chunk_data_cr" /\ c = CR          -> to("chunk_data_lf")
          [] s = "chunk_data_lf" /\ c = LF          -> to("chunk_size_start")
          [] s = "chunk_trailer_start"              -> to(IF c = CR THEN "chunk_last_trailer_lf" ELSE "chunk_trailer")
          [] s = "chunk_trailer"                    -> IF c = CR THEN to("chunk_trailer_lf") ELSE d
          [] s = "chunk_trailer_lf" /\ c = LF       -> to("chunk_trailer_start")
          [] s = "chunk_last_trailer_lf" /\ c = LF  -> to("chunk_done")
          [] OTHER                                  -> fail

(* feed_chunked_buffer() returns when it has passed data to take_chunk().  *)
(* The result holds the decoder and the number of characters it took.      *)
RECURSIVE feed_chunked_buffer(_, _, _)
feed_chunked_buffer(d, data, taken) ==
    IF data = <<>> \/ d.chunked_state = "chunk_done" \/ d.error THEN [decoder |-> d, taken |-> taken]
    ELSE IF d.chunked_state = "chunk_data"
    THEN LET bite == Min({Len(data), d.current_chunk})
         IN  [decoder |-> [d EXCEPT !.current = SubSeq(data, 1, bite), !.current_chunk = @ - bite,
                                    !.chunked_state = IF bite = d.current_chunk THEN "chunk_data_cr" ELSE @],
              taken   |-> taken + bite]
    ELSE feed_chunked_buffer(chunk_char(d, Head(data)), Tail(data), taken + 1)

feed_buffer(d, data) ==
    IF d.chunked THEN feed_chunked_buffer(d, data, 0)
    ELSE LET n == Min({Len(data), d.total_size})
         IN  [decoder |-> [d EXCEPT !.current = SubSeq(data, 1, n), !.total_size = @ - n], taken |-> n]

(* decode() hands out current and forgets it. *)
Decoded(d) == [d EXCEPT !.current = <<>>]
=============================================================================
