------------------------------- MODULE Frame --------------------------------
(***************************************************************************)
(* Message frames (transport/frame.rs).  The header is four fields of      *)
(* fixed size: magic, code, body length and checksum.                      *)
(***************************************************************************)
EXTENDS Vlq

CONSTANT MaxBodySize    \* MAX_BODY_SIZE: 256 * 1024

ASSUME FrameAssumption == MaxBodySize \in Nat

HeaderSize == 4

\* The first bytes of the Blake2b digest of a body, taken to tell bodies of one
\* length apart.
Checksum(body) ==
    LET sum[i \in 0..Len(body)] ==
          IF i = 0 THEN 0 ELSE 2 * Continuation * sum[i - 1] + body[i]
    IN  sum[Len(body)]

\* encode, which write_frame writes without looking at the size of the body.
Encode(magic, frame) ==
    <<magic, frame.code, Len(frame.body), Checksum(frame.body)>> \o frame.body

\* What read_frame makes of the units that have arrived: a frame and the units after
\* it, an error, or nothing yet, while one of its two read_exact calls waits for more
\* (at the end of the stream that is an error as well).
Incomplete == [outcome |-> "incomplete"]

Malformed == [outcome |-> "error"]

\* Mutant: the magic is not compared.
ReadFrameAnyMagic(magic, data) ==
    LET total == HeaderSize + data[3]
        body  == SubSeq(data, HeaderSize + 1, total)
    IN  IF Len(data) < HeaderSize THEN Incomplete
        ELSE IF data[3] > MaxBodySize THEN Malformed
        ELSE IF Len(data) < total THEN Incomplete
        ELSE IF data[4] # Checksum(body) THEN Malformed
        ELSE [outcome |-> "frame", frame |-> [code |-> data[2], body |-> body],
              rest |-> SubSeq(data, total + 1, Len(data))]

ReadFrame(magic, data) ==
    LET total == HeaderSize + data[3]
        body  == SubSeq(data, HeaderSize + 1, total)
    IN  IF Len(data) < HeaderSize THEN Incomplete
        ELSE IF data[1] # magic \/ data[3] > MaxBodySize THEN Malformed
        ELSE IF Len(data) < total THEN Incomplete
        ELSE IF data[4] # Checksum(body) THEN Malformed
        ELSE [outcome |-> "frame", frame |-> [code |-> data[2], body |-> body],
              rest |-> SubSeq(data, total + 1, Len(data))]

\* decode is read_frame on data that is all there is; units after the frame are
\* ignored.
Decode(magic, data) ==
    LET read == ReadFrame(magic, data)
    IN  IF read.outcome = "frame" THEN Cursor(read.frame, <<>>) ELSE Failed

=============================================================================
