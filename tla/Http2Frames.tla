---------------------------- MODULE Http2Frames ----------------------------
(***************************************************************************)
(* The octets of an HTTP/2 frame (src/src/runtime.rs): the length in front *)
(* of it (read_h2_frame, write_h2_frame), and the padding and priority     *)
(* around the header block or data that it carries (h2_headers_payload,    *)
(* h2_data_payload).                                                       *)
(***************************************************************************)
EXTENDS Naturals, SequencesExt

\* A length of 24 bits, the highest octet first.
WriteLength(length) == <<(length \div 65536) % 256, (length \div 256) % 256, length % 256>>
ReadLength(octets) == 65536 * octets[1] + 256 * octets[2] + octets[3]

PriorityOctets == 5

Refused == [ok |-> FALSE]
Between(payload, start, end) == [ok |-> TRUE, read |-> SubSeq(payload, start + 1, end)]

\* The end of what a padded payload carries, behind which its padding lies.
PaddingFits(payload) == payload # <<>> /\ payload[1] <= Len(payload) - 1
EndOf(padded, payload) == Len(payload) - IF padded THEN payload[1] ELSE 0

Start(padded, priority) ==
    (IF padded THEN 1 ELSE 0) + (IF priority THEN PriorityOctets ELSE 0)

\* Faulty variant: that the priority still fits behind the padding is not checked.
HeadersPayloadUnchecked(padded, priority, payload) ==
    IF padded /\ ~PaddingFits(payload) THEN Refused
    ELSE Between(payload, Start(padded, priority), EndOf(padded, payload))

\* h2_headers_payload: the priority lies behind the length of the padding.
HeadersPayload(padded, priority, payload) ==
    IF padded /\ ~PaddingFits(payload) THEN Refused
    ELSE IF Start(padded, priority) > EndOf(padded, payload) THEN Refused
    ELSE Between(payload, Start(padded, priority), EndOf(padded, payload))

\* h2_data_payload.
DataPayload(padded, payload) ==
    IF padded /\ ~PaddingFits(payload) THEN Refused
    ELSE Between(payload, Start(padded, FALSE), EndOf(padded, payload))

----------------------------------------------------------------------------
(* The peer, after RFC 7540: 6.1 and 6.2.                                  *)

Framed(padded, pad, priority, carried) ==
    (IF padded THEN <<Len(pad)>> ELSE <<>>)
      \o (IF priority THEN [i \in 1..5 |-> 2] ELSE <<>>)
      \o carried \o (IF padded THEN pad ELSE <<>>)

\* Whether octets of such a frame can be framed so at all.
Possible(padded, priority, payload) ==
    /\ padded => payload # <<>>
    /\ \E carried \in 0..Len(payload) :
         Len(payload) = carried + (IF padded THEN 1 + payload[1] ELSE 0)
                          + (IF priority THEN 5 ELSE 0)

\* What a peer frames is what is read: no octet of padding or priority is taken
\* for a header or for data.
CarriedIsRead(carried, pad, padded, priority) ==
    LET read == [ok |-> TRUE, read |-> carried]
    IN  /\ HeadersPayload(padded, priority, Framed(padded, pad, priority, carried)) = read
        /\ DataPayload(padded, Framed(padded, pad, FALSE, carried)) = read

\* What no peer can have framed is refused, and nothing else: no length reaches
\* out of the frame.
ImpossibleIsRefused(payload, padded, priority) ==
    /\ HeadersPayload(padded, priority, payload).ok = Possible(padded, priority, payload)
    /\ DataPayload(padded, payload).ok = Possible(padded, FALSE, payload)

\* The length of a frame that is written is the length that is read.
LengthIsRead(length) == ReadLength(WriteLength(length)) = length

Byte == 0..255
LongestFrame == 16777215
LengthBorders == {0, 1, 255, 256, 16384, 65535, 65536, LongestFrame}

\* The three, of some frames: what is carried and padded has up to three octets,
\* a payload up to size; lengths are at the borders of their octets.
FramesTold(size) ==
    /\ \A carried, pad \in BoundedSeq({0, 3}, 3), padded, priority \in BOOLEAN :
         CarriedIsRead(carried, pad, padded, priority)
    /\ \A payload \in BoundedSeq({0, 1, 3}, size), padded, priority \in BOOLEAN :
         ImpossibleIsRefused(payload, padded, priority)
    /\ \A length \in LengthBorders : LengthIsRead(length)
=============================================================================
