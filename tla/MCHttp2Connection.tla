------------------------- MODULE MCHttp2Connection -------------------------
(* Instances of Http2Connection for TLC.                                   *)
EXTENDS Http2Connection

CONSTANTS n1, n2, v1, v2

F(n, v) == [name |-> n, value |-> v]

\* One static field; sizes of one and of two, in a table of two.
OneStatic == <<F(n1, v1)>>
SmallOctets == [x \in {n1, n2, v1, v2} |-> IF x = v2 THEN 1 ELSE 0]
SmallRequests == {<<F(n1, v2)>>, <<F(n2, v1), F(n2, v1)>>}
OneTrailer == <<F(n2, v1)>>

\* An open range, one beyond the end, a suffix, and one that is never satisfied.
SmallRanges ==
    {[first |-> 1, last |-> NoRange], [first |-> 0, last |-> 5], [first |-> NoRange, last |-> 1],
     [first |-> 2, last |-> 1]}

\* A file of two octets, written late in the second 1: asked for with a range, or
\* with its tag, the date it was written at, or the next.
SmallFound ==
    {[kind |-> kind, size |-> 2, modified |-> 3] : kind \in {"missing", "directory", "file"}}
Plain == [range |-> NoRange, etags |-> {}, dates |-> {}]
SmallAsked ==
    {[Plain EXCEPT !.range = r] : r \in SmallRanges \cup {NoRange}}
      \cup {[Plain EXCEPT !.etags = {[size |-> 2, second |-> 1]}]}
      \cup {[Plain EXCEPT !.dates = {d}] : d \in {1, 2}}
=============================================================================
