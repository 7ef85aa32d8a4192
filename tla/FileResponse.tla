---------------------------- MODULE FileResponse ----------------------------
(***************************************************************************)
(* What a file route answers (src/src/runtime.rs: build_file_response and, *)
(* with the same decisions, serve_file): the file that a path stands for,  *)
(* a status and a length.  The size and the time of the file are read      *)
(* first, the content later.                                               *)
(***************************************************************************)
EXTENDS Naturals, FiniteSetsExt, SequencesExt

CONSTANTS
    NoRange,    \* no Range header; also an omitted bound of one
    NoPath,     \* a path that is refused
    Second      \* ticks of the file system's clock in a second

ASSUME SecondAssumption == Second \in Nat \ {0}
ASSUME NoRangeAssumption == NoRange \notin Nat \cup [first : Nat, last : Nat]

\* A slash, a dot and any other character.
Characters == {"/", ".", "a"}
ASSUME NoPathAssumption == NoPath \notin Seq(Seq(Characters))

----------------------------------------------------------------------------
(* Paths, as sequences of characters.                                      *)

\* The segments between slashes, without empty ones.
Segments(path) ==
    LET starts == {i \in DOMAIN path : path[i] # "/" /\ (i = 1 \/ path[i - 1] = "/")}
        end(i) == Min({j \in i..Len(path) : j = Len(path) \/ path[j + 1] = "/"})
        nth(n) == CHOOSE i \in starts : Cardinality({j \in starts : j < i}) = n - 1
    IN  [n \in 1..Cardinality(starts) |-> SubSeq(path, nth(n), end(nth(n)))]

\* A component that is no name: the directory itself and the one above it.
Dots == {<<".">>, <<".", ".">>}
Normal(path) == \A n \in DOMAIN Segments(path) : Segments(path)[n] \notin Dots

\* With an alias the path of the route's match is taken off the front.
Suffix(alias, match, path) ==
    IF alias /\ IsPrefix(match, path) THEN SubSeq(path, Len(match) + 1, Len(path)) ELSE path

\* Faulty variant: the path is looked at before the match is taken off.
ResolveUnstripped(alias, match, path) ==
    IF Normal(path) THEN Segments(Suffix(alias, match, path)) ELSE NoPath

\* resolve_file_path: what is put behind the directory of the route.
ResolveFilePath(alias, match, path) ==
    LET suffix == Suffix(alias, match, path)
    IN  IF Normal(suffix) THEN Segments(suffix) ELSE NoPath

----------------------------------------------------------------------------
(* Ranges.                                                                 *)

\* A Range header is [first |-> .., last |-> ..]; a header of another form
\* (another unit, several ranges, no number) has both bounds omitted.

\* Faulty variant: a last position beyond the end is kept.
LastAsAsked(last, size) == IF last = NoRange THEN size - 1 ELSE last

\* The last position of a range that has a first one.
LastWithin(last, size) == IF last = NoRange \/ last > size - 1 THEN size - 1 ELSE last

\* parse_byte_range: the first and last position asked for, NoRange for none.
ParseByteRange(range, size) ==
    LET suffix == [first |-> IF range.last > size THEN 0 ELSE size - range.last,
                   last |-> size - 1]
        last == LastWithin(range.last, size)
    IN  IF size = 0 THEN NoRange
        ELSE IF range.first = NoRange
          THEN IF range.last \in {NoRange, 0} THEN NoRange ELSE suffix
        ELSE IF range.first >= size \/ last < range.first THEN NoRange
        ELSE [first |-> range.first, last |-> last]

\* The response to a request for content of a size that has been read.
ContentResponse(range, size) ==
    LET part == ParseByteRange(range, size)
    IN  IF range = NoRange THEN [status |-> 200, length |-> size]
        ELSE IF part = NoRange THEN [status |-> 416, length |-> 1]
        ELSE [status |-> 206, length |-> part.last - part.first + 1]

----------------------------------------------------------------------------
(* Files.  [kind |-> .., size |-> .., modified |-> ..] is what metadata     *)
(* finds: "missing", "denied", "directory" or "file".  A request asks with *)
(* a range, If-None-Match lines and If-Modified-Since dates.               *)

Etag(v) == [size |-> v.size, second |-> v.modified \div Second]
LastModified(v) == v.modified \div Second

NotModified(asked, v) ==
    Etag(v) \in asked.etags \/ \E date \in asked.dates : v.modified <= date * Second

\* build_file_response; read is the length of the content, NoRange if it cannot
\* be read.
FileAnswer(asked, found, read) ==
    IF found.kind = "missing" THEN [status |-> 404, length |-> 1]
    ELSE IF found.kind # "file" THEN [status |-> 403, length |-> 1]
    ELSE IF NotModified(asked, found) THEN [status |-> 304, length |-> 0]
    ELSE IF read = NoRange THEN [status |-> 403, length |-> 1]
    ELSE ContentResponse(asked.range, read)

\* Faulty variant: the content is read before the size and the time.
CopyContentFirst(versions, early, late) ==
    [etag |-> Etag(versions[late]), date |-> LastModified(versions[late]), content |-> early]

\* What a client keeps of an answer with content, of a file that is written anew
\* again and again: its tags from one version, its content from a later one.
Copy(versions, early, late) ==
    [etag |-> Etag(versions[early]), date |-> LastModified(versions[early]), content |-> late]

----------------------------------------------------------------------------
(* What they promise.                                                      *)

\* However a path is written and whatever an alias takes off, the file lies
\* under the directory of the route: on the way to it no component leads above
\* the directory.  A path is refused only for a component that is no name.
PathsStayInside(length) ==
    \A path \in BoundedSeq(Characters, length),
       match \in {<<"/">>, <<"/", "a">>, <<"/", "a", "/">>}, alias \in BOOLEAN :
      LET found == ResolveFilePath(alias, match, path)
          depth[n \in 0..Len(found)] ==
            IF n = 0 THEN 1
            ELSE IF depth[n - 1] = 0 THEN 0
            ELSE IF found[n] = <<".", ".">> THEN depth[n - 1] - 1
            ELSE IF found[n] = <<".">> THEN depth[n - 1] ELSE depth[n - 1] + 1
      IN  IF found = NoPath THEN \E n \in DOMAIN path : path[n] = "."
          ELSE depth[Len(found)] > 0

\* A client that is told 304 when it asks with the tags of an earlier answer has
\* the content the file has now, also if the file was written between the two
\* steps of that answer; unless it was written twice within a second, which the
\* tags cannot tell apart.  Times do not go back.
CacheStaysTrue(sizes, last) ==
    \A versions \in [1..3 -> [size : sizes, modified : 0..last]] :
      (\A i \in 1..2 : versions[i].modified <= versions[i + 1].modified) =>
        \A early \in 1..3 : \A late \in early..3 : \A now \in late..3 :
          LET copy == Copy(versions, early, late)
          IN  \A asked \in [range : {NoRange}, etags : {{}, {copy.etag}}, dates : {{}, {copy.date}}] :
                FileAnswer(asked, [kind |-> "file", size |-> versions[now].size,
                                    modified |-> versions[now].modified],
                            versions[now].size).status = 304
                  => \/ copy.content = now
                     \/ LastModified(versions[copy.content]) = LastModified(versions[now])

(* The positions that a Range header asks for, after RFC 9110; none if its *)
(* bounds are the wrong way round, which the code refuses.                 *)

Wanted(range, size) ==
    {p \in 0..(size - 1) :
       IF range.first = NoRange
       THEN range.last # NoRange /\ p + range.last >= size
       ELSE p >= range.first /\ (range.last = NoRange \/ p <= range.last)}
=============================================================================
