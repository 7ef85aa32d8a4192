-------------------------- MODULE Http2Connection --------------------------
(***************************************************************************)
(* One HTTP/2 connection (src/src/runtime.rs): the frame loop of           *)
(* handle_h2_connection_group, header blocks over several frames decoded   *)
(* with one HPACK table, streams whose frames come interleaved, and        *)
(* handle_h2_request, which answers one request at a time, from a file or  *)
(* through an HTTP/1.1 upstream.                                           *)
(*                                                                         *)
(* The client keeps to the protocol in what it sends of a stream, but may  *)
(* send a frame that is not allowed where it is, or cannot be parsed.      *)
(* Bodies are pieces; Http2Frames takes padding and priority off.          *)
(***************************************************************************)
EXTENDS Hpack, HpackStrings, Http2Frames, FileResponse, FiniteSets

CONSTANTS
    MaxStreams,   \* bound: requests the client opens
    Requests,     \* the fields of a request, in order
    Trailers,     \* the fields of trailers
    TableSize,    \* the size both tables begin with (4096 in the code)
    TableSizes,   \* sizes the client changes its table to
    Window,       \* the client's connection window, in pieces: it is never updated
    InFlight,     \* bound: frames that are sent and not yet read
    MaxBodySize,  \* client_max_body_size, in pieces
    FrameSize,    \* H2_DEFAULT_MAX_FRAME_SIZE
    Lengths,      \* lengths of files and of upstreams' responses
    Found,        \* files, at the moment their size and time are read
    Asked,        \* the Range, If-None-Match and If-Modified-Since of requests
    Upstreams,
    None

ASSUME RequestsAssumption == Requests \subseteq Seq(Field) /\ Trailers \in Seq(Field)
ASSUME TableAssumption == TableSize \in Nat /\ TableSizes \subseteq 0..TableSize
ASSUME BoundsAssumption ==
    MaxStreams \in Nat /\ Window \in Nat /\ InFlight \in Nat \ {0} /\ MaxBodySize \in Nat
ASSUME LengthsAssumption == FrameSize \in Nat \ {0} /\ Lengths \subseteq Nat
ASSUME AskedAssumption ==
    \A asked \in Asked :
      asked.range \in {NoRange} \cup [first : Nat \cup {NoRange}, last : Nat \cup {NoRange}]

Streams == 1..MaxStreams
Pieces == UNION {{<<s, i>> : i \in 1..Window} : s \in Streams}

\* A header block of which more is to come, and a request that is complete.
HeaderBlock == [stream : Streams, block : Seq(Representation(TableSize)), endStream : BOOLEAN]
CompleteRequest == [stream : Streams, headers : Seq(Field), body : Seq(Pieces)]
ASSUME NoneAssumption == None \notin Upstreams \cup HeaderBlock \cup CompleteRequest

VARIABLES
    client,     \* what the client has sent on each stream
    encoder,    \* the client's HPACK table
    fragment,   \* the rest of a header block, to go into CONTINUATION frames
    completed,  \* streams the client has ended before a GOAWAY, in order
    goaway,     \* whether it has sent GOAWAY
    gone,       \* whether it has closed the connection
    wire,       \* frames on their way to the server
    at,         \* where the connection task is
    table,      \* hpack
    streams,    \* the requests that are not complete
    header,     \* a header block that waits for CONTINUATION
    current,    \* the request in handle_h2_request
    candidates, \* upstreams still to be tried
    timedOut,   \* last_failure_was_timeout
    reached,    \* upstreams that have been sent bytes of it
    file,       \* the Range header and the size of the file it was applied to
    response,   \* the response to it
    remaining,  \* what of its body is not sent yet
    received,   \* the frames of the last response that the client has been sent
    outcomes    \* streams with an AccessOutcome

sender == <<client, encoder, fragment, completed, goaway, gone>>
reading == <<table, streams, header>>
proxied == <<candidates, timedOut, reached>>
answer == <<file, response, remaining>>
log == <<received, outcomes>>
vars == <<sender, wire, at, reading, current, proxied, answer, log>>

Reading == {"preface", "frames", "continuation"}
Handling == {"request", "connect", "forward", "collect", "respond", "data"}
Final == {"closed", "failed"}

NoAnswer == [status |-> 0, length |-> 0]
NoFile == [range |-> NoRange, size |-> 0]

Init ==
    /\ client = [s \in Streams |->
                   [at |-> "idle", fields |-> <<>>, body |-> <<>>, trailers |-> FALSE]]
    /\ encoder = EmptyEncoder(TableSize)
    /\ fragment = None /\ completed = <<>> /\ goaway = FALSE /\ gone = FALSE
    /\ at = "preface"
    /\ wire = <<>>
    /\ table = EmptyTable(TableSize) /\ streams = <<>> /\ header = None /\ current = None
    /\ candidates = {} /\ timedOut = FALSE /\ reached = {}
    /\ file = NoFile /\ response = NoAnswer /\ remaining = 0
    /\ received = <<>> /\ outcomes = <<>>

----------------------------------------------------------------------------
(* The client.                                                             *)

HeadersFrame(s, block, endHeaders, endStream) ==
    [type |-> "headers", stream |-> s, block |-> block, endHeaders |-> endHeaders,
     endStream |-> endStream]
ContinuationFrame(s, block, endHeaders) ==
    [type |-> "continuation", stream |-> s, block |-> block, endHeaders |-> endHeaders]
DataFrame(s, data, endStream) ==
    [type |-> "data", stream |-> s, data |-> data, endStream |-> endStream]

\* What the client sends while a request is handled stays in the socket until the
\* next frame is read and nothing in between depends on it, so it is sent then.
MaySend == ~gone /\ at \in Reading /\ Len(wire) < InFlight
Put(frame) == wire' = Append(wire, frame)

\* The stream's last frame is sent; what follows a GOAWAY is not counted on.
Ended(s, ended) ==
    completed' = IF ended /\ ~goaway THEN Append(completed, s) ELSE completed
Now(ended) == IF ended THEN "ended" ELSE "open"

\* A header block, whole or with a first fragment, and the table it leaves.
PutHeaders(s, fields, start, first, endStream) ==
    \E written \in Blocks(start, fields) :
      LET block == first \o written.block
      IN  \E n \in 1..Len(block) :
            /\ encoder' = written.encoder
            /\ Put(HeadersFrame(s, SubSeq(block, 1, n), n = Len(block), endStream))
            /\ fragment' = IF n = Len(block) THEN None
                           ELSE [stream |-> s, block |-> SubSeq(block, n + 1, Len(block)),
                                 endStream |-> endStream]
            /\ Ended(s, endStream /\ n = Len(block))

\* A request begins, perhaps with a new size for the table.
OpenStream(s) ==
    /\ MaySend /\ fragment = None /\ ~goaway
    /\ client[s].at = "idle" /\ \A r \in 1..(s - 1) : client[r].at # "idle"
    /\ \E fields \in Requests, endStream \in BOOLEAN :
         /\ client' = [client EXCEPT ![s].at = Now(endStream), ![s].fields = fields]
         /\ \/ PutHeaders(s, fields, encoder, <<>>, endStream)
            \/ \E n \in TableSizes :
                 PutHeaders(s, fields, EncoderResize(encoder, n), <<Resize(n)>>, endStream)
    /\ UNCHANGED <<goaway, gone, at, reading, current, proxied, answer, log>>

SendTrailers(s) ==
    /\ MaySend /\ fragment = None
    /\ client[s].at = "open"
    /\ client' = [client EXCEPT ![s].at = "ended", ![s].trailers = TRUE]
    /\ PutHeaders(s, Trailers, encoder, <<>>, TRUE)
    /\ UNCHANGED <<goaway, gone, at, reading, current, proxied, answer, log>>

SendContinuation ==
    /\ MaySend /\ fragment # None
    /\ Put(ContinuationFrame(fragment.stream, <<Head(fragment.block)>>, Len(fragment.block) = 1))
    /\ fragment' = IF Len(fragment.block) = 1 THEN None
                   ELSE [fragment EXCEPT !.block = Tail(@)]
    /\ Ended(fragment.stream, fragment.endStream /\ Len(fragment.block) = 1)
    /\ UNCHANGED <<client, encoder, goaway, gone, at, reading, current, proxied, answer, log>>

\* A piece of a body, or none with the end of the stream.
Spent == Cardinality({p \in Pieces : p[2] <= Len(client[p[1]].body)})

SendData(s, n, endStream) ==
    /\ MaySend /\ fragment = None
    /\ client[s].at = "open"
    /\ (n = 1 /\ Spent < Window) \/ (n = 0 /\ endStream)
    /\ LET data == IF n = 0 THEN <<>> ELSE <<<<s, Len(client[s].body) + 1>>>>
       IN  /\ client' = [client EXCEPT ![s].at = Now(endStream), ![s].body = @ \o data]
           /\ Put(DataFrame(s, data, endStream))
    /\ Ended(s, endStream)
    /\ UNCHANGED <<encoder, fragment, goaway, gone, at, reading, current, proxied, answer, log>>

\* RST_STREAM, one of the types the server ignores.
ResetStream(s) ==
    /\ MaySend /\ fragment = None
    /\ client[s].at = "open"
    /\ client' = [client EXCEPT ![s].at = "reset"]
    /\ Put([type |-> "ignored"])
    /\ UNCHANGED <<encoder, fragment, completed, goaway, gone, at, reading, current, proxied, answer, log>>

\* SETTINGS or PING that ask for an answer, and what cannot be parsed.
SendOther(type) ==
    /\ MaySend
    /\ Put([type |-> type])
    /\ UNCHANGED <<sender, at, reading, current, proxied, answer, log>>

SendGoaway ==
    /\ MaySend /\ fragment = None /\ ~goaway
    /\ goaway' = TRUE
    /\ Put([type |-> "goaway"])
    /\ UNCHANGED <<client, encoder, fragment, completed, gone, at, reading, current, proxied, answer, log>>

Leave ==
    /\ ~gone /\ at \in Reading
    /\ gone' = TRUE
    /\ UNCHANGED <<client, encoder, fragment, completed, goaway, wire, at, reading, current,
                   proxied, answer, log>>

----------------------------------------------------------------------------
(* The frame loop.  An error anywhere ends the connection.                 *)

Goto(step) == at' = step

\* The task returns, with its outcomes or with an error and without them; what
\* it held is dropped and the socket closed.
Return(step, result) ==
    /\ Goto(step)
    /\ outcomes' = result
    /\ wire' = <<>>
    /\ table' = EmptyTable(TableSize) /\ streams' = <<>> /\ header' = None /\ current' = None
    /\ candidates' = {} /\ timedOut' = FALSE /\ reached' = {}
    /\ file' = NoFile /\ response' = NoAnswer /\ remaining' = 0 /\ received' = <<>>
    /\ UNCHANGED sender
Close == Return("closed", outcomes)
Fail == Return("failed", <<>>)

\* The preface is there, is_h2_prior_knowledge has seen it; SETTINGS are sent.
Preface ==
    /\ at = "preface"
    /\ Goto("frames")
    /\ UNCHANGED <<sender, wire, reading, current, proxied, answer, log>>

Arrives(step, type) ==
    /\ at = step
    /\ wire # <<>> /\ Head(wire).type = type
Taken == wire' = Tail(wire) /\ UNCHANGED sender

NewStream == [headers |-> <<>>, body |-> <<>>]
StreamOf(s) == IF s \in DOMAIN streams THEN streams[s] ELSE NewStream

\* The stream is taken out of the map with its end, or put into it.
Store(s, stream, endStream) ==
    /\ streams' = [r \in IF endStream THEN DOMAIN streams \ {s} ELSE DOMAIN streams \cup {s} |->
                     IF r = s THEN stream ELSE streams[r]]
    /\ current' = IF endStream THEN [stream |-> s, headers |-> stream.headers, body |-> stream.body]
                  ELSE None
    /\ Goto(IF endStream THEN "request" ELSE "frames")

\* A complete header block sets the headers of its stream, trailers as well.
HeadersRead(s, block, endStream) ==
    \E decoded \in {Decode(table, block)} :
      IF decoded.ok
      THEN /\ table' = decoded.table
           /\ header' = None
           /\ Store(s, [StreamOf(s) EXCEPT !.headers = decoded.headers], endStream)
           /\ Taken /\ UNCHANGED <<proxied, answer, log>>
      ELSE Fail

\* Part of a header block waits for the rest.
HeadersWait(s, block, endStream) ==
    /\ header' = [stream |-> s, block |-> block, endStream |-> endStream]
    /\ Goto("continuation")
    /\ Taken /\ UNCHANGED <<table, streams, current, proxied, answer, log>>

ReadHeaders ==
    /\ Arrives("frames", "headers")
    /\ LET frame == Head(wire)
       IN  IF frame.endHeaders THEN HeadersRead(frame.stream, frame.block, frame.endStream)
           ELSE HeadersWait(frame.stream, frame.block, frame.endStream)

\* Faulty variant: the end of the stream is forgotten over a continuation.
ReadContinuationOpen ==
    /\ Arrives("continuation", "continuation")
    /\ LET block == header.block \o Head(wire).block
       IN  IF Head(wire).endHeaders THEN HeadersRead(header.stream, block, FALSE)
           ELSE HeadersWait(header.stream, block, FALSE)

\* read_h2_continuations: the block is decoded when it is complete.
ReadContinuation ==
    /\ Arrives("continuation", "continuation")
    /\ LET block == header.block \o Head(wire).block
       IN  IF Head(wire).endHeaders THEN HeadersRead(header.stream, block, header.endStream)
           ELSE HeadersWait(header.stream, block, header.endStream)

\* Faulty variant: a piece replaces those before it.
ReadDataLast ==
    /\ Arrives("frames", "data")
    /\ LET frame == Head(wire)
       IN  Store(frame.stream, [StreamOf(frame.stream) EXCEPT !.body = frame.data], frame.endStream)
    /\ Taken /\ UNCHANGED <<table, header, proxied, answer, log>>

ReadData ==
    /\ Arrives("frames", "data")
    /\ LET frame == Head(wire)
       IN  Store(frame.stream, [StreamOf(frame.stream) EXCEPT !.body = @ \o frame.data],
                 frame.endStream)
    /\ Taken /\ UNCHANGED <<table, header, proxied, answer, log>>

\* SETTINGS and PING are acknowledged; other types and acknowledgements ignored.
ReadOther ==
    /\ Arrives("frames", "control") \/ Arrives("frames", "ignored")
    /\ Taken /\ UNCHANGED <<at, reading, current, proxied, answer, log>>

\* Padding, a frame or a field that cannot be parsed; a frame of another type in
\* the middle of a header block; an acknowledgement that cannot be written.
ReadFails ==
    /\ \/ Arrives("frames", "malformed") \/ Arrives("frames", "control")
       \/ Arrives("continuation", "malformed") \/ Arrives("continuation", "control")
    /\ Fail

ReadGoaway ==
    /\ Arrives("frames", "goaway")
    /\ Close

\* The end of the connection is an end between frames, an error in a header
\* block or inside a frame.
ReadEnd ==
    /\ at \in {"frames", "continuation"} /\ gone /\ wire = <<>>
    /\ (at = "frames" /\ Close) \/ Fail

----------------------------------------------------------------------------
(* handle_h2_request.                                                      *)

Respond(status, length) ==
    /\ response' = [status |-> status, length |-> length]
    /\ Goto("respond")
Request(step) == at = step /\ UNCHANGED <<sender, wire, reading, current, remaining, log>>

\* The group has no server left, or the cell of its default one is locked.
NoServer ==
    /\ at = "request"
    /\ Fail

TooLarge ==
    /\ Request("request")
    /\ Len(current.body) > MaxBodySize
    /\ Respond(413, 1)
    /\ UNCHANGED <<proxied, file>>

Accepted == Len(current.body) <= MaxBodySize

\* No route (404), or an action that cannot be carried out (500, alike here).
LocalAnswer ==
    /\ Request("request")
    /\ Accepted
    /\ Respond(404, 1)
    /\ UNCHANGED <<proxied, file>>

\* The file may be written or taken away between being found and being read.
ServeFile(asked, found, read) ==
    /\ Request("request")
    /\ Accepted
    /\ response' = FileAnswer(asked, found, read)
    /\ file' = IF response'.status \in {206, 416} THEN [range |-> asked.range, size |-> read]
               ELSE NoFile
    /\ Goto("respond")
    /\ UNCHANGED proxied

\* The path is refused.
RefusePath ==
    /\ Request("request")
    /\ Accepted
    /\ Respond(403, 1)
    /\ UNCHANGED <<proxied, file>>

\* The upstreams of the route's group, which may be none.
Proxy(upstreams) ==
    /\ Request("request")
    /\ Accepted
    /\ candidates' = upstreams
    /\ Goto("connect")
    /\ UNCHANGED <<timedOut, reached, file, response>>

Connect(u) ==
    /\ Request("connect")
    /\ u \in candidates
    /\ candidates' = {u}
    /\ timedOut' = FALSE
    /\ Goto("forward")
    /\ UNCHANGED <<reached, file, response>>

\* Faulty variant: an upstream that has refused may be tried again.
ConnectFailsAgain(u, late) ==
    /\ Request("connect")
    /\ u \in candidates
    /\ timedOut' = late
    /\ UNCHANGED <<at, candidates, reached, file, response>>

ConnectFails(u, late) ==
    /\ Request("connect")
    /\ u \in candidates
    /\ candidates' = candidates \ {u}
    /\ timedOut' = late
    /\ UNCHANGED <<at, reached, file, response>>

NoUpstreamLeft ==
    /\ Request("connect")
    /\ candidates = {}
    /\ Respond(IF timedOut THEN 504 ELSE 502, 1)
    /\ timedOut' = FALSE
    /\ UNCHANGED <<candidates, reached, file>>

\* The request is sent whole, in part until the time-out, or not at all.
Forward ==
    /\ Request("forward")
    /\ reached' = reached \cup candidates
    /\ \/ Goto("collect") /\ UNCHANGED response
       \/ Respond(504, 1)
    /\ UNCHANGED <<candidates, timedOut, file>>

\* An error that is not a time-out ends the connection with all its streams.
ForwardFails ==
    /\ at = "forward"
    /\ Fail

\* The response is read to its end, or to a time-out behind its head, before
\* any of it is sent on; until then an error becomes the response.
Collect ==
    /\ Request("collect")
    /\ \/ \E length \in Lengths : Respond(200, length)
       \/ \E status \in {502, 504} : Respond(status, 1)
    /\ UNCHANGED <<proxied, file>>

----------------------------------------------------------------------------
(* send_h2_response.                                                       *)

Sent(frames, type, length, endStream) ==
    received' = Append(frames, [stream |-> current.stream, type |-> type, length |-> length,
                                endStream |-> endStream])

\* The outcome is noted and the loop goes on.
Done ==
    /\ outcomes' = Append(outcomes, current.stream)
    /\ current' = None /\ reached' = {} /\ candidates' = {}
    /\ remaining' = 0
    /\ Goto("frames")
    /\ UNCHANGED timedOut

\* Faulty variant: the HEADERS of an empty body do not end the stream.
ResponseHeadersOpen ==
    /\ at = "respond"
    /\ Sent(<<>>, "headers", response.length, FALSE)
    /\ response' = NoAnswer /\ file' = NoFile
    /\ IF response.length = 0 THEN Done
       ELSE remaining' = response.length /\ Goto("data") /\ UNCHANGED <<outcomes, current, proxied>>
    /\ UNCHANGED <<sender, wire, reading>>

ResponseHeaders ==
    /\ at = "respond"
    /\ Sent(<<>>, "headers", response.length, response.length = 0)
    /\ response' = NoAnswer /\ file' = NoFile
    /\ IF response.length = 0 THEN Done
       ELSE remaining' = response.length /\ Goto("data") /\ UNCHANGED <<outcomes, current, proxied>>
    /\ UNCHANGED <<sender, wire, reading>>

\* Faulty variant: frames of full size until less is left.
ResponseDataFull ==
    /\ at = "data"
    /\ IF remaining >= FrameSize
       THEN /\ Sent(received, "data", FrameSize, FALSE)
            /\ remaining' = remaining - FrameSize
            /\ UNCHANGED <<at, outcomes, current, proxied>>
       ELSE Sent(received, "data", remaining, TRUE) /\ Done
    /\ UNCHANGED <<sender, wire, reading, file, response>>

\* A frame of full size while more is left, else the last one.
ResponseData ==
    /\ at = "data"
    /\ IF remaining > FrameSize
       THEN /\ Sent(received, "data", FrameSize, FALSE)
            /\ remaining' = remaining - FrameSize
            /\ UNCHANGED <<at, outcomes, current, proxied>>
       ELSE Sent(received, "data", remaining, TRUE) /\ Done
    /\ UNCHANGED <<sender, wire, reading, file, response>>

WriteFails ==
    /\ at \in {"preface", "respond", "data"}
    /\ Fail

----------------------------------------------------------------------------
Client ==
    \/ \E s \in Streams :
         \/ OpenStream(s) \/ SendTrailers(s) \/ ResetStream(s)
         \/ \E n \in {0, 1}, endStream \in BOOLEAN : SendData(s, n, endStream)
    \/ SendContinuation
    \/ \E type \in {"control", "malformed"} : SendOther(type)
    \/ SendGoaway \/ Leave

Loop == Preface \/ ReadHeaders \/ ReadContinuation \/ ReadData \/ ReadOther \/ ReadFails
          \/ ReadGoaway \/ ReadEnd

Answering ==
    \/ NoServer \/ TooLarge \/ LocalAnswer \/ RefusePath
    \/ \E asked \in Asked, found \in Found, read \in Lengths \cup {NoRange} :
         ServeFile(asked, found, read)
    \/ ResponseHeaders \/ ResponseData \/ WriteFails

Proxying ==
    \/ \E upstreams \in {{}, Upstreams} : Proxy(upstreams)
    \/ \E u \in Upstreams : Connect(u) \/ \E late \in BOOLEAN : ConnectFails(u, late)
    \/ NoUpstreamLeft \/ Forward \/ ForwardFails \/ Collect

Next == Client \/ Loop \/ Answering \/ Proxying

Spec == Init /\ [][Next]_vars

\* The task reads what has arrived; upstreams are under time-outs.  Writes to the
\* client are not: that it reads them is assumed.
FairSpec == Spec /\ WF_vars(Loop \/ Answering \/ Proxying)

----------------------------------------------------------------------------
TypeOK ==
    /\ client \in [Streams -> [at : {"idle", "open", "ended", "reset"}, fields : Seq(Field),
                               body : Seq(Pieces), trailers : BOOLEAN]]
    /\ encoder.dynamic \in Seq(Field) /\ encoder.max \in 0..TableSize
    /\ fragment # None => fragment.stream \in Streams /\ fragment.block # <<>>
    /\ completed \in Seq(Streams) /\ goaway \in BOOLEAN /\ gone \in BOOLEAN
    /\ Len(wire) <= InFlight
    /\ at \in Reading \cup Handling \cup Final
    /\ table.dynamic \in Seq(Field) /\ table.size = SizeOf(table.dynamic)
    /\ table.size <= table.max /\ table.max \in 0..TableSize
    /\ DOMAIN streams \subseteq Streams
    /\ candidates \subseteq Upstreams /\ timedOut \in BOOLEAN /\ reached \subseteq Upstreams
    /\ response.length \in Nat /\ remaining \in Nat
    /\ (header = None) = (at # "continuation") /\ (current = None) = (at \notin Handling)
    /\ (response = NoAnswer) = (at # "respond") /\ (remaining = 0) = (at # "data")
    /\ \A i \in DOMAIN received : received[i].stream \in Streams /\ received[i].length \in Nat
    /\ outcomes \in Seq(Streams)

\* What of header blocks the client has written and the server not decoded.
Written(frame) == IF frame.type \in {"headers", "continuation"} THEN frame.block ELSE <<>>
Outstanding ==
    LET inFlight[n \in 0..Len(wire)] ==
          IF n = 0 THEN IF header = None THEN <<>> ELSE header.block
          ELSE inFlight[n - 1] \o Written(wire[n])
    IN  inFlight[Len(wire)] \o (IF fragment = None THEN <<>> ELSE fragment.block)

\* Decoding what is outstanding succeeds and gives the client's table: whatever
\* is added, evicted, resized and split over frames of any streams, an index
\* means the same entry on both sides.
TableInStep ==
    at \notin Final =>
      LET decoded == Decode(table, Outstanding)
      IN  decoded.ok /\ decoded.table.dynamic = encoder.dynamic

\* A request is handled when the client has ended it, with the fields and the
\* body that it sent on that stream, whatever it sent on others in between, and
\* goes to one upstream.  Trailers replace the fields, which is left out here.
RequestsIntact ==
    at \in Handling =>
      LET sent == client[current.stream]
      IN  /\ sent.at = "ended"
          /\ current.body = sent.body
          /\ sent.trailers \/ current.headers = sent.fields
          /\ Cardinality(reached) <= 1

\* A response is HEADERS and then DATA frames of one stream, not empty and not
\* too large; the last frame, and no other, ends the stream; then the announced
\* length has been sent, and there is an outcome.
ResponsesWellFormed ==
    LET sum[i \in DOMAIN received] == IF i = 1 THEN 0 ELSE sum[i - 1] + received[i].length
        ended == received # <<>> /\ received[Len(received)].endStream
    IN  /\ \A i \in DOMAIN received :
             /\ received[i].stream = received[1].stream
             /\ received[i].type = IF i = 1 THEN "headers" ELSE "data"
             /\ i > 1 => received[i].length \in 1..FrameSize
             /\ received[i].endStream = (sum[i] = received[1].length)
        /\ ended => outcomes # <<>> /\ outcomes[Len(outcomes)] = received[1].stream
        /\ at \in Reading => received = <<>> \/ ended

\* When the connection ends without an error, each request that the client had
\* completed before it said GOAWAY has been answered, once, in that order.
CompletedAreAnswered ==
    /\ at = "closed" => outcomes = completed
    /\ Len(outcomes) <= Len(completed)
    /\ outcomes = SubSeq(completed, 1, Len(outcomes))

\* A partial response has the positions of the file that were asked for, and
\* one is refused only if there are none.
RangesInside ==
    at = "respond" /\ file.range # NoRange =>
      LET wanted == Wanted(file.range, file.size)
      IN  IF wanted = {} THEN response.status = 416
          ELSE /\ response.status = 206
               /\ LET part == ParseByteRange(file.range, file.size)
                  IN  part.first..part.last = wanted /\ response.length = Cardinality(wanted)

\* These two do not depend on the state and are asked of the initial one.
Initially == at = "preface" /\ wire = <<>> /\ ~gone

\* What is in a frame means the same on both sides: the integers of a header
\* block at every value of their width and with every prefix; its strings, for
\* each octet, in the Huffman code of the RFC or without it, where padding that
\* may hide a symbol is refused; and what lies between priority and padding.
EncodingsExact ==
    Initially =>
      /\ \A prefixBits \in 4..7 : ReadAsWritten(prefixBits) /\ ReadAsMeant(prefixBits)
      /\ HuffmanCanonical /\ StringsReadAsWritten /\ PaddingRefused
      /\ FramesTold(7)

\* No path leads out of the directory of its route, and no client keeps content
\* of a file because it is told that the file has not changed when it has.
FilesServedTruly == Initially => PathsStayInside(5) /\ CacheStaysTrue({1, 2}, 3)

\* A request that the client has completed is answered or the connection ends:
\* no other stream and no upstream holds it for ever.
RequestConcluded ==
    \A s \in Streams :
      (\E i \in DOMAIN completed : completed[i] = s)
        ~> (at \in Final \/ \E i \in DOMAIN outcomes : outcomes[i] = s)
=============================================================================
