--------------------------- MODULE HttpConnection ---------------------------
(***************************************************************************)
(* One HTTP/1.1 client connection (src/src/runtime.rs): the loop of        *)
(* handle_connection_group that reads a request, answers it locally or     *)
(* through an upstream (serve_proxy), and keeps the connection or not, and *)
(* the access log that the accept task writes when the loop has ended.     *)
(*                                                                         *)
(* Bytes are units: the head of a request, a piece of its body, and the    *)
(* terminator of a chunked body.  A read takes any number of the units     *)
(* that have arrived, and each write to a peer may fail.                   *)
(***************************************************************************)
EXTENDS Naturals, Sequences, FiniteSets, ProxyRequest

CONSTANTS
    Upstreams,          \* the upstreams a route may choose from
    Shapes,             \* the requests a client may send
    MaxRequests,        \* bound: how many of them on the connection
    MaxBodySize,        \* client_max_body_size, in pieces
    KeepaliveRequests,  \* keepalive_requests
    Pipelining,         \* whether clients send a request before the last answer
    None

\* Shape: how the request is answered, the pieces of its body, whether they are
\* chunked, and whether the client asks to keep the connection.
Shape == [action : {"local", "proxy", "websocket"}, body : Nat, chunked : BOOLEAN,
          keepAlive : BOOLEAN]

ASSUME ShapesAssumption == Shapes \subseteq Shape
ASSUME BoundsAssumption == MaxRequests \in Nat \ {0} /\ MaxBodySize \in Nat
ASSUME KeepaliveAssumption == KeepaliveRequests \in Nat
ASSUME PipeliningAssumption == Pipelining \in BOOLEAN
ASSUME NoneAssumption == None \notin Upstreams \cup 1..MaxRequests

VARIABLES
    requests,    \* the requests the client has in mind, in order
    sent,        \* units that have arrived from the client
    gone,        \* whether the client has closed its side, or reset the connection
    taken,       \* units the server has read
    at,          \* where the connection task is
    start,       \* position of the current request's head
    body,        \* pieces of its body that are in the HttpRequest
    handled,     \* requests handled, the current one included
    keepAlive,   \* what a local response says of the connection
    closeAfter,  \* close_after_response
    candidates,  \* upstreams still to be tried
    lastTimeout, \* last_failure_was_timeout
    reached,     \* upstreams that have been sent bytes of the current request
    forwarded,   \* pieces of its body sent upstream
    status,      \* status of the answer the server is about to write itself
    heads,       \* response heads the client has been sent
    outcomes,    \* the AccessOutcomes collected by the loop
    access       \* entries of this connection in the access log

wire == <<requests, sent, gone>>
current == <<start, body, handled, keepAlive, closeAfter>>
proxied == <<candidates, lastTimeout, reached, forwarded>>
answers == <<status, heads, outcomes, access>>
vars == <<wire, taken, at, current, proxied, answers>>

Steps == {"peek", "head", "chunks", "refuse", "dispatch", "local", "local_body", "connecting",
          "request", "body", "response", "stream", "tunnel", "gateway", "done", "failed",
          "logged", "ended"}

----------------------------------------------------------------------------
(* The stream of units the client sends.                                   *)

UnitsOf(shape) == 1 + shape.body + IF shape.chunked THEN 1 ELSE 0

\* Position of the head of request i; one past the end for i = MaxRequests + 1.
HeadPosition ==
    LET position[i \in 1..(MaxRequests + 1)] ==
          IF i = 1 THEN 1 ELSE position[i - 1] + UnitsOf(requests[i - 1])
    IN  position
Length == HeadPosition[MaxRequests + 1] - 1

\* The request whose head is at a position, None if another unit is there.
HeadAt(p) == IF \E i \in 1..MaxRequests : HeadPosition[i] = p
             THEN CHOOSE i \in 1..MaxRequests : HeadPosition[i] = p ELSE None

Request == HeadAt(start)
ShapeNow == requests[Request]

\* What the units read so far hold of the current request.
Smaller(m, n) == IF m < n THEN m ELSE n
BodyUpTo(t) == Smaller(t - start, ShapeNow.body)
TerminatedAt(t) == t - start > ShapeNow.body

Init ==
    /\ requests \in [1..MaxRequests -> Shapes]
    /\ sent = 0 /\ taken = 0 /\ gone = FALSE
    /\ at = "peek"
    /\ start = 0 /\ body = 0 /\ handled = 0 /\ keepAlive = FALSE /\ closeAfter = FALSE
    /\ candidates = {} /\ lastTimeout = FALSE /\ reached = {} /\ forwarded = 0
    /\ status = 0 /\ heads = <<>> /\ outcomes = <<>> /\ access = <<>>

----------------------------------------------------------------------------
(* The client.                                                             *)

\* Without pipelining, a head is only sent once the last request is answered.
Send ==
    /\ ~gone
    /\ sent < Length
    /\ HeadAt(sent + 1) \notin {None, 1} /\ ~Pipelining
         => at = "head" /\ HeadAt(sent + 1) = handled + 1
    /\ sent' = sent + 1
    /\ UNCHANGED <<requests, gone, taken, at, current, proxied, answers>>

Leave ==
    /\ ~gone
    /\ gone' = TRUE
    /\ UNCHANGED <<requests, sent, taken, at, current, proxied, answers>>

Arrived == taken < sent
Goto(step) == at' = step
Fail == Goto("failed")

----------------------------------------------------------------------------
(* Reading a request (is_h2_prior_knowledge, read_http_request).           *)

\* peek sees a byte that is not the HTTP/2 preface, or the end of the stream.
Peek ==
    /\ at = "peek"
    /\ Arrived \/ gone
    /\ Goto("head")
    /\ UNCHANGED <<wire, taken, current, proxied, answers>>

\* The time-out of the peek is an error, unlike that of the first read.
PeekTimesOut ==
    /\ at = "peek"
    /\ ~Arrived /\ ~gone
    /\ Fail
    /\ UNCHANGED <<wire, taken, current, proxied, answers>>

\* The group has no server left, or the cell of its default one is locked.
NoDefaultServer ==
    /\ at = "peek"
    /\ Fail
    /\ UNCHANGED <<wire, taken, current, proxied, answers>>

\* The stream ends between requests, or no request comes in time.
NoRequest ==
    /\ at = "head"
    /\ ~Arrived
    /\ Goto("done")
    /\ UNCHANGED <<wire, taken, current, proxied, answers>>

\* What follows the head in the buffer is the body, as far as it goes; what
\* follows the body is dropped.  A unit that is no head is not a request.
ReadHead ==
    /\ at = "head"
    /\ taken' \in (taken + 1)..sent
    /\ start' = taken + 1
    /\ IF HeadAt(start') = None
       THEN Fail /\ UNCHANGED body
       ELSE LET shape == requests[HeadAt(start')]
                got == Smaller(taken' - start', shape.body)
            IN  /\ body' = got
                /\ Goto(IF shape.chunked
                        THEN IF got > MaxBodySize THEN "refuse"
                             ELSE IF taken' - start' > shape.body THEN "dispatch" ELSE "chunks"
                        ELSE IF shape.body > MaxBodySize THEN "refuse" ELSE "dispatch")
    /\ UNCHANGED <<wire, handled, keepAlive, closeAfter, proxied, answers>>

\* read_chunked_body: until the terminator, or one piece too many.
ReadChunks ==
    /\ at = "chunks"
    /\ taken' \in (taken + 1)..sent
    /\ body' = BodyUpTo(taken')
    /\ Goto(IF body' > MaxBodySize THEN "refuse"
            ELSE IF TerminatedAt(taken') THEN "dispatch" ELSE "chunks")
    /\ UNCHANGED <<wire, start, handled, keepAlive, closeAfter, proxied, answers>>

\* client_body_timeout: the connection just ends.  The end of the stream is an
\* error.
ChunksStop ==
    /\ at = "chunks"
    /\ ~Arrived
    /\ Goto(IF gone THEN "failed" ELSE "done")
    /\ UNCHANGED <<wire, taken, current, proxied, answers>>

\* A head or a chunk that is malformed, too large or cut off by the end of the
\* stream is an error, and nothing is answered.
Malformed ==
    /\ at \in {"head", "chunks"}
    /\ taken' \in (taken + 1)..sent
    /\ Fail
    /\ UNCHANGED <<wire, current, proxied, answers>>

\* A read of the stream returns an error: the connection was reset, whatever had
\* arrived.  Between requests, too, this is no end of the stream.
ReadFails ==
    /\ at \in {"peek", "head", "chunks", "body"}
    /\ gone
    /\ Fail
    /\ UNCHANGED <<wire, taken, current, proxied, answers>>

Answered(code, keep) == heads' = Append(heads, [request |-> Request, status |-> code,
                                                keepAlive |-> keep])
Logged(code) == outcomes' = Append(outcomes, [request |-> Request, status |-> code])

\* 413, which is not among the outcomes.
Refuse ==
    /\ at = "refuse"
    /\ Answered(413, FALSE)
    /\ Goto("done")
    /\ UNCHANGED <<wire, taken, current, proxied, status, outcomes, access>>

----------------------------------------------------------------------------
(* handle_http_request.                                                    *)

Complete == body >= ShapeNow.body

\* Faulty variants: an unread body does not end the connection; one request more
\* is accepted than the responses announce.
ClosesUnread(keep) == ~keep \/ ShapeNow.action # "local"
ClosesOneLater(keep) ==
    \/ ~ShapeNow.keepAlive \/ handled > KeepaliveRequests
    \/ ~Complete \/ ShapeNow.action # "local"

Closes(keep) == ~keep \/ ~Complete \/ ShapeNow.action # "local"

\* The proxy route's candidates are any subset: the choice is in RequestRouting.
Dispatch ==
    /\ at = "dispatch"
    /\ handled' = handled + 1
    /\ keepAlive' = (ShapeNow.keepAlive
                       /\ handled' < IF KeepaliveRequests = 0 THEN 1 ELSE KeepaliveRequests)
    /\ closeAfter' = Closes(keepAlive')
    /\ IF ShapeNow.action = "local"
       THEN Goto("local") /\ UNCHANGED <<candidates, lastTimeout>>
       ELSE Goto("connecting") /\ candidates' \in SUBSET Upstreams /\ lastTimeout' = FALSE
    /\ reached' = {} /\ forwarded' = 0
    /\ UNCHANGED <<wire, taken, start, body, answers>>

\* write_response writes the head, then the body.  The status of a file, of 404
\* and of 500 is shown as 200.
LocalHead ==
    /\ at = "local"
    /\ Answered(200, keepAlive)
    /\ Goto("local_body")
    /\ UNCHANGED <<wire, taken, current, proxied, status, outcomes, access>>

LocalBody ==
    /\ at = "local_body"
    /\ Logged(200)
    /\ Goto(IF closeAfter THEN "done" ELSE "head")
    /\ UNCHANGED <<wire, taken, current, proxied, status, heads, access>>

\* A write of the server's own response fails or times out.
WriteFails ==
    /\ at \in {"refuse", "local", "local_body", "gateway"}
    /\ Fail
    /\ UNCHANGED <<wire, taken, current, proxied, answers>>

----------------------------------------------------------------------------
(* serve_proxy.                                                            *)

\* One candidate after the other, until one accepts.
Connect(u) ==
    /\ at = "connecting"
    /\ u \in candidates
    /\ Goto("request")
    /\ candidates' = {u}
    /\ UNCHANGED <<wire, taken, current, lastTimeout, reached, forwarded, answers>>

\* Refused or no valid address (timedOut FALSE), or proxy_connect_timeout.
ConnectFails(u, timedOut) ==
    /\ at = "connecting"
    /\ u \in candidates
    /\ candidates' = candidates \ {u}
    /\ lastTimeout' = timedOut
    /\ UNCHANGED <<wire, taken, at, current, reached, forwarded, answers>>

NoUpstreamLeft ==
    /\ at = "connecting"
    /\ candidates = {}
    /\ status' = IF lastTimeout THEN 504 ELSE 502
    /\ Goto("gateway")
    /\ UNCHANGED <<wire, taken, current, proxied, heads, outcomes, access>>

\* What follows once the request is upstream.
AwaitUpstream == IF ShapeNow.action = "websocket" THEN "tunnel" ELSE "response"

\* Faulty variant: the rest of the body is not waited for.
SendRequestOnly ==
    /\ at = "request"
    /\ reached' = reached \cup candidates
    /\ forwarded' = body
    /\ Goto(AwaitUpstream)
    /\ UNCHANGED <<wire, taken, current, candidates, lastTimeout, answers>>

\* The head and what there is of the body.
SendRequest ==
    /\ at = "request"
    /\ reached' = reached \cup candidates
    /\ forwarded' = body
    /\ Goto(IF Complete THEN AwaitUpstream ELSE "body")
    /\ UNCHANGED <<wire, taken, current, candidates, lastTimeout, answers>>

\* Faulty variant: another upstream is tried after a failed write.
SendRequestRetried ==
    /\ at = "request" \/ (at = "body" /\ Arrived)
    /\ reached' = reached \cup candidates
    /\ candidates' = Upstreams \ reached'
    /\ Goto("connecting")
    /\ UNCHANGED <<wire, taken, current, lastTimeout, forwarded, answers>>

\* proxy_send_timeout or an error, maybe after some bytes: no answer is given.
\* (What is read and then fails to be written no longer matters.)
SendRequestFails ==
    /\ at = "request" \/ (at = "body" /\ Arrived)
    /\ reached' = reached \cup candidates
    /\ Fail
    /\ UNCHANGED <<wire, taken, current, candidates, lastTimeout, forwarded, answers>>

\* stream_proxy_request_body reads no further than the body.
ForwardBody ==
    /\ at = "body"
    /\ taken' \in (taken + 1)..Smaller(sent, taken + ShapeNow.body - forwarded)
    /\ forwarded' = forwarded + (taken' - taken)
    /\ Goto(IF forwarded' = ShapeNow.body THEN AwaitUpstream ELSE "body")
    /\ UNCHANGED <<wire, current, candidates, lastTimeout, reached, answers>>

\* Faulty variant: the read of the body has no time-out.
BodyEnds ==
    /\ at = "body"
    /\ ~Arrived /\ gone
    /\ Fail
    /\ UNCHANGED <<wire, taken, current, proxied, answers>>

\* client_body_timeout, or the end of the stream.
BodyStops ==
    /\ at = "body"
    /\ ~Arrived
    /\ Fail
    /\ UNCHANGED <<wire, taken, current, proxied, answers>>

----------------------------------------------------------------------------
(* proxy_upstream_response.                                                *)

\* The head of the upstream's response is passed on with what follows it.
ResponseHead ==
    /\ at = "response"
    /\ Answered(200, FALSE)
    /\ Goto("stream")
    /\ UNCHANGED <<wire, taken, current, proxied, status, outcomes, access>>

\* Faulty variant: the error is not translated to a status.
ResponseFailsUntold(code) ==
    /\ at = "response"
    /\ Goto("gateway")
    /\ UNCHANGED <<wire, taken, current, proxied, answers>>

\* proxy_read_timeout before the head (504); an error, the end of the stream or
\* a head beyond 64 KiB (502).
ResponseFails(code) ==
    /\ at = "response"
    /\ status' = code
    /\ Goto("gateway")
    /\ UNCHANGED <<wire, taken, current, proxied, heads, outcomes, access>>

\* The same errors out of the later loop, and those of writing to the client:
\* the answer is the same, although a head has been sent.
StreamFails(code) ==
    /\ at = "stream"
    /\ status' = code
    /\ Goto("gateway")
    /\ UNCHANGED <<wire, taken, current, proxied, heads, outcomes, access>>

\* The upstream closes, or stops sending for proxy_read_timeout.
StreamEnds ==
    /\ at = "stream"
    /\ Logged(200)
    /\ Goto("done")
    /\ UNCHANGED <<wire, taken, current, proxied, status, heads, access>>

\* copy_bidirectional, whose result is ignored; it reads all there is.
TunnelEnds ==
    /\ at = "tunnel"
    /\ taken' = sent
    /\ Logged(101)
    /\ Goto("done")
    /\ UNCHANGED <<wire, current, proxied, status, heads, access>>

\* Faulty variant: the error is returned without an outcome.
GatewayUnlogged ==
    /\ at = "gateway"
    /\ Answered(status, FALSE)
    /\ Goto("done")
    /\ UNCHANGED <<wire, taken, current, proxied, status, outcomes, access>>

\* The server's own 502 or 504.
Gateway ==
    /\ at = "gateway"
    /\ Answered(status, FALSE)
    /\ Logged(status)
    /\ Goto("done")
    /\ UNCHANGED <<wire, taken, current, proxied, status, access>>

----------------------------------------------------------------------------
(* The accept task, once handle_connection_group has returned.             *)

LogAccess ==
    /\ at = "done"
    /\ access' = outcomes
    /\ Goto("logged")
    /\ UNCHANGED <<wire, taken, current, proxied, status, heads, outcomes>>

\* An error is logged instead; the outcomes are dropped with it.
LogError ==
    /\ at = "failed"
    /\ Goto("ended")
    /\ UNCHANGED <<wire, taken, current, proxied, answers>>

----------------------------------------------------------------------------
Reading == Peek \/ PeekTimesOut \/ NoDefaultServer \/ NoRequest \/ ReadHead \/ ReadChunks
             \/ ChunksStop \/ Malformed \/ ReadFails

Answering == Refuse \/ Dispatch \/ LocalHead \/ LocalBody \/ WriteFails \/ Gateway
               \/ LogAccess \/ LogError

Proxying ==
    \/ \E u \in Upstreams : Connect(u) \/ \E timedOut \in BOOLEAN : ConnectFails(u, timedOut)
    \/ NoUpstreamLeft
    \/ SendRequest \/ SendRequestFails \/ ForwardBody \/ BodyStops
    \/ ResponseHead \/ \E code \in {502, 504} : ResponseFails(code)

\* What may last as long as the peers like.
Relaying == StreamEnds \/ TunnelEnds \/ \E code \in {502, 504} : StreamFails(code)

Next == Send \/ Leave \/ Reading \/ Answering \/ Proxying \/ Relaying

Spec == Init /\ [][Next]_vars

\* The task is driven by the executor; every read and write it waits for ends
\* by itself or by its time-out.
FairSpec == Spec /\ WF_vars(Reading \/ Answering \/ Proxying)

----------------------------------------------------------------------------
Answer == [request : 1..MaxRequests, status : Nat, keepAlive : BOOLEAN]
Outcome == [request : 1..MaxRequests, status : Nat]

TypeOK ==
    /\ requests \in [1..MaxRequests -> Shapes]
    /\ sent \in 0..Length /\ taken \in 0..sent /\ gone \in BOOLEAN
    /\ at \in Steps
    /\ start \in 0..Length /\ body \in Nat /\ handled \in 0..MaxRequests
    /\ keepAlive \in BOOLEAN /\ closeAfter \in BOOLEAN
    /\ candidates \subseteq Upstreams /\ lastTimeout \in BOOLEAN
    /\ reached \subseteq Upstreams /\ forwarded \in Nat
    /\ status \in {0, 502, 504} /\ (at = "gateway" => status # 0)
    /\ heads \in Seq(Answer) /\ outcomes \in Seq(Outcome) /\ access \in Seq(Outcome)

\* When the server waits for a request, the next unit it will read is the head
\* of the request that the client sends next: whatever was done with a body,
\* the rest of it is never taken for a request and no request is skipped.
FramesKept == at = "head" => taken + 1 = HeadPosition[handled + 1]

\* A request goes to one upstream at most: failover ends when bytes have been
\* sent.  Its answer is only waited for once it has the whole body, and it has
\* not been sent more: the pieces that came with the head, those read after it
\* and those of a chunked body add up under every split of the reads.
ForwardedOnceAndWhole ==
    /\ Cardinality(reached) <= 1
    /\ at \in {"response", "stream", "tunnel"} => forwarded = ShapeNow.body

\* Heads reach an upstream with the length of the body that ForwardBody sends,
\* and the rest as ForwardedTruly says, targets with their query.  This does not
\* depend on the state and is asked of one initial state.
RequestsForwardedTruly ==
    at = "peek" /\ sent = 0 /\ ~gone /\ requests = (CHOOSE r \in [1..MaxRequests -> Shapes] : TRUE)
      => HeadsForwardedTruly(3) /\ TargetsKept(5)

\* After an own response that says "close", no further request is read.
CloseMeansClose ==
    at \in {"head", "chunks", "dispatch"} => \A i \in DOMAIN heads : heads[i].keepAlive

\* Of a connection that ended without an error, the access log has each request
\* that was handled, once and in order, with the status of the last head that
\* was sent for it (101 for a websocket, whose head is not the server's): none of
\* them is missing, were it the only one.
CleanEndIsLogged ==
    at = "logged" =>
        /\ Len(access) = handled
        /\ \A i \in 1..handled :
             /\ access[i].request = i
             /\ \A j \in DOMAIN heads :
                  heads[j].request = i /\ (\A k \in DOMAIN heads : k > j => heads[k].request # i)
                    => heads[j].status = access[i].status

\* A request that has been read is answered, relayed or given up: no silent peer
\* holds it forever, before the upstream's response has begun.
RequestConcluded ==
    at \in {"chunks", "refuse", "dispatch", "local", "local_body", "connecting", "request",
            "body", "response", "gateway"}
        ~> at \in {"head", "stream", "tunnel", "done", "failed"}

\* A request gets one response head.
OneResponseHead ==
    \A i, j \in DOMAIN heads : heads[i].request = heads[j].request => i = j
=============================================================================
