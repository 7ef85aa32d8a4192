------------------------ MODULE HttpConnection_proofs ------------------------
(***************************************************************************)
(* Proofs about HttpConnection, for any shapes and number of requests,     *)
(* limits and upstreams.                                                   *)
(*                                                                         *)
(* HeadPosition, a recursive function, exists and grows.  CInv holds of    *)
(* all clients: the types, where the current request is and what of it was *)
(* read (PlaceInv), which upstream has got how much of it (UpstreamInv),   *)
(* and that the connection was promised to be kept (KeepInv).  FrontInv    *)
(* and LogInv hold of clients that wait for each answer: how far they may  *)
(* have sent, and the outcomes against the heads.                          *)
(*                                                                         *)
(* Last, what is forwarded of heads of any number of lines, read name by   *)
(* name, and of targets of any length.                                     *)
(***************************************************************************)
EXTENDS HttpConnection, NatLemmas, FiniteSetTheorems, SequenceTheorems

----------------------------------------------------------------------------
(* Where the heads are in the stream of units.                             *)

LEMMA UnitsType ==
    ASSUME NEW shape \in Shape
    PROVE  UnitsOf(shape) \in Nat \ {0}
  BY DEF UnitsOf, Shape

\* The equation that defines HeadPosition, for the first n positions only.
Positions(f, n) ==
    f = [i \in 1..n |-> IF i = 1 THEN 1 ELSE f[i - 1] + UnitsOf(requests[i - 1])]

\* It has a solution: one for n positions is extended to n + 1.
LEMMA PositionsExist == \E f : Positions(f, MaxRequests + 1)
<1> DEFINE Solved == {n \in Nat : \E f : Positions(f, n)}
<1>1. 1 \in Solved
  <2> DEFINE f == [i \in 1..1 |-> 1]
  <2>1. Positions(f, 1)
    BY DEF Positions
  <2> QED
    BY <2>1
<1>2. ASSUME NEW n \in 1..(MaxRequests + 1), n \in Solved
      PROVE  n + 1 \in Solved
  <2>1. PICK f : Positions(f, n)
    BY <1>2
  <2> DEFINE g == [i \in 1..(n + 1) |-> IF i <= n THEN f[i] ELSE f[n] + UnitsOf(requests[n])]
  <2>2. Positions(g, n + 1)
    BY <2>1 DEF Positions
  <2> QED
    BY <2>2
<1>3. 1..(MaxRequests + 1) \subseteq Solved
  <2> HIDE DEF Solved
  <2> QED
    BY <1>1, <1>2, IntervalInduction, BoundsAssumption
<1> QED
  BY <1>3, BoundsAssumption

LEMMA HeadPositionEquation == Positions(HeadPosition, MaxRequests + 1)
<1>1. HeadPosition = CHOOSE f : Positions(f, MaxRequests + 1)
  BY DEF HeadPosition, Positions
<1> QED
  BY <1>1, PositionsExist

LEMMA HeadPositions ==
    ASSUME requests \in [1..MaxRequests -> Shapes]
    PROVE  /\ \A i \in 1..(MaxRequests + 1) : HeadPosition[i] \in Nat \ {0}
           /\ HeadPosition[1] = 1
           /\ \A i \in 1..MaxRequests :
                HeadPosition[i + 1] = HeadPosition[i] + UnitsOf(requests[i])
<1>1. \A i \in 1..(MaxRequests + 1) :
        HeadPosition[i] = IF i = 1 THEN 1 ELSE HeadPosition[i - 1] + UnitsOf(requests[i - 1])
  BY HeadPositionEquation DEF Positions
<1>2. \A i \in 1..MaxRequests : UnitsOf(requests[i]) \in Nat \ {0}
  BY UnitsType, ShapesAssumption
<1>3. HeadPosition[1] = 1
  BY <1>1, BoundsAssumption
<1>4. \A i \in 1..MaxRequests :
        HeadPosition[i + 1] = HeadPosition[i] + UnitsOf(requests[i])
  <2> TAKE i \in 1..MaxRequests
  <2>1. i + 1 \in 1..(MaxRequests + 1) /\ i + 1 # 1 /\ (i + 1) - 1 = i
    BY BoundsAssumption
  <2> QED
    BY <1>1, <2>1
<1> DEFINE Good == {i \in Nat : HeadPosition[i] \in Nat \ {0}}
<1>5. 1 \in Good
  BY <1>3
<1>6. ASSUME NEW n \in 1..(MaxRequests + 1), n \in Good, n < MaxRequests + 1
      PROVE  n + 1 \in Good
  BY <1>2, <1>4, <1>6, BoundsAssumption
<1>7. 1..(MaxRequests + 1) \subseteq Good
  <2> HIDE DEF Good
  <2> QED
    BY <1>5, <1>6, IntervalInduction, BoundsAssumption
<1> QED
  BY <1>3, <1>4, <1>7

\* Each head is behind the whole of every request before it.
LEMMA HeadsInOrder ==
    ASSUME requests \in [1..MaxRequests -> Shapes],
           NEW i \in 1..(MaxRequests + 1), NEW j \in 1..(MaxRequests + 1), i < j
    PROVE  HeadPosition[i] < HeadPosition[j]
<1> DEFINE Behind == {n \in Nat : HeadPosition[i] < HeadPosition[n]}
<1>1. \A n \in 1..MaxRequests : HeadPosition[n] < HeadPosition[n + 1]
  <2> TAKE n \in 1..MaxRequests
  <2>1. UnitsOf(requests[n]) \in Nat \ {0}
    BY UnitsType, ShapesAssumption
  <2>2. HeadPosition[n] \in Nat /\ HeadPosition[n + 1] = HeadPosition[n] + UnitsOf(requests[n])
    BY HeadPositions, BoundsAssumption
  <2> QED
    BY <2>1, <2>2
<1>2. i + 1 \in Behind /\ i + 1 \in Nat /\ j \in Nat /\ i \in 1..MaxRequests
  BY <1>1, BoundsAssumption
<1>3. ASSUME NEW n \in (i + 1)..j, n \in Behind, n < j
      PROVE  n + 1 \in Behind
  <2>1. n \in 1..MaxRequests /\ n + 1 \in 1..(MaxRequests + 1)
    BY <1>3, BoundsAssumption
  <2>2. HeadPosition[i] \in Nat /\ HeadPosition[n] \in Nat /\ HeadPosition[n + 1] \in Nat
    BY <2>1, HeadPositions, BoundsAssumption
  <2> QED
    BY <1>1, <1>3, <2>1, <2>2
<1>4. (i + 1)..j \subseteq Behind
  <2> HIDE DEF Behind
  <2> QED
    BY <1>2, <1>3, IntervalInduction
<1> QED
  BY <1>4, BoundsAssumption

LEMMA HeadAtFinds ==
    ASSUME requests \in [1..MaxRequests -> Shapes]
    PROVE  /\ \A p : HeadAt(p) # None =>
                HeadAt(p) \in 1..MaxRequests /\ HeadPosition[HeadAt(p)] = p
           /\ \A i \in 1..MaxRequests : HeadAt(HeadPosition[i]) = i
<1>1. \A p : HeadAt(p) # None =>
        HeadAt(p) \in 1..MaxRequests /\ HeadPosition[HeadAt(p)] = p
  BY DEF HeadAt
<1>2. ASSUME NEW i \in 1..MaxRequests
      PROVE  HeadAt(HeadPosition[i]) = i
  <2>1. ASSUME NEW j \in 1..MaxRequests, HeadPosition[j] = HeadPosition[i]
        PROVE  j = i
    BY <2>1, HeadsInOrder, HeadPositions, BoundsAssumption
  <2> QED
    BY <2>1 DEF HeadAt
<1> QED
  BY <1>1, <1>2

LEMMA StreamStays ==
    ASSUME UNCHANGED requests
    PROVE  /\ UNCHANGED HeadPosition
           /\ \A p : HeadAt(p)' = HeadAt(p)
           /\ UNCHANGED Length
<1>1. UNCHANGED HeadPosition
  BY DEF HeadPosition
<1> QED
  BY <1>1 DEF HeadAt, Length

----------------------------------------------------------------------------
(* The invariant that does not depend on pipelining.                       *)

Waiting == {"peek", "head"}
HasRead == {"chunks", "refuse", "dispatch"}
Handling == {"local", "local_body", "connecting", "request", "body", "response", "stream",
             "tunnel", "gateway"}
Unforwarded == {"local", "local_body", "connecting", "request"}

\* Where the current request is in the stream, and what of it has been read.
PlaceInv ==
    /\ at = "peek" => handled = 0
    /\ at \in Waiting => HeadPosition[handled + 1] <= taken + 1
    /\ at \in HasRead \cup Handling => start <= taken /\ Request \in 1..MaxRequests
    /\ at \in HasRead => Request > handled
    /\ at \in Handling => Request >= handled /\ handled > 0
    /\ at \in HasRead \cup Unforwarded => body = BodyUpTo(taken)
    /\ at = "chunks" => ShapeNow.chunked
    /\ at \in {"dispatch", "local", "local_body"} /\ ShapeNow.chunked => TerminatedAt(taken)
    /\ at \in {"local", "local_body"} => closeAfter = Closes(keepAlive)

\* The upstream that is connected, and what it has been sent.
UpstreamInv ==
    /\ Cardinality(reached) <= 1
    /\ at = "connecting" => reached = {}
    /\ at = "request" => reached = {} /\ \E u \in Upstreams : candidates = {u}
    /\ at = "body" => /\ forwarded < ShapeNow.body
                       /\ reached = candidates /\ \E u \in Upstreams : candidates = {u}
    /\ at \in {"response", "stream", "tunnel"} => forwarded = ShapeNow.body

\* The connection has been promised to be kept by every head sent so far.
AllKeep == \A i \in DOMAIN heads : heads[i].keepAlive
KeepInv ==
    /\ at \in Waiting \cup HasRead \cup {"local", "connecting", "request", "body", "response"} => AllKeep
    /\ at = "local_body" => closeAfter \/ AllKeep

CInv == TypeOK /\ PlaceInv /\ UpstreamInv /\ KeepInv


LEMMA InitCInv == Init => CInv
<1> SUFFICES ASSUME Init PROVE CInv
  OBVIOUS
<1>1. requests \in [1..MaxRequests -> Shapes]
  BY DEF Init
<1>2. HeadPosition[1] = 1 /\ HeadPosition[MaxRequests + 1] \in Nat \ {0}
  BY <1>1, HeadPositions, BoundsAssumption
<1>3. TypeOK
  <2>1. Length \in Nat
    BY <1>2 DEF Length
  <2>2. sent \in 0..Length /\ taken \in 0..sent /\ start \in 0..Length
    BY <2>1 DEF Init
  <2>3. heads \in Seq(Answer) /\ outcomes \in Seq(Outcome) /\ access \in Seq(Outcome)
    BY DEF Init
  <2>4. at \in Steps /\ (at = "gateway" => status # 0) /\ status \in {0, 502, 504}
    BY DEF Init, Steps
  <2>5. handled \in 0..MaxRequests /\ body \in Nat /\ forwarded \in Nat
    BY BoundsAssumption DEF Init
  <2>6. /\ gone \in BOOLEAN /\ keepAlive \in BOOLEAN /\ closeAfter \in BOOLEAN
        /\ lastTimeout \in BOOLEAN /\ candidates \subseteq Upstreams /\ reached \subseteq Upstreams
    BY DEF Init
  <2> QED
    BY <1>1, <2>2, <2>3, <2>4, <2>5, <2>6 DEF TypeOK
<1>4. PlaceInv /\ KeepInv
  BY <1>2 DEF Init, PlaceInv, KeepInv, AllKeep, Waiting, HasRead, Handling, Unforwarded
<1>5. UpstreamInv
  BY FS_EmptySet DEF Init, UpstreamInv
<1> QED
  BY <1>3, <1>4, <1>5 DEF CInv

\* The current request and the rest of the stream behind it.
LEMMA RequestNow ==
    ASSUME TypeOK, PlaceInv, at \in HasRead \cup Handling
    PROVE  /\ Request \in 1..MaxRequests
           /\ ShapeNow \in Shape /\ ShapeNow.body \in Nat
           /\ start = HeadPosition[Request]
           /\ HeadPosition[Request + 1] = start + UnitsOf(ShapeNow)
<1>1. Request \in 1..MaxRequests
  BY DEF PlaceInv
<1>2. start = HeadPosition[Request]
  BY <1>1, HeadAtFinds, NoneAssumption DEF Request, TypeOK
<1>3. ShapeNow \in Shape
  BY <1>1, ShapesAssumption DEF ShapeNow, TypeOK
<1> QED
  BY <1>1, <1>2, <1>3, HeadPositions DEF ShapeNow, Shape, TypeOK

LEMMA RequestStays ==
    ASSUME UNCHANGED <<requests, start>>
    PROVE  UNCHANGED <<Request, ShapeNow, HeadPosition, Length>>
  BY StreamStays DEF Request, ShapeNow

LEMMA AnsweredType ==
    ASSUME TypeOK, Request \in 1..MaxRequests, NEW code \in Nat, NEW keep \in BOOLEAN,
           Answered(code, keep)
    PROVE  heads' \in Seq(Answer)
<1> DEFINE a == [request |-> Request, status |-> code, keepAlive |-> keep]
<1>1. a \in Answer
  BY DEF Answer
<1>2. heads' = Append(heads, a) /\ heads \in Seq(Answer)
  BY DEF Answered, TypeOK
<1> QED
  BY <1>1, <1>2, AppendProperties

LEMMA LoggedType ==
    ASSUME TypeOK, Request \in 1..MaxRequests, NEW code \in Nat, Logged(code)
    PROVE  outcomes' \in Seq(Outcome)
<1> DEFINE o == [request |-> Request, status |-> code]
<1>1. o \in Outcome
  BY DEF Outcome
<1>2. outcomes' = Append(outcomes, o) /\ outcomes \in Seq(Outcome)
  BY DEF Logged, TypeOK
<1> QED
  BY <1>1, <1>2, AppendProperties

LEMMA LengthType == ASSUME TypeOK PROVE Length \in Nat
  BY HeadPositions, BoundsAssumption DEF TypeOK, Length

\* The length of a body is bounded by what is still to come of the stream.
LEMMA TypeKeeps ==
    ASSUME CInv, Next
    PROVE  TypeOK' /\ UNCHANGED requests
<1>0. UNCHANGED requests => UNCHANGED Length
  BY StreamStays
<1>a. ASSUME at \in HasRead \cup Handling
      PROVE  Request \in 1..MaxRequests /\ ShapeNow \in Shape /\ ShapeNow.body \in Nat
  BY <1>a, RequestNow DEF CInv
<1>b. ASSUME at \in HasRead \cup Handling, NEW code \in Nat, NEW keep \in BOOLEAN, Answered(code, keep)
      PROVE  heads' \in Seq(Answer)
  BY <1>a, <1>b, AnsweredType DEF CInv
<1>d. ASSUME at \in HasRead \cup Handling, Refuse \/ ResponseHead \/ Gateway
      PROVE  heads' \in Seq(Answer)
  <2>1. status \in Nat /\ 413 \in Nat /\ 200 \in Nat
    BY DEF CInv, TypeOK
  <2>2. PICK code \in Nat : Answered(code, FALSE)
    BY <1>d, <2>1 DEF Refuse, ResponseHead, Gateway
  <2> QED
    BY <1>b, <1>d, <2>2
<1>e. sent \in Nat /\ taken \in Nat /\ start \in Nat
  BY LengthType DEF CInv, TypeOK
<1>c. ASSUME at \in HasRead \cup Handling, NEW code \in Nat, Logged(code)
      PROVE  outcomes' \in Seq(Outcome)
  BY <1>a, <1>c, LoggedType DEF CInv
<1> USE DEF TypeOK, CInv, wire, current, proxied, answers, Goto, Fail, Steps, HasRead, Handling
<1>1. CASE Send
  BY <1>0, <1>1, LengthType DEF Send
<1>2. CASE Leave
  BY <1>0, <1>2 DEF Leave
<1>3. CASE Peek \/ PeekTimesOut \/ NoDefaultServer \/ NoRequest \/ ChunksStop \/ ReadFails
  BY <1>0, <1>3 DEF Peek, PeekTimesOut, NoDefaultServer, NoRequest, ChunksStop, ReadFails
<1>4. CASE ReadHead
  <2> USE <1>4 DEF ReadHead
  <2>1. taken' \in taken..sent /\ taken' \in Nat /\ start' \in 0..sent /\ UNCHANGED requests
    OBVIOUS
  <2>2. HeadAt(start') # None => requests[HeadAt(start')] \in Shape
    BY HeadAtFinds, ShapesAssumption
  <2>3. body' \in Nat /\ at' \in {"failed", "refuse", "dispatch", "chunks"}
    BY <2>1, <2>2 DEF Shape, Smaller
  <2> QED
    BY <1>0, <2>1, <2>3, LengthType
<1>5. CASE ReadChunks
  <2>1. PICK n \in (taken + 1)..sent : taken' = n
    BY <1>5 DEF ReadChunks
  <2>2. UNCHANGED requests /\ body' = BodyUpTo(n) /\ at' \in {"refuse", "dispatch", "chunks"}
    BY <1>5, <2>1 DEF ReadChunks
  <2>3. start <= taken /\ ShapeNow.body \in Nat
    BY <1>5, <1>a DEF ReadChunks, PlaceInv
  <2>4. body' \in Nat /\ n \in 0..sent
    BY <1>e, <2>1, <2>2, <2>3 DEF BodyUpTo, Smaller
  <2> QED
    BY <1>0, <1>5, <2>1, <2>2, <2>4 DEF ReadChunks
<1>6. CASE Malformed
  BY <1>0, <1>6 DEF Malformed
<1>7. CASE Refuse
  BY <1>0, <1>7, <1>d DEF Refuse
<1>8. CASE Dispatch
  <2>1. handled + 1 \in 0..MaxRequests
    <3>1. Request > handled /\ Request \in 1..MaxRequests /\ handled \in Nat
      BY <1>8, <1>a DEF Dispatch, PlaceInv
    <3> HIDE DEF TypeOK, CInv
    <3> QED
      BY <3>1, BoundsAssumption
  <2>2. ShapeNow.keepAlive \in BOOLEAN
    BY <1>8, <1>a DEF Dispatch, Shape
  <2>3. keepAlive' \in BOOLEAN /\ closeAfter' \in BOOLEAN
    BY <1>8, <2>2 DEF Dispatch, Closes
  <2> QED
    BY <1>0, <1>8, <2>1, <2>3 DEF Dispatch
<1>9. CASE LocalHead
  BY <1>0, <1>9, <1>b DEF LocalHead
<1>10. CASE LocalBody
  BY <1>0, <1>10, <1>c DEF LocalBody
<1>11. CASE WriteFails \/ LogError
  BY <1>0, <1>11 DEF WriteFails, LogError
<1>12. CASE Gateway
  <2>1. heads' \in Seq(Answer) /\ outcomes' \in Seq(Outcome)
    BY <1>12, <1>d, <1>c DEF Gateway
  <2> QED
    BY <1>0, <1>12, <2>1 DEF Gateway
<1>13. CASE LogAccess
  BY <1>0, <1>13 DEF LogAccess
<1>14. ASSUME NEW u \in Upstreams, NEW timedOut \in BOOLEAN, Connect(u) \/ ConnectFails(u, timedOut)
       PROVE  TypeOK' /\ UNCHANGED requests
  BY <1>0, <1>14 DEF Connect, ConnectFails
<1>15. CASE NoUpstreamLeft
  BY <1>0, <1>15 DEF NoUpstreamLeft
<1>16. CASE SendRequest \/ SendRequestFails \/ BodyStops
  BY <1>0, <1>16 DEF SendRequest, SendRequestFails, BodyStops, AwaitUpstream
<1>17. CASE ForwardBody
  <2>1. PICK n \in (taken + 1)..Smaller(sent, taken + ShapeNow.body - forwarded) : taken' = n
    BY <1>17 DEF ForwardBody
  <2>2. ShapeNow.body \in Nat /\ forwarded \in Nat
    BY <1>17, <1>a DEF ForwardBody
  <2>3. n \in taken..sent
    BY <1>e, <2>1, <2>2 DEF Smaller
  <2>4. forwarded + (n - taken) \in Nat
    BY <1>e, <2>2, <2>3
  <2>5. at' \in {"body", "tunnel", "response"} /\ forwarded' \in Nat
    BY <1>17, <2>1, <2>4 DEF ForwardBody, AwaitUpstream
  <2>6. UNCHANGED <<requests, sent, gone, current, candidates, lastTimeout, reached, answers>>
    BY <1>17 DEF ForwardBody
  <2> QED
    BY <1>0, <1>e, <2>1, <2>3, <2>5, <2>6
<1>18. CASE ResponseHead
  BY <1>0, <1>18, <1>d DEF ResponseHead
<1>19. ASSUME NEW code \in {502, 504}, ResponseFails(code) \/ StreamFails(code)
       PROVE  TypeOK' /\ UNCHANGED requests
  BY <1>0, <1>19 DEF ResponseFails, StreamFails
<1>20. CASE StreamEnds
  BY <1>0, <1>20, <1>c DEF StreamEnds
<1>21. CASE TunnelEnds
  BY <1>0, <1>21, <1>c DEF TunnelEnds
<1> QED
  BY <1>1, <1>2, <1>3, <1>4, <1>5, <1>6, <1>7, <1>8, <1>9, <1>10, <1>11, <1>12, <1>13, <1>14, <1>15,
     <1>16, <1>17, <1>18, <1>19, <1>20, <1>21 DEF Next, Reading, Answering, Proxying, Relaying

Over == {"done", "failed", "logged", "ended"}

\* Steps that leave the request as it is and go on with it, or give it up.
LEMMA PlaceMoves ==
    ASSUME TypeOK, PlaceInv, UNCHANGED <<requests, taken, current>>,
           \/ at' = at \/ (at = "peek" /\ at' = "head")
           \/ (at = "local" /\ at' = "local_body") \/ (at = "connecting" /\ at' = "request")
           \/ at \in Handling /\ at' \in Handling \ Unforwarded
    PROVE  PlaceInv'
<1>1. UNCHANGED <<requests, start, body, handled, keepAlive, closeAfter, taken>>
  BY DEF current
<1>2. UNCHANGED <<Request, ShapeNow, HeadPosition>>
  BY <1>1, RequestStays
<1>3. UNCHANGED <<BodyUpTo(taken), TerminatedAt(taken), Closes(keepAlive)>>
  BY <1>1, <1>2 DEF BodyUpTo, TerminatedAt, Closes, Complete
<1> QED
  BY <1>1, <1>2, <1>3 DEF PlaceInv, Waiting, HasRead, Handling, Unforwarded

LEMMA PlaceOver == ASSUME at' \in Over PROVE PlaceInv'
  BY DEF PlaceInv, Waiting, HasRead, Handling, Unforwarded, Over

LEMMA ReadHeadPlaces ==
    ASSUME CInv, ReadHead
    PROVE  PlaceInv'
<1>1. PICK n \in (taken + 1)..sent : taken' = n
  BY DEF ReadHead
<1>2. at = "head" /\ start' = taken + 1 /\ UNCHANGED <<requests, handled, keepAlive, closeAfter>>
  BY DEF ReadHead, wire
<1>3. taken \in Nat /\ sent \in Nat /\ n \in Nat /\ handled \in 0..MaxRequests
  BY <1>1, LengthType DEF CInv, TypeOK
<1>4. HeadPosition[handled + 1] <= taken + 1
  BY <1>2 DEF CInv, PlaceInv, Waiting
<1> DEFINE i == HeadAt(taken + 1)
<1>5. CASE i = None
  BY <1>2, <1>5, PlaceOver, StreamStays DEF ReadHead, Goto, Fail, Over
<1>6. CASE i # None
  <2>1. i \in 1..MaxRequests /\ HeadPosition[i] = taken + 1
    BY <1>6, HeadAtFinds DEF CInv, TypeOK
  <2>2. i > handled
    <3>1. ASSUME i <= handled PROVE FALSE
      <4>1. i \in 1..(MaxRequests + 1) /\ handled + 1 \in 1..(MaxRequests + 1) /\ i < handled + 1
        BY <1>3, <2>1, <3>1, BoundsAssumption
      <4>2. HeadPosition[i] < HeadPosition[handled + 1]
        BY <4>1, HeadsInOrder DEF CInv, TypeOK
      <4>3. HeadPosition[handled + 1] \in Nat
        BY <4>1, HeadPositions DEF CInv, TypeOK
      <4> QED
        BY <1>3, <1>4, <2>1, <4>2, <4>3
    <3> QED
      BY <1>3, <2>1, <3>1, BoundsAssumption
  <2>3. Request' = i /\ ShapeNow' = requests[i]
    BY <1>2, StreamStays DEF Request, ShapeNow
  <2>4. HeadAt(start') = i
    BY <1>2
  <2>5. requests[i] \in Shape /\ requests[i].body \in Nat /\ n - (taken + 1) \in Nat
    BY <1>1, <1>3, <2>1, ShapesAssumption DEF CInv, TypeOK, Shape
  <2> DEFINE got == Smaller(n - (taken + 1), requests[i].body)
  <2>6. /\ body' = got
        /\ at' = IF requests[i].chunked
                 THEN IF got > MaxBodySize THEN "refuse"
                      ELSE IF n - (taken + 1) > requests[i].body THEN "dispatch" ELSE "chunks"
                 ELSE IF requests[i].body > MaxBodySize THEN "refuse" ELSE "dispatch"
    BY <1>1, <1>2, <1>6, <2>4 DEF ReadHead, Goto
  <2>7. BodyUpTo(taken)' = got /\ TerminatedAt(taken)' = (n - (taken + 1) > requests[i].body)
    BY <1>1, <1>2, <2>3 DEF BodyUpTo, TerminatedAt
  <2>8. at' \in HasRead /\ start' <= taken'
    BY <1>1, <1>2, <1>3, <2>6 DEF HasRead
  <2>9. at' = "chunks" => requests[i].chunked
    BY <2>6
  <2>10. at' = "dispatch" /\ requests[i].chunked => n - (taken + 1) > requests[i].body
    BY <2>6
  <2> HIDE DEF i, got
  <2> QED
    BY <1>2, <2>1, <2>2, <2>3, <2>6, <2>7, <2>8, <2>9, <2>10
       DEF PlaceInv, Waiting, HasRead, Handling, Unforwarded
<1> QED
  BY <1>5, <1>6

LEMMA ReadChunksPlaces ==
    ASSUME CInv, ReadChunks
    PROVE  PlaceInv'
<1>1. PICK n \in (taken + 1)..sent : taken' = n
  BY DEF ReadChunks
<1>2. at = "chunks" /\ UNCHANGED <<requests, start, handled, keepAlive, closeAfter>>
  BY DEF ReadChunks, wire
<1>3. taken \in Nat /\ sent \in Nat /\ n \in Nat /\ start \in Nat
  BY <1>1, LengthType DEF CInv, TypeOK
<1>4. start <= taken /\ Request \in 1..MaxRequests /\ Request > handled /\ ShapeNow.chunked
  BY <1>2 DEF CInv, PlaceInv, HasRead
<1>5. UNCHANGED <<Request, ShapeNow, HeadPosition>>
  BY <1>2, RequestStays
<1>6. BodyUpTo(taken)' = BodyUpTo(n) /\ TerminatedAt(taken)' = TerminatedAt(n)
  BY <1>1, <1>2, <1>5 DEF BodyUpTo, TerminatedAt
<1>7. /\ body' = BodyUpTo(n)
      /\ at' = IF body' > MaxBodySize THEN "refuse" ELSE IF TerminatedAt(n) THEN "dispatch" ELSE "chunks"
  BY <1>1 DEF ReadChunks, Goto
<1>8. start' <= taken' /\ at' \in HasRead /\ (at' = "dispatch" => TerminatedAt(n))
  BY <1>1, <1>2, <1>3, <1>4, <1>7 DEF HasRead
<1> QED
  BY <1>2, <1>4, <1>5, <1>6, <1>7, <1>8 DEF PlaceInv, Waiting, HasRead, Handling, Unforwarded

LEMMA DispatchPlaces ==
    ASSUME CInv, Dispatch
    PROVE  PlaceInv'
<1>1. at = "dispatch" /\ UNCHANGED <<requests, start, body, taken>> /\ handled' = handled + 1
  BY DEF Dispatch, wire
<1>2. UNCHANGED <<Request, ShapeNow, HeadPosition>>
  BY <1>1, RequestStays
<1>3. UNCHANGED <<BodyUpTo(taken), TerminatedAt(taken)>> /\ Closes(keepAlive)' = Closes(keepAlive')
  BY <1>1, <1>2 DEF BodyUpTo, TerminatedAt, Closes, Complete
<1>4. /\ start <= taken /\ Request \in 1..MaxRequests /\ Request > handled /\ body = BodyUpTo(taken)
      /\ ShapeNow.chunked => TerminatedAt(taken)
  BY <1>1 DEF CInv, PlaceInv, HasRead
<1>5. at' \in {"local", "connecting"} /\ closeAfter' = Closes(keepAlive')
  BY DEF Dispatch, Goto
<1>6. Request >= handled' /\ handled' > 0
  BY <1>1, <1>4 DEF CInv, TypeOK
<1> QED
  BY <1>1, <1>2, <1>3, <1>4, <1>5, <1>6 DEF PlaceInv, Waiting, HasRead, Handling, Unforwarded

\* What decides that a body has been read to its end: the connection is kept
\* only behind the last unit of the request.
LEMMA KeptBehindRequest ==
    ASSUME CInv, at = "local_body", ~closeAfter
    PROVE  HeadPosition[Request + 1] <= taken + 1
<1>1. /\ start <= taken /\ Request \in 1..MaxRequests /\ body = BodyUpTo(taken) /\ Complete
      /\ ShapeNow.chunked => TerminatedAt(taken)
  BY DEF CInv, PlaceInv, Handling, Unforwarded, Closes
<1>2. /\ HeadPosition[Request + 1] = start + UnitsOf(ShapeNow)
      /\ ShapeNow \in Shape /\ ShapeNow.body \in Nat
  BY RequestNow DEF CInv, Handling
<1>3. start \in Nat /\ taken \in Nat
  BY LengthType DEF CInv, TypeOK
<1>4. taken - start >= ShapeNow.body
  BY <1>1, <1>2, <1>3 DEF Complete, BodyUpTo, Smaller
<1>5. UnitsOf(ShapeNow) <= taken - start + 1
  BY <1>1, <1>2, <1>3, <1>4 DEF UnitsOf, TerminatedAt
<1>6. UnitsOf(ShapeNow) \in Nat
  BY <1>2, UnitsType
<1> QED
  BY <1>2, <1>3, <1>5, <1>6

LEMMA LocalBodyPlaces ==
    ASSUME CInv, LocalBody
    PROVE  PlaceInv'
<1>1. at = "local_body" /\ UNCHANGED <<requests, start, body, handled, taken>>
  BY DEF LocalBody, wire, current
<1>2. CASE closeAfter
  BY <1>2, PlaceOver DEF LocalBody, Goto, Over
<1>3. CASE ~closeAfter
  <2>1. at' = "head"
    BY <1>3 DEF LocalBody, Goto
  <2>2. HeadPosition[Request + 1] <= taken + 1
    BY <1>1, <1>3, KeptBehindRequest
  <2>3. Request >= handled /\ Request \in 1..MaxRequests /\ handled \in 0..MaxRequests
    BY <1>1 DEF CInv, PlaceInv, Handling, TypeOK
  <2>4. HeadPosition[handled + 1] <= HeadPosition[Request + 1]
    <3>1. handled + 1 \in 1..(MaxRequests + 1) /\ Request + 1 \in 1..(MaxRequests + 1)
      BY <2>3, BoundsAssumption
    <3>2. HeadPosition[handled + 1] \in Nat /\ HeadPosition[Request + 1] \in Nat
      BY <3>1, HeadPositions DEF CInv, TypeOK
    <3>3. handled < Request => HeadPosition[handled + 1] < HeadPosition[Request + 1]
      <4>1. SUFFICES ASSUME handled < Request PROVE handled + 1 < Request + 1
        BY <3>1, HeadsInOrder DEF CInv, TypeOK
      <4> QED
        BY <2>3, <4>1
    <3>4. handled = Request \/ handled < Request
      BY <2>3, BoundsAssumption
    <3> QED
      BY <3>2, <3>3, <3>4
  <2>5. HeadPosition[handled + 1] \in Nat /\ HeadPosition[Request + 1] \in Nat /\ taken \in Nat
    BY <2>3, HeadPositions, LengthType, BoundsAssumption DEF CInv, TypeOK
  <2>6. HeadPosition[handled + 1] <= taken + 1
    BY <2>2, <2>4, <2>5
  <2>7. UNCHANGED HeadPosition
    BY <1>1, StreamStays
  <2> QED
    BY <1>1, <2>1, <2>6, <2>7 DEF PlaceInv, Waiting, HasRead, Handling, Unforwarded
<1> QED
  BY <1>2, <1>3

LEMMA ForwardBodyPlaces ==
    ASSUME CInv, ForwardBody
    PROVE  PlaceInv'
<1>1. at = "body" /\ UNCHANGED <<requests, start, handled>>
  BY DEF ForwardBody, wire, current
<1>2. PICK n \in (taken + 1)..Smaller(sent, taken + ShapeNow.body - forwarded) : taken' = n
  BY DEF ForwardBody
<1>3. start <= taken /\ Request \in 1..MaxRequests /\ Request >= handled /\ handled > 0
  BY <1>1 DEF CInv, PlaceInv, Handling
<1>4. taken \in Nat /\ start \in Nat /\ n > taken /\ n \in Int
  <2>1. ShapeNow.body \in Nat
    BY <1>1, RequestNow DEF CInv, Handling
  <2>2. taken \in Nat /\ start \in Nat /\ sent \in Nat /\ forwarded \in Nat
    BY LengthType DEF CInv, TypeOK
  <2> QED
    BY <1>2, <2>1, <2>2 DEF Smaller
<1>5. start' <= taken'
  BY <1>1, <1>2, <1>3, <1>4
<1>6. at' \in {"body", "response", "tunnel"}
  BY DEF ForwardBody, Goto, AwaitUpstream
<1>7. UNCHANGED Request
  BY <1>1, RequestStays
<1> QED
  BY <1>1, <1>3, <1>5, <1>6, <1>7 DEF PlaceInv, Waiting, HasRead, Handling, Unforwarded

LEMMA PlaceKeeps ==
    ASSUME CInv, Next
    PROVE  PlaceInv'
<1> USE DEF CInv, wire, Goto, Fail, Over, Handling, Unforwarded
<1>1. CASE Send \/ Leave
  BY <1>1, PlaceMoves DEF Send, Leave
<1>2. CASE Peek
  BY <1>2, PlaceMoves DEF Peek
<1>3. CASE PeekTimesOut \/ NoDefaultServer \/ NoRequest \/ ChunksStop \/ Malformed \/ ReadFails
  BY <1>3, PlaceOver DEF PeekTimesOut, NoDefaultServer, NoRequest, ChunksStop, Malformed, ReadFails
<1>4. CASE Refuse \/ WriteFails \/ Gateway \/ LogAccess \/ LogError
  BY <1>4, PlaceOver DEF Refuse, WriteFails, Gateway, LogAccess, LogError
<1>5. CASE LocalHead
  <2>1. at = "local" /\ at' = "local_body" /\ UNCHANGED <<requests, taken, current>>
    BY <1>5 DEF LocalHead
  <2> QED
    BY <2>1, PlaceMoves
<1>6. ASSUME NEW u \in Upstreams, NEW timedOut \in BOOLEAN, Connect(u) \/ ConnectFails(u, timedOut)
      PROVE  PlaceInv'
  BY <1>6, PlaceMoves DEF Connect, ConnectFails
<1>7. CASE NoUpstreamLeft \/ SendRequest \/ ResponseHead
  BY <1>7, PlaceMoves DEF NoUpstreamLeft, SendRequest, ResponseHead, AwaitUpstream
<1>8. CASE SendRequestFails \/ BodyStops \/ StreamEnds \/ TunnelEnds
  BY <1>8, PlaceOver DEF SendRequestFails, BodyStops, StreamEnds, TunnelEnds
<1>9. ASSUME NEW code \in {502, 504}, ResponseFails(code) \/ StreamFails(code)
      PROVE  PlaceInv'
  BY <1>9, PlaceMoves DEF ResponseFails, StreamFails
<1> QED
  BY <1>1, <1>2, <1>3, <1>4, <1>5, <1>6, <1>7, <1>8, <1>9, ReadHeadPlaces, ReadChunksPlaces,
     DispatchPlaces, LocalBodyPlaces, ForwardBodyPlaces
     DEF Next, Reading, Answering, Proxying, Relaying

\* Failover ends with the first byte sent, and what is forwarded adds up.
LEMMA UpstreamKeeps ==
    ASSUME CInv, Next
    PROVE  UpstreamInv'
<1> DEFINE Early == {"peek", "head", "chunks", "refuse", "dispatch", "local", "local_body", "connecting"}
<1> USE DEF CInv, UpstreamInv, wire, current, proxied, answers, Goto, Fail
<1>0. ASSUME UNCHANGED <<requests, start>>
      PROVE  UNCHANGED ShapeNow
  BY <1>0, RequestStays
<1>1. CASE Send \/ Leave
  BY <1>1, <1>0 DEF Send, Leave
<1>2. CASE UNCHANGED reached /\ at' \notin {"connecting", "request", "body", "response", "stream", "tunnel"}
  BY <1>2
<1>3. CASE Reading
  BY <1>3, <1>2 DEF Reading, Peek, PeekTimesOut, NoDefaultServer, NoRequest, ReadHead, ReadChunks,
                    ChunksStop, Malformed, ReadFails
<1>4. CASE Dispatch
  BY <1>4, FS_EmptySet DEF Dispatch
<1>5. CASE Refuse \/ LocalHead \/ LocalBody \/ WriteFails \/ Gateway \/ LogAccess \/ LogError
  BY <1>5, <1>2 DEF Refuse, LocalHead, LocalBody, WriteFails, Gateway, LogAccess, LogError
<1>6. ASSUME NEW u \in Upstreams, Connect(u)
      PROVE  UpstreamInv'
  BY <1>6 DEF Connect
<1>7. ASSUME NEW u \in Upstreams, NEW timedOut \in BOOLEAN, ConnectFails(u, timedOut)
      PROVE  UpstreamInv'
  BY <1>7 DEF ConnectFails
<1>8. CASE NoUpstreamLeft \/ BodyStops
  BY <1>8, <1>2 DEF NoUpstreamLeft, BodyStops
<1>9. ASSUME at \in {"request", "body"}
      PROVE  /\ reached \cup candidates = candidates /\ Cardinality(candidates) = 1
             /\ \E u \in Upstreams : candidates = {u}
             /\ ShapeNow.body \in Nat
  BY <1>9, FS_Singleton, RequestNow DEF Handling
<1>10. CASE SendRequest
  <2>1. at = "request" /\ UNCHANGED <<requests, start, candidates>> /\ forwarded' = body /\ reached' = candidates
    BY <1>9, <1>10 DEF SendRequest
  <2>2. body <= ShapeNow.body /\ body \in Nat
    <3>1. /\ body = BodyUpTo(taken) /\ body \in Nat /\ start <= taken /\ start \in Nat
          /\ taken \in Nat
      BY <2>1, LengthType DEF PlaceInv, Unforwarded, Handling, TypeOK
    <3> QED
      BY <1>9, <2>1, <3>1 DEF BodyUpTo, Smaller
  <2>3. at' = IF body >= ShapeNow.body THEN AwaitUpstream ELSE "body"
    BY <1>10 DEF SendRequest, Complete
  <2>4. CASE body >= ShapeNow.body
    <3>1. forwarded' = ShapeNow' .body
      BY <1>0, <1>9, <2>1, <2>2, <2>4
    <3>2. at' \in {"tunnel", "response"} /\ Cardinality(reached') <= 1
      BY <1>9, <2>1, <2>3, <2>4 DEF AwaitUpstream
    <3> QED
      BY <3>1, <3>2
  <2>5. CASE ~(body >= ShapeNow.body)
    <3>1. body < ShapeNow.body
      BY <1>9, <2>1, <2>2, <2>5
    <3>2. at' = "body" /\ Cardinality(reached') <= 1 /\ reached' = candidates'
      BY <1>9, <2>1, <2>3, <2>5
    <3> QED
      BY <1>0, <1>9, <2>1, <3>1, <3>2
  <2> QED
    BY <2>4, <2>5
<1>11. CASE SendRequestFails
  <2>1. reached' = candidates /\ at' = "failed"
    BY <1>9, <1>11 DEF SendRequestFails
  <2> QED
    BY <1>9, <1>11, <2>1 DEF SendRequestFails
<1>12. CASE ForwardBody
  <2>1. at = "body" /\ UNCHANGED <<requests, start, candidates, reached>>
    BY <1>12 DEF ForwardBody
  <2>2. PICK n \in (taken + 1)..Smaller(sent, taken + ShapeNow.body - forwarded) : taken' = n
    BY <1>12 DEF ForwardBody
  <2>3. forwarded' = forwarded + (n - taken)
    BY <1>12, <2>2 DEF ForwardBody
  <2>4. forwarded + (n - taken) <= ShapeNow.body
    <3>1. taken \in Nat /\ sent \in Nat /\ forwarded \in Nat /\ ShapeNow.body \in Nat
      BY <1>9, <2>1, LengthType DEF TypeOK
    <3> QED
      BY <2>2, <3>1 DEF Smaller
  <2>5. at' = IF forwarded + (n - taken) = ShapeNow.body THEN AwaitUpstream ELSE "body"
    BY <1>12, <2>3 DEF ForwardBody
  <2>6. forwarded + (n - taken) \in Int /\ ShapeNow.body \in Nat
    BY <1>9, <2>1, <2>2, LengthType DEF TypeOK
  <2>7. CASE forwarded + (n - taken) = ShapeNow.body
    <3>1. at' \in {"tunnel", "response"} /\ forwarded' = ShapeNow' .body
      BY <1>0, <2>1, <2>3, <2>5, <2>7 DEF AwaitUpstream
    <3> QED
      BY <2>1, <3>1
  <2>8. CASE ~(forwarded + (n - taken) = ShapeNow.body)
    <3>1. forwarded + (n - taken) < ShapeNow.body
      BY <2>4, <2>6, <2>8
    <3>2. at' = "body" /\ forwarded' < ShapeNow' .body
      BY <1>0, <2>1, <2>3, <2>5, <2>8, <3>1
    <3> QED
      BY <2>1, <3>2
  <2> QED
    BY <2>7, <2>8
<1>13. CASE ResponseHead
  BY <1>0, <1>13 DEF ResponseHead
<1>14. ASSUME NEW code \in {502, 504}, ResponseFails(code) \/ StreamFails(code)
       PROVE  UpstreamInv'
  BY <1>14, <1>2 DEF ResponseFails, StreamFails
<1>15. CASE StreamEnds \/ TunnelEnds
  BY <1>15, <1>2 DEF StreamEnds, TunnelEnds
<1> QED
  BY <1>1, <1>3, <1>4, <1>5, <1>6, <1>7, <1>8, <1>10, <1>11, <1>12, <1>13, <1>14, <1>15
     DEF Next, Answering, Proxying, Relaying

LEMMA KeepKeeps ==
    ASSUME CInv, Next
    PROVE  KeepInv'
<1> USE DEF CInv, KeepInv, AllKeep, wire, current, proxied, answers, Goto, Fail, Waiting, HasRead
<1>1. CASE UNCHANGED <<heads, closeAfter>> /\ (at' = at \/ at' \in {"done", "failed", "logged", "ended", "gateway",
                                                               "tunnel"})
  BY <1>1
<1>2. CASE Send \/ Leave
  BY <1>1, <1>2 DEF Send, Leave
<1>3. CASE Reading
  BY <1>3 DEF Reading, Peek, PeekTimesOut, NoDefaultServer, NoRequest, ReadHead, ReadChunks,
              ChunksStop, Malformed, ReadFails
<1>4. CASE Refuse \/ Gateway
  BY <1>4 DEF Refuse, Gateway
<1>5. CASE Dispatch
  BY <1>5 DEF Dispatch
<1>6. CASE LocalHead
  <2>1. at' = "local_body" /\ closeAfter' = closeAfter /\ closeAfter = Closes(keepAlive) /\ AllKeep
    BY <1>6 DEF LocalHead, PlaceInv
  <2>2. CASE closeAfter
    BY <2>1, <2>2
  <2>3. CASE ~closeAfter
    <3>1. keepAlive = TRUE
      BY <2>1, <2>3 DEF Closes, TypeOK
    <3> DEFINE a == [request |-> Request, status |-> 200, keepAlive |-> keepAlive]
    <3>2. heads' = Append(heads, a) /\ heads \in Seq(Answer) /\ a.keepAlive
      BY <1>6, <3>1 DEF LocalHead, Answered, TypeOK
    <3>3. \A i \in DOMAIN heads' : heads'[i] = a \/ (i \in DOMAIN heads /\ heads'[i] = heads[i])
      <4> HIDE DEF a
      <4> QED
        BY <3>2, AppendProperties
    <3> QED
      BY <2>1, <3>2, <3>3
  <2> QED
    BY <2>2, <2>3
<1>7. CASE LocalBody
  BY <1>7 DEF LocalBody
<1>8. CASE WriteFails \/ LogAccess \/ LogError
  BY <1>1, <1>8 DEF WriteFails, LogAccess, LogError
<1>9. CASE Proxying
  BY <1>9 DEF Proxying, Connect, ConnectFails, NoUpstreamLeft, SendRequest, SendRequestFails,
              ForwardBody, BodyStops, ResponseHead, ResponseFails, AwaitUpstream
<1>10. CASE Relaying
  BY <1>10 DEF Relaying, StreamEnds, TunnelEnds, StreamFails
<1> QED
  BY <1>2, <1>3, <1>4, <1>5, <1>6, <1>7, <1>8, <1>9, <1>10 DEF Next, Answering

LEMMA CInvKeeps ==
    ASSUME CInv, [Next]_vars
    PROVE  CInv'
<1>1. CASE Next
  BY <1>1, TypeKeeps, PlaceKeeps, UpstreamKeeps, KeepKeeps DEF CInv
<1>2. CASE UNCHANGED vars
  <2>1. UNCHANGED <<requests, taken, current, at>>
    BY <1>2 DEF vars, wire
  <2>2. UNCHANGED <<Request, ShapeNow, HeadPosition, Length>>
    BY <2>1, RequestStays DEF current
  <2>3. PlaceInv'
    BY <2>1, PlaceMoves DEF CInv
  <2> QED
    BY <1>2, <2>2, <2>3
       DEF vars, wire, current, proxied, answers, CInv, TypeOK, UpstreamInv, KeepInv, AllKeep
<1> QED
  BY <1>1, <1>2

LEMMA ConnectionInvariant == Spec => []CInv
<1>1. CInv /\ [Next]_vars => CInv'
  BY CInvKeeps
<1> QED
  BY InitCInv, <1>1, PTL DEF Spec

\* The types of the connection task's state (handle_connection_group).
THEOREM ConnectionTypes == Spec => []TypeOK
  BY ConnectionInvariant, PTL DEF CInv

\* A request reaches at most one upstream, over any failover, and is whole when
\* its answer is waited for, however the reads split it (serve_proxy,
\* stream_proxy_request_body); with pipelining too.
THEOREM RequestsForwardedOnce == Spec => []ForwardedOnceAndWhole
<1>1. CInv => ForwardedOnceAndWhole
  BY DEF CInv, UpstreamInv, ForwardedOnceAndWhole
<1> QED
  BY <1>1, ConnectionInvariant, PTL

\* After a response that says "close" no request is read, whatever made the
\* connection close: the request, the limit of requests or an unread body.
THEOREM CloseIsFinal == Spec => []CloseMeansClose
<1>1. CInv => CloseMeansClose
  BY DEF CInv, KeepInv, AllKeep, Waiting, HasRead, CloseMeansClose
<1> QED
  BY <1>1, ConnectionInvariant, PTL

----------------------------------------------------------------------------
(* Clients that wait for an answer before they send the next request.      *)

\* How far the client may have sent, and which request is the current one.
FrontInv ==
    /\ sent < HeadPosition[Smaller(handled + 2, MaxRequests + 1)]
    /\ at \in Handling => sent < HeadPosition[handled + 1] /\ Request = handled
    /\ at = "head" => taken + 1 = HeadPosition[handled + 1]
    /\ at = "peek" => taken = 0
    /\ at \in HasRead => Request = handled + 1


LEMMA InitFront == Init => FrontInv
<1> SUFFICES ASSUME Init PROVE FrontInv
  OBVIOUS
<1>1. requests \in [1..MaxRequests -> Shapes] /\ handled = 0
  BY DEF Init
<1> DEFINE j == Smaller(handled + 2, MaxRequests + 1)
<1>2. j \in 1..(MaxRequests + 1)
  BY <1>1, BoundsAssumption DEF Smaller
<1>3. HeadPosition[j] \in Nat \ {0}
  BY <1>1, <1>2, HeadPositions
<1> QED
  BY <1>3 DEF Init, FrontInv, Handling, HasRead

\* The next head is not sent before the server waits for it.
LEMMA SendBelow ==
    ASSUME CInv, Pipelining = FALSE, Send, NEW j \in 2..(MaxRequests + 1), sent < HeadPosition[j],
           at # "head" \/ j # handled + 1
    PROVE  sent + 1 < HeadPosition[j]
<1>1. sent \in Nat /\ HeadPosition[j] \in Nat /\ Length \in Nat
  BY LengthType, HeadPositions, BoundsAssumption DEF CInv, TypeOK
<1>2. SUFFICES ASSUME sent + 1 = HeadPosition[j] PROVE FALSE
  BY <1>1
<1>3. CASE j = MaxRequests + 1
  BY <1>1, <1>2, <1>3 DEF Send, Length
<1>4. CASE j # MaxRequests + 1
  <2>1. j \in 1..MaxRequests
    BY <1>4, BoundsAssumption
  <2>2. HeadAt(sent + 1) = j
    BY <1>2, <2>1, HeadAtFinds DEF CInv, TypeOK
  <2>3. j \notin {None, 1}
    BY <2>1, NoneAssumption, BoundsAssumption
  <2> QED
    BY <2>2, <2>3 DEF Send
<1> QED
  BY <1>3, <1>4

LEMMA SendFront ==
    ASSUME CInv, Pipelining = FALSE, FrontInv, Send
    PROVE  FrontInv'
<1> DEFINE j == Smaller(handled + 2, MaxRequests + 1)
<1>1. sent' = sent + 1 /\ UNCHANGED <<requests, start, handled, taken, at>>
  BY DEF Send, current
<1>2. UNCHANGED <<HeadPosition, Request>>
  BY <1>1, RequestStays
<1>3. handled \in 0..MaxRequests
  BY DEF CInv, TypeOK
<1>4. j \in 2..(MaxRequests + 1) /\ (at = "head" => j # handled + 1 \/ handled = MaxRequests)
  BY <1>3, BoundsAssumption DEF Smaller
<1>5. ASSUME at = "head", handled = MaxRequests
      PROVE  FALSE
  <2>1. taken + 1 = HeadPosition[MaxRequests + 1] /\ taken \in 0..sent /\ sent < Length /\ Length \in Nat
    BY <1>5, LengthType DEF FrontInv, CInv, TypeOK, Send
  <2> QED
    BY <2>1, HeadPositions, BoundsAssumption DEF Length, CInv, TypeOK
<1>6. sent + 1 < HeadPosition[j]
  <2> HIDE DEF j
  <2> QED
    BY <1>4, <1>5, SendBelow DEF FrontInv, j
<1>7. at \in Handling => sent + 1 < HeadPosition[handled + 1]
  <2> SUFFICES ASSUME at \in Handling PROVE sent + 1 < HeadPosition[handled + 1]
    OBVIOUS
  <2>1. handled > 0 /\ at # "head"
    BY DEF CInv, PlaceInv, Handling
  <2>2. handled + 1 \in 2..(MaxRequests + 1) /\ sent < HeadPosition[handled + 1]
    BY <1>3, <2>1, BoundsAssumption DEF FrontInv
  <2> QED
    BY <2>1, <2>2, SendBelow
<1> QED
  BY <1>1, <1>2, <1>6, <1>7 DEF FrontInv

LEMMA FrontMoves ==
    ASSUME CInv, FrontInv, UNCHANGED <<requests, sent, start, handled>>,
           \/ at' = at /\ taken' = taken
           \/ at = "peek" /\ at' = "head" /\ taken' = taken
           \/ at \in HasRead /\ at' \in HasRead
           \/ at \in Handling /\ at' \in Handling
           \/ at' \in Over
    PROVE  FrontInv'
<1>1. UNCHANGED <<HeadPosition, Request>>
  BY RequestStays
<1>2. HeadPosition[1] = 1
  BY HeadPositions DEF CInv, TypeOK
<1>3. at = "peek" => handled = 0 /\ taken + 1 = HeadPosition[handled + 1]
  BY <1>2 DEF CInv, PlaceInv, FrontInv
<1> QED
  BY <1>1, <1>3 DEF FrontInv, HasRead, Handling, Over

LEMMA ReadHeadFront ==
    ASSUME CInv, FrontInv, ReadHead
    PROVE  FrontInv'
<1>1. PICK n \in (taken + 1)..sent : taken' = n
  BY DEF ReadHead
<1>2. at = "head" /\ start' = taken + 1 /\ UNCHANGED <<requests, sent, handled>>
  BY DEF ReadHead, wire
<1>3. taken + 1 = HeadPosition[handled + 1] /\ handled \in 0..MaxRequests
  BY <1>2 DEF FrontInv, CInv, TypeOK
<1>4. taken \in Nat /\ sent \in 0..Length /\ Length \in Nat
  BY LengthType DEF CInv, TypeOK
<1>5. handled # MaxRequests
  BY <1>1, <1>3, <1>4, HeadPositions, BoundsAssumption DEF Length, CInv, TypeOK
<1>6. handled + 1 \in 1..MaxRequests
  BY <1>3, <1>5, BoundsAssumption
<1>7. HeadAt(start') = handled + 1 /\ HeadAt(start') # None
  BY <1>2, <1>3, <1>6, HeadAtFinds, NoneAssumption DEF CInv, TypeOK
<1>8. Request' = handled + 1 /\ UNCHANGED HeadPosition
  BY <1>2, <1>7, StreamStays DEF Request
<1>9. at' \in HasRead
  BY <1>7 DEF ReadHead, Goto, HasRead
<1> QED
  BY <1>2, <1>8, <1>9 DEF FrontInv, HasRead, Handling

LEMMA DispatchFront ==
    ASSUME CInv, FrontInv, Dispatch
    PROVE  FrontInv'
<1>1. at = "dispatch" /\ handled' = handled + 1 /\ UNCHANGED <<requests, sent, start>>
  BY DEF Dispatch, wire
<1>2. UNCHANGED <<HeadPosition, Request>>
  BY <1>1, RequestStays
<1>3. Request = handled + 1 /\ Request \in 1..MaxRequests /\ handled \in Nat
  BY <1>1 DEF FrontInv, HasRead, CInv, PlaceInv, TypeOK
<1> DEFINE j == handled + 2
           k == Smaller(handled + 3, MaxRequests + 1)
<1>4. /\ j \in 1..(MaxRequests + 1) /\ k \in 1..(MaxRequests + 1) /\ (j = k \/ j < k)
      /\ j = Smaller(handled + 2, MaxRequests + 1)
  BY <1>3, BoundsAssumption DEF Smaller
<1>5. sent < HeadPosition[j] /\ sent \in Nat
  BY <1>4, LengthType DEF FrontInv, CInv, TypeOK
<1>6. sent < HeadPosition[k]
  <2>1. j < k => HeadPosition[j] < HeadPosition[k]
    BY <1>4, HeadsInOrder DEF CInv, TypeOK
  <2>2. HeadPosition[j] \in Nat /\ HeadPosition[k] \in Nat
    BY <1>4, HeadPositions DEF CInv, TypeOK
  <2> HIDE DEF j, k
  <2> QED
    BY <1>4, <1>5, <2>1, <2>2
<1>7. at' \in {"local", "connecting"}
  BY DEF Dispatch, Goto
<1>8. handled' + 1 = j /\ Smaller(handled' + 2, MaxRequests + 1) = k
  <2>1. handled + 1 + 1 = handled + 2 /\ handled + 1 + 2 = handled + 3
    BY <1>3
  <2> QED
    BY <1>1, <2>1
<1> HIDE DEF j, k
<1> QED
  BY <1>1, <1>2, <1>3, <1>5, <1>6, <1>7, <1>8 DEF FrontInv, HasRead, Handling

LEMMA LocalBodyFront ==
    ASSUME CInv, FrontInv, LocalBody
    PROVE  FrontInv'
<1>1. at = "local_body" /\ UNCHANGED <<requests, sent, start, handled, taken>>
  BY DEF LocalBody, wire, current
<1>2. CASE closeAfter
  BY <1>1, <1>2, FrontMoves DEF LocalBody, Goto, Over
<1>3. CASE ~closeAfter
  <2>1. HeadPosition[handled + 1] <= taken + 1 /\ sent < HeadPosition[handled + 1]
    BY <1>1, <1>3, KeptBehindRequest DEF FrontInv, Handling
  <2>2. taken \in 0..sent /\ sent \in Nat /\ handled \in 0..MaxRequests
    BY LengthType DEF CInv, TypeOK
  <2>3. HeadPosition[handled + 1] \in Nat
    BY <2>2, HeadPositions, BoundsAssumption DEF CInv, TypeOK
  <2>4. taken + 1 = HeadPosition[handled + 1]
    BY <2>1, <2>2, <2>3
  <2>5. at' = "head" /\ UNCHANGED HeadPosition
    BY <1>1, <1>3, StreamStays DEF LocalBody, Goto
  <2> QED
    BY <1>1, <2>4, <2>5 DEF FrontInv, HasRead, Handling
<1> QED
  BY <1>2, <1>3

LEMMA FrontKeeps ==
    ASSUME CInv, FrontInv, Pipelining = FALSE, Next
    PROVE  FrontInv'
<1> USE DEF wire, current, Goto, Fail, Over, Handling, HasRead
<1>1. CASE Leave
  BY <1>1, FrontMoves DEF Leave
<1>2. CASE Peek \/ PeekTimesOut \/ NoDefaultServer \/ NoRequest \/ ChunksStop \/ Malformed \/ ReadFails
  BY <1>2, FrontMoves DEF Peek, PeekTimesOut, NoDefaultServer, NoRequest, ChunksStop, Malformed,
                          ReadFails
<1>3. CASE ReadChunks
  BY <1>3, FrontMoves DEF ReadChunks
<1>4. CASE Refuse \/ WriteFails \/ Gateway \/ LogAccess \/ LogError
  BY <1>4, FrontMoves DEF Refuse, WriteFails, Gateway, LogAccess, LogError
<1>5. CASE LocalHead
  <2>1. at = "local" /\ at' = "local_body" /\ UNCHANGED <<requests, sent, start, handled>>
    BY <1>5 DEF LocalHead
  <2> QED
    BY <2>1, FrontMoves
<1>6. ASSUME NEW u \in Upstreams, NEW timedOut \in BOOLEAN, Connect(u) \/ ConnectFails(u, timedOut)
      PROVE  FrontInv'
  BY <1>6, FrontMoves DEF Connect, ConnectFails
<1>7. CASE NoUpstreamLeft \/ SendRequest \/ ResponseHead \/ ForwardBody
  BY <1>7, FrontMoves DEF NoUpstreamLeft, SendRequest, ResponseHead, ForwardBody, AwaitUpstream
<1>8. CASE SendRequestFails \/ BodyStops \/ StreamEnds \/ TunnelEnds
  BY <1>8, FrontMoves DEF SendRequestFails, BodyStops, StreamEnds, TunnelEnds
<1>9. ASSUME NEW code \in {502, 504}, ResponseFails(code) \/ StreamFails(code)
      PROVE  FrontInv'
  BY <1>9, FrontMoves DEF ResponseFails, StreamFails
<1> QED
  BY <1>1, <1>2, <1>3, <1>4, <1>5, <1>6, <1>7, <1>8, <1>9, SendFront, ReadHeadFront,
     DispatchFront, LocalBodyFront DEF Next, Reading, Answering, Proxying, Relaying

LEMMA FrontInvariant == ASSUME Pipelining = FALSE PROVE Spec => []FrontInv
<1>1. CInv /\ FrontInv /\ [Next]_vars => FrontInv'
  BY FrontKeeps, FrontMoves DEF vars, wire, current
<1> QED
  BY InitFront, ConnectionInvariant, <1>1, PTL DEF Spec

\* A client that waits for its answers never has the rest of a body taken for a
\* request, nor a request skipped: close_after_response ends every connection
\* whose request was not read to its end.
THEOREM FramesAreKept == ASSUME Pipelining = FALSE PROVE Spec => []FramesKept
<1>1. FrontInv => FramesKept
  BY DEF FrontInv, FramesKept
<1> QED
  BY <1>1, FrontInvariant, PTL

----------------------------------------------------------------------------
(* Heads, outcomes and the access log.                                     *)

\* The last head that was sent for request i has the status code.
LastHeadSays(i, code) ==
    \A j \in DOMAIN heads :
      heads[j].request = i /\ (\A k \in DOMAIN heads : k > j => heads[k].request # i)
        => heads[j].status = code
LoggedUpTo(n) ==
    /\ Len(outcomes) = n
    /\ \A i \in 1..n : outcomes[i].request = i /\ LastHeadSays(i, outcomes[i].status)
HeadsUpTo(n) == \A j \in DOMAIN heads : heads[j].request <= n

LogInv ==
    /\ at \in Waiting \cup HasRead => LoggedUpTo(handled) /\ HeadsUpTo(handled)
    /\ at \in Handling => LoggedUpTo(handled - 1) /\ HeadsUpTo(handled)
    /\ at \in {"local", "connecting", "request", "body", "response", "tunnel"} =>
         HeadsUpTo(handled - 1)
    /\ at \in {"local_body", "stream"} => LastHeadSays(handled, 200)
    /\ at = "done" => LoggedUpTo(handled)
    /\ at # "logged" => access = <<>>
    /\ at = "logged" => access = outcomes /\ LoggedUpTo(handled)

LEMMA AppendHead ==
    ASSUME heads \in Seq(Answer), NEW a \in Answer, heads' = Append(heads, a)
    PROVE  /\ \A i \in Int : \A c : i # a.request /\ LastHeadSays(i, c) => LastHeadSays(i, c)'
           /\ LastHeadSays(a.request, a.status)'
           /\ \A n \in Nat : HeadsUpTo(n) /\ a.request <= n => HeadsUpTo(n)'
<1>3. /\ Len(heads) \in Nat
      /\ DOMAIN heads = 1..Len(heads) /\ DOMAIN heads' = 1..(Len(heads) + 1)
      /\ \A j \in DOMAIN heads : heads'[j] = heads[j]
      /\ heads'[Len(heads) + 1] = a
  BY AppendProperties, LenProperties
<1>4. LastHeadSays(a.request, a.status)'
  <2> SUFFICES ASSUME NEW j \in DOMAIN heads', heads'[j].request = a.request,
                      \A k \in DOMAIN heads' : k > j => heads'[k].request # a.request
               PROVE  heads'[j].status = a.status
    BY DEF LastHeadSays
  <2>1. Len(heads) + 1 \in DOMAIN heads'
    BY <1>3
  <2>2. j = Len(heads) + 1
    BY <1>3, <2>1
  <2> QED
    BY <1>3, <2>2
<1>5. ASSUME NEW i \in Int, NEW c, i # a.request, LastHeadSays(i, c)
      PROVE  LastHeadSays(i, c)'
  <2> SUFFICES ASSUME NEW j \in DOMAIN heads', heads'[j].request = i,
                      \A k \in DOMAIN heads' : k > j => heads'[k].request # i
               PROVE  heads'[j].status = c
    BY DEF LastHeadSays
  <2>1. j \in DOMAIN heads /\ heads[j].request = i /\ heads'[j] = heads[j]
    BY <1>3, <1>5
  <2>2. \A k \in DOMAIN heads : k > j => heads[k].request # i
    BY <1>3
  <2> QED
    BY <1>5, <2>1, <2>2 DEF LastHeadSays
<1>6. ASSUME NEW n \in Nat, HeadsUpTo(n), a.request <= n
      PROVE  HeadsUpTo(n)'
  <2> SUFFICES ASSUME NEW j \in DOMAIN heads' PROVE heads'[j].request <= n
    BY DEF HeadsUpTo
  <2> QED
    BY <1>3, <1>6 DEF HeadsUpTo
<1> QED
  BY <1>4, <1>5, <1>6

\* The outcome of the next request.
LEMMA AppendOutcome ==
    ASSUME outcomes \in Seq(Outcome), NEW n \in Nat, LoggedUpTo(n), n + 1 \in 1..MaxRequests,
           NEW code \in Nat, outcomes' = Append(outcomes, [request |-> n + 1, status |-> code]),
           \A i \in 1..n : \A c : LastHeadSays(i, c) => LastHeadSays(i, c)',
           LastHeadSays(n + 1, code)'
    PROVE  LoggedUpTo(n + 1)'
<1> DEFINE o == [request |-> n + 1, status |-> code]
<1>1. o \in Outcome /\ o.request = n + 1 /\ o.status = code
  BY DEF Outcome
<1> HIDE DEF o
<1>2. outcomes' = Append(outcomes, o) /\ Len(outcomes) = n /\ DOMAIN outcomes = 1..n
  BY LenProperties DEF o, LoggedUpTo
<1>3. /\ Len(outcomes') = n + 1 /\ outcomes'[n + 1] = o
      /\ \A i \in 1..n : outcomes'[i] = outcomes[i]
  BY <1>1, <1>2, AppendProperties
<1>4. ASSUME NEW i \in 1..(n + 1)
      PROVE  outcomes'[i].request = i /\ LastHeadSays(i, outcomes[i].status)'
  <2>1. CASE i = n + 1
    <3>1. LastHeadSays(i, outcomes[i].status)' = LastHeadSays(n + 1, code)'
      BY <1>1, <1>3, <2>1 DEF LastHeadSays
    <3> QED
      BY <1>1, <1>3, <2>1, <3>1
  <2>2. CASE i # n + 1
    <3>1. i \in 1..n /\ outcomes[i].request = i /\ LastHeadSays(i, outcomes[i].status)
      BY <2>2 DEF LoggedUpTo
    <3>2. outcomes'[i] = outcomes[i]
      BY <1>3, <3>1
    <3>3. PICK c : c = outcomes[i].status
      OBVIOUS
    <3>4. LastHeadSays(i, c)' /\ outcomes'[i].status = c
      BY <3>1, <3>2, <3>3
    <3>5. LastHeadSays(i, outcomes[i].status)'
      BY <3>4 DEF LastHeadSays
    <3> QED
      BY <3>1, <3>2, <3>5
  <2> QED
    BY <2>1, <2>2
<1> QED
  BY <1>3, <1>4 DEF LoggedUpTo

\* What the steps of the task need of the two: the head of request n, whose
\* outcome follows ...
LEMMA HeadAppended ==
    ASSUME heads \in Seq(Answer), NEW n \in 1..MaxRequests, NEW a \in Answer, a.request = n,
           heads' = Append(heads, a), UNCHANGED outcomes, LoggedUpTo(n - 1), HeadsUpTo(n)
    PROVE  LoggedUpTo(n - 1)' /\ HeadsUpTo(n)' /\ LastHeadSays(n, a.status)'
<1>1. /\ \A i \in Int : \A c : i # n /\ LastHeadSays(i, c) => LastHeadSays(i, c)'
      /\ LastHeadSays(a.request, a.status)' /\ HeadsUpTo(n)'
  BY AppendHead, BoundsAssumption
<1>2. LastHeadSays(n, a.status)'
  BY <1>1
<1>3. ASSUME NEW i \in 1..(n - 1)
      PROVE  outcomes'[i].request = i /\ LastHeadSays(i, outcomes[i].status)'
  <2>1. PICK c : c = outcomes[i].status
    OBVIOUS
  <2>2. outcomes[i].request = i /\ LastHeadSays(i, c) /\ i # n
    BY <2>1 DEF LoggedUpTo
  <2>3. LastHeadSays(i, c)'
    BY <1>1, <2>2
  <2> QED
    BY <2>1, <2>2, <2>3 DEF LastHeadSays
<1>4. LoggedUpTo(n - 1)'
  BY <1>3 DEF LoggedUpTo
<1> QED
  BY <1>1, <1>2, <1>4

\* ... and the outcome of request n, whose heads have been sent.
LEMMA OutcomeAppended ==
    ASSUME outcomes \in Seq(Outcome), NEW n \in 1..MaxRequests, NEW code \in Nat, UNCHANGED heads,
           outcomes' = Append(outcomes, [request |-> n, status |-> code]), LoggedUpTo(n - 1),
           LastHeadSays(n, code)
    PROVE  LoggedUpTo(n)'
<1>1. n - 1 \in Nat /\ (n - 1) + 1 = n
  OBVIOUS
<1>2. \A i \in 1..(n - 1) : \A c : LastHeadSays(i, c) => LastHeadSays(i, c)'
  BY DEF LastHeadSays
<1>3. LastHeadSays(n, code)'
  BY DEF LastHeadSays
<1> QED
  BY <1>1, <1>2, <1>3, AppendOutcome

LEMMA LogStays ==
    ASSUME UNCHANGED <<heads, outcomes>>
    PROVE  /\ \A n : LoggedUpTo(n)' = LoggedUpTo(n) /\ HeadsUpTo(n)' = HeadsUpTo(n)
           /\ \A i : \A c : LastHeadSays(i, c)' = LastHeadSays(i, c)
  BY DEF LoggedUpTo, HeadsUpTo, LastHeadSays

\* Steps that send no head and add no outcome.
LEMMA LogMoves ==
    ASSUME LogInv, UNCHANGED <<heads, outcomes, access, handled>>,
           \/ at' = at /\ at # "logged"
           \/ at \in Waiting \cup HasRead /\ at' \in Waiting \cup HasRead \cup {"done", "failed"}
           \/ at \in {"connecting", "request", "body", "response"}
                /\ at' \in {"connecting", "request", "body", "response", "tunnel", "gateway"}
           \/ at = "stream" /\ at' = "gateway"
           \/ at # "logged" /\ at' = "failed"
           \/ at = "failed" /\ at' = "ended"
    PROVE  LogInv'
  BY LogStays DEF LogInv, Waiting, HasRead, Handling

LEMMA LogKeeps ==
    ASSUME CInv, FrontInv, LogInv, Next
    PROVE  LogInv'
<1> USE DEF wire, current, answers, Goto, Fail
<1>1. handled \in Nat /\ heads \in Seq(Answer) /\ outcomes \in Seq(Outcome) /\ status \in Nat
  BY DEF CInv, TypeOK
<1>2. ASSUME at \in HasRead \cup Handling
      PROVE  Request \in 1..MaxRequests
  BY <1>2 DEF CInv, PlaceInv
<1>3. CASE Send \/ Leave
  <2>1. CASE at # "logged"
    BY <1>3, <2>1, LogMoves DEF Send, Leave
  <2>2. CASE at = "logged"
    BY <1>3, <2>2, LogStays DEF Send, Leave, LogInv, Waiting, HasRead, Handling
  <2> QED
    BY <2>1, <2>2
<1>4. CASE Reading
  BY <1>4, LogMoves DEF Reading, Peek, PeekTimesOut, NoDefaultServer, NoRequest, ReadHead, ReadChunks,
                        ChunksStop, Malformed, ReadFails, Waiting, HasRead
<1>5. CASE Refuse
  <2>1. /\ at = "refuse" /\ at' = "done" /\ UNCHANGED <<outcomes, access, handled>>
        /\ heads' = Append(heads, [request |-> Request, status |-> 413, keepAlive |-> FALSE])
    BY <1>5 DEF Refuse, Answered
  <2>2. Request = handled + 1 /\ Request \in 1..MaxRequests /\ LoggedUpTo(handled)
    BY <1>2, <2>1 DEF FrontInv, LogInv, HasRead
  <2> DEFINE a == [request |-> Request, status |-> 413, keepAlive |-> FALSE]
  <2>3. \A i \in Int : \A c : i # Request /\ LastHeadSays(i, c) => LastHeadSays(i, c)'
    <3>1. a \in Answer /\ heads' = Append(heads, a) /\ a.request = Request
      BY <2>1, <2>2 DEF Answer
    <3> HIDE DEF a
    <3> QED
      BY <1>1, <3>1, AppendHead
  <2>4. LoggedUpTo(handled)'
    <3> SUFFICES ASSUME NEW i \in 1..handled
                 PROVE  outcomes[i].request = i /\ LastHeadSays(i, outcomes[i].status)'
      BY <2>1, <2>2 DEF LoggedUpTo
    <3>1. PICK c : c = outcomes[i].status
      OBVIOUS
    <3>2. LastHeadSays(i, c)'
      BY <1>1, <2>2, <2>3, <3>1 DEF LoggedUpTo
    <3> QED
      BY <2>1, <2>2, <3>1, <3>2 DEF LoggedUpTo, LastHeadSays
  <2>5. access = <<>>
    BY <2>1 DEF LogInv
  <2> QED
    BY <2>1, <2>4, <2>5 DEF LogInv, Waiting, HasRead, Handling
<1>6. CASE Dispatch
  <2>1. /\ at = "dispatch" /\ at' \in {"local", "connecting"} /\ UNCHANGED <<heads, outcomes, access>>
        /\ handled' = handled + 1
    BY <1>6 DEF Dispatch
  <2>2. LoggedUpTo(handled) /\ HeadsUpTo(handled) /\ access = <<>>
    BY <2>1 DEF LogInv, HasRead
  <2>3. HeadsUpTo(handled + 1)
    <3>1. \A j \in DOMAIN heads : heads[j].request \in Nat
      <4>1. \A j \in DOMAIN heads : heads[j] \in Answer
        BY <1>1, ElementOfSeq, LenProperties
      <4> QED
        BY <4>1, BoundsAssumption DEF Answer
    <3> QED
      BY <1>1, <2>2, <3>1 DEF HeadsUpTo
  <2>4. PICK n \in Nat : n = handled
    BY <1>1
  <2>5. LoggedUpTo(n)' /\ HeadsUpTo(n)' /\ HeadsUpTo(n + 1)' /\ handled' = n + 1 /\ handled' - 1 = n
    BY <2>1, <2>2, <2>3, <2>4, LogStays
  <2> QED
    BY <2>1, <2>2, <2>5 DEF LogInv, Waiting, HasRead, Handling, LoggedUpTo, HeadsUpTo
<1>7. CASE LocalHead
  <2>1. /\ at = "local" /\ at' = "local_body" /\ UNCHANGED <<outcomes, access, handled>>
        /\ heads' = Append(heads, [request |-> Request, status |-> 200, keepAlive |-> keepAlive])
    BY <1>7 DEF LocalHead, Answered
  <2> DEFINE a == [request |-> Request, status |-> 200, keepAlive |-> keepAlive]
  <2>2. Request = handled /\ handled \in 1..MaxRequests /\ access = <<>>
    BY <1>2, <2>1 DEF FrontInv, LogInv, Handling
  <2>3. LoggedUpTo(handled - 1) /\ HeadsUpTo(handled)
    BY <2>1 DEF LogInv, Handling
  <2>4. a \in Answer /\ heads' = Append(heads, a) /\ a.request = handled /\ a.status = 200
    BY <2>1, <2>2 DEF Answer, CInv, TypeOK
  <2>5. PICK n \in Nat : n = handled
    BY <1>1
  <2>6. LoggedUpTo(n - 1)' /\ HeadsUpTo(n)' /\ LastHeadSays(n, 200)'
    BY <1>1, <2>1, <2>2, <2>3, <2>4, <2>5, HeadAppended
  <2> QED
    BY <2>1, <2>2, <2>5, <2>6 DEF LogInv, Waiting, HasRead, Handling, LoggedUpTo, HeadsUpTo, LastHeadSays
<1>8. CASE ResponseHead
  <2>1. /\ at = "response" /\ at' = "stream" /\ UNCHANGED <<outcomes, access, handled>>
        /\ heads' = Append(heads, [request |-> Request, status |-> 200, keepAlive |-> FALSE])
    BY <1>8 DEF ResponseHead, Answered
  <2> DEFINE a == [request |-> Request, status |-> 200, keepAlive |-> FALSE]
  <2>2. Request = handled /\ handled \in 1..MaxRequests /\ access = <<>>
    BY <1>2, <2>1 DEF FrontInv, LogInv, Handling
  <2>3. LoggedUpTo(handled - 1) /\ HeadsUpTo(handled)
    BY <2>1 DEF LogInv, Handling
  <2>4. a \in Answer /\ heads' = Append(heads, a) /\ a.request = handled /\ a.status = 200
    BY <2>1, <2>2 DEF Answer
  <2>5. PICK n \in Nat : n = handled
    BY <1>1
  <2>6. LoggedUpTo(n - 1)' /\ HeadsUpTo(n)' /\ LastHeadSays(n, 200)'
    BY <1>1, <2>1, <2>2, <2>3, <2>4, <2>5, HeadAppended
  <2> QED
    BY <2>1, <2>2, <2>5, <2>6 DEF LogInv, Waiting, HasRead, Handling, LoggedUpTo, HeadsUpTo, LastHeadSays
<1>9. CASE LocalBody
  <2>1. /\ at = "local_body" /\ at' \in {"done", "head"} /\ UNCHANGED <<heads, access, handled>>
        /\ outcomes' = Append(outcomes, [request |-> Request, status |-> 200])
    BY <1>9 DEF LocalBody, Logged
  <2>2. Request = handled /\ handled \in 1..MaxRequests /\ access = <<>>
    BY <1>2, <2>1 DEF FrontInv, LogInv, Handling
  <2>3. LoggedUpTo(handled - 1) /\ HeadsUpTo(handled) /\ LastHeadSays(handled, 200)
    BY <2>1 DEF LogInv, Handling
  <2>4. PICK n \in Nat : n = handled
    BY <1>1
  <2>5. LoggedUpTo(n)' /\ HeadsUpTo(n)'
    BY <1>1, <2>1, <2>2, <2>3, <2>4, OutcomeAppended DEF HeadsUpTo
  <2> QED
    BY <2>1, <2>2, <2>4, <2>5 DEF LogInv, Waiting, HasRead, Handling, LoggedUpTo, HeadsUpTo, LastHeadSays
<1>10. CASE StreamEnds
  <2>1. /\ at = "stream" /\ at' = "done" /\ UNCHANGED <<heads, access, handled>>
        /\ outcomes' = Append(outcomes, [request |-> Request, status |-> 200])
    BY <1>10 DEF StreamEnds, Logged
  <2>2. Request = handled /\ handled \in 1..MaxRequests /\ access = <<>>
    BY <1>2, <2>1 DEF FrontInv, LogInv, Handling
  <2>3. LoggedUpTo(handled - 1) /\ LastHeadSays(handled, 200)
    BY <2>1 DEF LogInv, Handling
  <2>4. PICK n \in Nat : n = handled
    BY <1>1
  <2>5. LoggedUpTo(n)'
    BY <1>1, <2>1, <2>2, <2>3, <2>4, OutcomeAppended
  <2> QED
    BY <2>1, <2>2, <2>4, <2>5 DEF LogInv, Waiting, HasRead, Handling, LoggedUpTo, LastHeadSays
<1>11. CASE TunnelEnds
  <2>1. /\ at = "tunnel" /\ at' = "done" /\ UNCHANGED <<heads, access, handled>>
        /\ outcomes' = Append(outcomes, [request |-> Request, status |-> 101])
    BY <1>11 DEF TunnelEnds, Logged
  <2>2. Request = handled /\ handled \in 1..MaxRequests /\ access = <<>>
    BY <1>2, <2>1 DEF FrontInv, LogInv, Handling
  <2>3. LoggedUpTo(handled - 1) /\ HeadsUpTo(handled - 1)
    BY <2>1 DEF LogInv, Handling
  <2>4. LastHeadSays(handled, 101)
    <3>1. \A j \in DOMAIN heads : heads[j].request # handled
      BY <1>1, <2>3 DEF HeadsUpTo
    <3> QED
      BY <3>1 DEF LastHeadSays
  <2>5. PICK n \in Nat : n = handled
    BY <1>1
  <2>6. LoggedUpTo(n)'
    BY <1>1, <2>1, <2>2, <2>3, <2>4, <2>5, OutcomeAppended
  <2> QED
    BY <2>1, <2>2, <2>5, <2>6 DEF LogInv, Waiting, HasRead, Handling, LoggedUpTo, LastHeadSays
<1>12. CASE Gateway
  <2>1. /\ at = "gateway" /\ at' = "done" /\ UNCHANGED <<access, handled>>
        /\ heads' = Append(heads, [request |-> Request, status |-> status, keepAlive |-> FALSE])
        /\ outcomes' = Append(outcomes, [request |-> Request, status |-> status])
    BY <1>12 DEF Gateway, Answered, Logged
  <2> DEFINE a == [request |-> Request, status |-> status, keepAlive |-> FALSE]
  <2>2. Request = handled /\ handled \in 1..MaxRequests /\ access = <<>>
    BY <1>2, <2>1 DEF FrontInv, LogInv, Handling
  <2>3. LoggedUpTo(handled - 1)
    BY <2>1 DEF LogInv, Handling
  <2>4. a \in Answer /\ heads' = Append(heads, a) /\ a.request = handled /\ a.status = status
    BY <1>1, <2>1, <2>2 DEF Answer
  <2>5. PICK n \in Nat, code \in Nat : n = handled /\ code = status
    BY <1>1
  <2>6. /\ \A i \in 1..(n - 1) : \A c : LastHeadSays(i, c) => LastHeadSays(i, c)'
        /\ LastHeadSays(n, code)'
    <3>1. PICK b \in Answer : heads' = Append(heads, b) /\ b.request = n /\ b.status = code
      BY <2>4, <2>5
    <3>2. /\ \A i \in Int : \A c : i # n /\ LastHeadSays(i, c) => LastHeadSays(i, c)'
          /\ LastHeadSays(b.request, b.status)'
      BY <1>1, <3>1, AppendHead
    <3> QED
      BY <3>1, <3>2
  <2>7. LoggedUpTo(n)'
    <3>1. n - 1 \in Nat /\ (n - 1) + 1 = n /\ n \in 1..MaxRequests
      BY <2>2, <2>5
    <3>2. LoggedUpTo(n - 1) /\ outcomes' = Append(outcomes, [request |-> n, status |-> code])
      BY <2>1, <2>2, <2>3, <2>5
    <3> QED
      BY <1>1, <2>6, <3>1, <3>2, AppendOutcome
  <2>8. handled' = n /\ access' = <<>>
    BY <2>1, <2>2, <2>5
  <2> HIDE DEF a
  <2>9. LoggedUpTo(handled)'
    BY <2>7, <2>8 DEF LoggedUpTo
  <2> QED
    BY <2>1, <2>8, <2>9 DEF LogInv, Waiting, HasRead, Handling
<1>13. CASE WriteFails \/ LogError
  BY <1>13, LogMoves DEF WriteFails, LogError
<1>14. CASE LogAccess
  <2>1. at = "done" /\ at' = "logged" /\ access' = outcomes /\ UNCHANGED <<heads, outcomes, handled>>
    BY <1>14 DEF LogAccess
  <2>2. LoggedUpTo(handled)
    BY <2>1 DEF LogInv
  <2> QED
    BY <2>1, <2>2 DEF LogInv, Waiting, HasRead, Handling, LoggedUpTo, LastHeadSays
<1>15. ASSUME NEW u \in Upstreams, NEW timedOut \in BOOLEAN, Connect(u) \/ ConnectFails(u, timedOut)
       PROVE  LogInv'
  BY <1>15, LogMoves DEF Connect, ConnectFails
<1>16. CASE NoUpstreamLeft \/ SendRequest \/ SendRequestFails \/ ForwardBody \/ BodyStops
  BY <1>16, LogMoves DEF NoUpstreamLeft, SendRequest, SendRequestFails, ForwardBody, BodyStops,
                         AwaitUpstream
<1>17. ASSUME NEW code \in {502, 504}, ResponseFails(code) \/ StreamFails(code)
       PROVE  LogInv'
  BY <1>17, LogMoves DEF ResponseFails, StreamFails
<1> QED
  BY <1>3, <1>4, <1>5, <1>6, <1>7, <1>8, <1>9, <1>10, <1>11, <1>12, <1>13, <1>14, <1>15, <1>16,
     <1>17 DEF Next, Answering, Proxying, Relaying

LEMMA LogInvariant == ASSUME Pipelining = FALSE PROVE Spec => []LogInv
<1>1. Init => LogInv
  BY DEF Init, LogInv, LoggedUpTo, HeadsUpTo, Waiting, HasRead, Handling
<1>2. CInv /\ FrontInv /\ LogInv /\ [Next]_vars => LogInv'
  <2> SUFFICES ASSUME CInv, FrontInv, LogInv, [Next]_vars PROVE LogInv'
    OBVIOUS
  <2>1. CASE UNCHANGED vars
    BY <2>1, LogStays DEF vars, current, answers, LogInv, LoggedUpTo, HeadsUpTo, LastHeadSays
  <2> QED
    BY <2>1, LogKeeps
<1> QED
  BY ConnectionInvariant, FrontInvariant, <1>1, <1>2, PTL DEF Spec

\* The access log of a connection that ended without an error has each request
\* handled, once and in order, with the status of the last head sent for it
\* (AccessOutcome, the accept task).
THEOREM CleanEndsAreLogged == ASSUME Pipelining = FALSE PROVE Spec => []CleanEndIsLogged
<1>1. CInv /\ LogInv => CleanEndIsLogged
  <2> SUFFICES ASSUME CInv, LogInv, at = "logged"
               PROVE  /\ Len(access) = handled
                      /\ \A i \in 1..handled :
                           access[i].request = i /\ LastHeadSays(i, access[i].status)
    BY DEF CleanEndIsLogged, LastHeadSays
  <2> QED
    BY DEF LogInv, LoggedUpTo
<1> QED
  BY <1>1, ConnectionInvariant, LogInvariant, PTL
----------------------------------------------------------------------------
(* Heads that are forwarded (ProxyRequest).  NamedIn is a fold over the     *)
(* headers; what the built head says of a name follows name by name.        *)

\* The equation that defines what NamedIn has kept of the first i headers.
Kept(f, headers, names) ==
    f = [i \in 0..Len(headers) |->
           IF i = 0 THEN <<>>
           ELSE IF headers[i].name \in names THEN Append(f[i - 1], headers[i]) ELSE f[i - 1]]

LEMMA KeptExists ==
    ASSUME NEW S, NEW headers \in Seq(S), NEW names
    PROVE  \E f : f \in [0..Len(headers) -> Seq(S)] /\ Kept(f, headers, names)
<1> DEFINE Solved == {h \in Seq(S) : \E f : f \in [0..Len(h) -> Seq(S)] /\ Kept(f, h, names)}
<1>1. <<>> \in Solved
  <2> DEFINE f == [i \in 0..0 |-> <<>>]
  <2>1. Len(<<>>) = 0 /\ <<>> \in Seq(S)
    OBVIOUS
  <2>2. f \in [0..0 -> Seq(S)] /\ Kept(f, <<>>, names)
    BY <2>1 DEF Kept
  <2> HIDE DEF f
  <2> QED
    BY <2>1, <2>2
<1>2. ASSUME NEW h \in Seq(S), NEW e \in S, h \in Solved
      PROVE  Append(h, e) \in Solved
  <2>1. PICK f : f \in [0..Len(h) -> Seq(S)] /\ Kept(f, h, names)
    BY <1>2
  <2> DEFINE n == Len(h)
             longer == Append(h, e)
             last == IF e.name \in names THEN Append(f[n], e) ELSE f[n]
             g == [i \in 0..(n + 1) |-> IF i <= n THEN f[i] ELSE last]
  <2>2. n \in Nat /\ longer \in Seq(S) /\ Len(longer) = n + 1 /\ longer[n + 1] = e
    OBVIOUS
  <2>3. \A i \in 1..n : longer[i] = h[i]
    OBVIOUS
  <2>4. f[n] \in Seq(S) /\ last \in Seq(S)
    BY <2>1
  <2> HIDE DEF longer, last
  <2>5. g \in [0..(n + 1) -> Seq(S)]
    BY <2>1, <2>2, <2>4
  <2>6. \A i \in 0..(n + 1) :
          g[i] = IF i = 0 THEN <<>>
                 ELSE IF longer[i].name \in names THEN Append(g[i - 1], longer[i]) ELSE g[i - 1]
    <3> SUFFICES ASSUME NEW i \in 0..(n + 1)
                 PROVE  g[i] = IF i = 0 THEN <<>>
                               ELSE IF longer[i].name \in names THEN Append(g[i - 1], longer[i])
                               ELSE g[i - 1]
      OBVIOUS
    <3>1. CASE i <= n
      <4>1. f[i] = IF i = 0 THEN <<>>
                   ELSE IF h[i].name \in names THEN Append(f[i - 1], h[i]) ELSE f[i - 1]
        <5>1. i \in 0..Len(h) /\ Kept(f, h, names)
          BY <2>1, <2>2, <3>1
        <5> QED
          BY <5>1, Zenon DEF Kept
      <4>2. g[i] = f[i] /\ (i # 0 => g[i - 1] = f[i - 1] /\ longer[i] = h[i])
        BY <2>2, <2>3, <3>1
      <4> QED
        BY <4>1, <4>2
    <3>2. CASE i = n + 1
      <4>1. g[i] = last /\ g[i - 1] = f[n] /\ longer[i] = e /\ i # 0
        BY <2>2, <3>2
      <4> QED
        BY <4>1 DEF last
    <3> QED
      BY <2>2, <3>1, <3>2
  <2> HIDE DEF g
  <2>7. Kept(g, longer, names)
    <3> DEFINE k == [i \in 0..(n + 1) |->
                       IF i = 0 THEN <<>>
                       ELSE IF longer[i].name \in names THEN Append(g[i - 1], longer[i])
                       ELSE g[i - 1]]
    <3>1. g = k
      BY <2>5, <2>6
    <3> QED
      BY <2>2, <3>1 DEF Kept
  <2> QED
    BY <2>2, <2>5, <2>7 DEF longer
<1> HIDE DEF Solved
<1>3. Seq(S) \subseteq Solved
  BY <1>1, <1>2, AppendInduction
<1> QED
  BY <1>3 DEF Solved

\* The longer list begins with the headers.
BeginsWith(longer, headers) ==
    /\ Len(headers) \in Nat /\ Len(longer) \in Nat /\ Len(headers) <= Len(longer)
    /\ \A i \in 1..Len(headers) : longer[i] = headers[i]

\* What is kept of the first headers does not depend on those that follow.
LEMMA KeptAgrees ==
    ASSUME NEW headers, NEW longer, NEW names, BeginsWith(longer, headers),
           NEW f, Kept(f, headers, names), NEW g, Kept(g, longer, names)
    PROVE  \A i \in 0..Len(headers) : f[i] = g[i]
<1> DEFINE Same == {i \in 0..Len(headers) : f[i] = g[i]}
<1>1. 0 \in Same
  BY DEF Kept, BeginsWith
<1>2. ASSUME NEW i \in 0..Len(headers), i \in Same, i < Len(headers)
      PROVE  i + 1 \in Same
  <2>1. /\ i + 1 \in 1..Len(headers) /\ i + 1 \in 0..Len(headers) /\ i + 1 \in 0..Len(longer)
        /\ i + 1 # 0 /\ (i + 1) - 1 = i
    BY <1>2 DEF BeginsWith
  <2>2. f[i + 1] = IF headers[i + 1].name \in names THEN Append(f[i], headers[i + 1]) ELSE f[i]
    BY <2>1 DEF Kept, BeginsWith
  <2>3. g[i + 1] = IF longer[i + 1].name \in names THEN Append(g[i], longer[i + 1]) ELSE g[i]
    BY <2>1 DEF Kept, BeginsWith
  <2> QED
    BY <1>2, <2>1, <2>2, <2>3 DEF BeginsWith
<1> HIDE DEF Same
<1>3. 0..Len(headers) \subseteq Same
  BY <1>1, <1>2, IntervalInduction DEF BeginsWith
<1> QED
  BY <1>3 DEF Same

LEMMA NamedInIsKept ==
    ASSUME NEW S, NEW headers \in Seq(S), NEW names
    PROVE  \E f : /\ f \in [0..Len(headers) -> Seq(S)] /\ Kept(f, headers, names)
                  /\ NamedIn(headers, names) = f[Len(headers)]
<1> DEFINE g == CHOOSE h : Kept(h, headers, names)
<1>1. PICK f : f \in [0..Len(headers) -> Seq(S)] /\ Kept(f, headers, names)
  BY KeptExists
<1>2. NamedIn(headers, names) = g[Len(headers)]
  BY DEF NamedIn, Kept
<1>3. Kept(g, headers, names)
  BY <1>1
<1> HIDE DEF g
<1>4. f[Len(headers)] = g[Len(headers)]
  <2>1. BeginsWith(headers, headers)
    BY DEF BeginsWith
  <2>2. \A i \in 0..Len(headers) : f[i] = g[i]
    BY <1>1, <1>3, <2>1, KeptAgrees
  <2> QED
    BY <2>2
<1> QED
  BY <1>1, <1>2, <1>4

\* NamedIn of no header, and with one header more.
LEMMA NamedInEmpty == ASSUME NEW names PROVE NamedIn(<<>>, names) = <<>>
<1>1. <<>> \in Seq({})
  OBVIOUS
<1>2. PICK f : Kept(f, <<>>, names) /\ NamedIn(<<>>, names) = f[Len(<<>>)]
  BY <1>1, NamedInIsKept
<1> QED
  BY <1>2 DEF Kept

LEMMA NamedInAppend ==
    ASSUME NEW S, NEW headers \in Seq(S), NEW h \in S, NEW names
    PROVE  NamedIn(Append(headers, h), names) =
             IF h.name \in names THEN Append(NamedIn(headers, names), h)
             ELSE NamedIn(headers, names)
<1> DEFINE longer == Append(headers, h)
           n == Len(headers)
<1>1. n \in Nat /\ longer \in Seq(S) /\ Len(longer) = n + 1 /\ longer[n + 1] = h
  OBVIOUS
<1>2. \A i \in 1..n : longer[i] = headers[i]
  OBVIOUS
<1>3. PICK f : Kept(f, headers, names) /\ NamedIn(headers, names) = f[n]
  BY NamedInIsKept
<1>4. PICK g : Kept(g, longer, names) /\ NamedIn(longer, names) = g[Len(longer)]
  BY <1>1, NamedInIsKept
<1> HIDE DEF longer
<1>5. f[n] = g[n]
  <2>1. BeginsWith(longer, headers)
    BY <1>1, <1>2 DEF BeginsWith
  <2>2. \A i \in 0..Len(headers) : f[i] = g[i]
    BY <1>3, <1>4, <2>1, KeptAgrees
  <2> QED
    BY <1>1, <2>2
<1>6. g[n + 1] = IF h.name \in names THEN Append(g[n], h) ELSE g[n]
  <2>1. n + 1 \in 0..Len(longer) /\ n + 1 # 0 /\ (n + 1) - 1 = n
    BY <1>1
  <2> QED
    BY <1>1, <1>4, <2>1 DEF Kept
<1> QED
  BY <1>1, <1>3, <1>4, <1>5, <1>6 DEF longer

LEMMA NamedInType ==
    ASSUME NEW S, NEW headers \in Seq(S), NEW names
    PROVE  NamedIn(headers, names) \in Seq(S)
<1>1. PICK f : f \in [0..Len(headers) -> Seq(S)] /\ NamedIn(headers, names) = f[Len(headers)]
  BY NamedInIsKept
<1> QED
  BY <1>1

LEMMA AppendBehind ==
    ASSUME NEW S, NEW s \in Seq(S), NEW t \in Seq(S), NEW e \in S
    PROVE  s \o Append(t, e) = Append(s \o t, e)
  OBVIOUS

\* NamedIn goes through lists in parts, and no part depends on another.
LEMMA NamedInConcat ==
    ASSUME NEW S, NEW s \in Seq(S), NEW t \in Seq(S), NEW names
    PROVE  NamedIn(s \o t, names) = NamedIn(s, names) \o NamedIn(t, names)
<1> DEFINE T == {u \in Seq(S) : NamedIn(s \o u, names) = NamedIn(s, names) \o NamedIn(u, names)}
<1>1. <<>> \in T
  <2>1. s \o <<>> = s /\ NamedIn(s, names) \o <<>> = NamedIn(s, names)
    BY NamedInType, ConcatEmptySeq
  <2>2. NamedIn(s \o <<>>, names) = NamedIn(s, names) \o NamedIn(<<>>, names)
    BY <2>1, NamedInEmpty, Zenon
  <2> QED
    BY <2>2
<1>2. ASSUME NEW u \in Seq(S), NEW e \in S, u \in T
      PROVE  Append(u, e) \in T
  <2>1. /\ s \o u \in Seq(S) /\ Append(u, e) \in Seq(S)
        /\ s \o Append(u, e) = Append(s \o u, e)
    OBVIOUS
  <2>2. PICK p \in Seq(S), q \in Seq(S) : p = NamedIn(s, names) /\ q = NamedIn(u, names)
    BY NamedInType
  <2>3. NamedIn(s \o Append(u, e), names) =
          IF e.name \in names THEN Append(p \o q, e) ELSE p \o q
    <3>1. NamedIn(s \o u, names) = p \o q
      BY <1>2, <2>2
    <3>2. NamedIn(Append(s \o u, e), names) =
            IF e.name \in names THEN Append(NamedIn(s \o u, names), e)
            ELSE NamedIn(s \o u, names)
      BY <2>1, NamedInAppend
    <3> QED
      BY <2>1, <3>1, <3>2, Zenon
  <2>4. NamedIn(Append(u, e), names) = IF e.name \in names THEN Append(q, e) ELSE q
    BY <2>2, NamedInAppend, Zenon
  <2>5. p \o Append(q, e) = Append(p \o q, e)
    BY AppendBehind, SMT
  <2>6. NamedIn(s \o Append(u, e), names) = NamedIn(s, names) \o NamedIn(Append(u, e), names)
    BY <2>2, <2>3, <2>4, <2>5, Zenon
  <2> QED
    BY <2>1, <2>6
<1> HIDE DEF T
<1>3. Seq(S) \subseteq T
  BY <1>1, <1>2, AppendInduction
<1> QED
  BY <1>3 DEF T

LEMMA NamedInOne ==
    ASSUME NEW h, NEW names
    PROVE  NamedIn(<<h>>, names) = IF h.name \in names THEN <<h>> ELSE <<>>
<1>1. <<>> \in Seq({h}) /\ Append(<<>>, h) = <<h>>
  OBVIOUS
<1>2. NamedIn(Append(<<>>, h), names) =
        IF h.name \in names THEN Append(NamedIn(<<>>, names), h) ELSE NamedIn(<<>>, names)
  BY <1>1, NamedInAppend
<1> QED
  BY <1>1, <1>2, NamedInEmpty

LEMMA ToSetAppend ==
    ASSUME NEW S, NEW s \in Seq(S), NEW e
    PROVE  ToSet(Append(s, e)) = ToSet(s) \cup {e}
<1>1. /\ DOMAIN s = 1..Len(s) /\ Len(s) \in Nat /\ DOMAIN Append(s, e) = 1..(Len(s) + 1)
      /\ Append(s, e)[Len(s) + 1] = e /\ \A i \in 1..Len(s) : Append(s, e)[i] = s[i]
  OBVIOUS
<1> QED
  BY <1>1 DEF ToSet

\* The headers it returns.
LEMMA NamedInSet ==
    ASSUME NEW S, NEW s \in Seq(S), NEW names
    PROVE  ToSet(NamedIn(s, names)) = {h \in ToSet(s) : h.name \in names}
<1> DEFINE T == {u \in Seq(S) : ToSet(NamedIn(u, names)) = {h \in ToSet(u) : h.name \in names}}
<1>1. <<>> \in T
  <2>1. ToSet(<<>>) = {}
    BY DEF ToSet
  <2> QED
    BY <2>1, NamedInEmpty
<1>2. ASSUME NEW u \in Seq(S), NEW e \in S, u \in T
      PROVE  Append(u, e) \in T
  <2>1. NamedIn(u, names) \in Seq(S)
    BY NamedInType
  <2>2. /\ ToSet(Append(u, e)) = ToSet(u) \cup {e}
        /\ ToSet(Append(NamedIn(u, names), e)) = ToSet(NamedIn(u, names)) \cup {e}
    BY <2>1, ToSetAppend
  <2>3. ToSet(NamedIn(u, names)) = {h \in ToSet(u) : h.name \in names}
    BY <1>2
  <2>4. Append(u, e) \in Seq(S)
    OBVIOUS
  <2>5. NamedIn(Append(u, e), names) =
          IF e.name \in names THEN Append(NamedIn(u, names), e) ELSE NamedIn(u, names)
    BY NamedInAppend
  <2>6. ToSet(NamedIn(Append(u, e), names)) = {h \in ToSet(Append(u, e)) : h.name \in names}
    BY <2>2, <2>3, <2>5, Zenon
  <2> QED
    BY <2>4, <2>6
<1> HIDE DEF T
<1>3. Seq(S) \subseteq T
  BY <1>1, <1>2, AppendInduction
<1> QED
  BY <1>3 DEF T

LEMMA NamedInTwice ==
    ASSUME NEW S, NEW s \in Seq(S), NEW M, NEW N
    PROVE  NamedIn(NamedIn(s, M), N) = NamedIn(s, M \cap N)
<1> DEFINE T == {u \in Seq(S) : NamedIn(NamedIn(u, M), N) = NamedIn(u, M \cap N)}
<1>1. <<>> \in T
  BY NamedInEmpty
<1>2. ASSUME NEW u \in Seq(S), NEW e \in S, u \in T
      PROVE  Append(u, e) \in T
  <2>1. NamedIn(u, M) \in Seq(S) /\ Append(u, e) \in Seq(S)
    BY NamedInType
  <2>2. NamedIn(Append(u, e), M) =
          IF e.name \in M THEN Append(NamedIn(u, M), e) ELSE NamedIn(u, M)
    BY NamedInAppend
  <2>3. NamedIn(Append(u, e), M \cap N) =
          IF e.name \in M \cap N THEN Append(NamedIn(u, M \cap N), e) ELSE NamedIn(u, M \cap N)
    BY NamedInAppend
  <2>4. NamedIn(Append(NamedIn(u, M), e), N) =
          IF e.name \in N THEN Append(NamedIn(NamedIn(u, M), N), e)
          ELSE NamedIn(NamedIn(u, M), N)
    BY <2>1, NamedInAppend
  <2>5. NamedIn(NamedIn(u, M), N) = NamedIn(u, M \cap N)
    BY <1>2
  <2>6. NamedIn(NamedIn(Append(u, e), M), N) = NamedIn(Append(u, e), M \cap N)
    <3>1. CASE e.name \in M /\ e.name \in N
      BY <2>2, <2>3, <2>4, <2>5, <3>1, Zenon
    <3>3. CASE e.name \in M /\ e.name \notin N
      BY <2>2, <2>3, <2>4, <2>5, <3>3, Zenon
    <3>2. CASE e.name \notin M
      BY <2>2, <2>3, <2>5, <3>2, Zenon
    <3> QED
      BY <3>1, <3>2, <3>3
  <2> QED
    BY <2>1, <2>6
<1> HIDE DEF T
<1>3. Seq(S) \subseteq T
  BY <1>1, <1>2, AppendInduction
<1> QED
  BY <1>3 DEF T

\* Lists that differ only in headers of which neither is returned.
Alike(s, M, t, N) ==
    /\ Len(s) = Len(t)
    /\ \A i \in 1..Len(s) : /\ s[i].name \in M <=> t[i].name \in N
                            /\ s[i].name \in M => s[i] = t[i]

LEMMA NamedInAlike ==
    ASSUME NEW S, NEW s \in Seq(S), NEW t \in Seq(S), NEW M, NEW N, Alike(s, M, t, N)
    PROVE  NamedIn(s, M) = NamedIn(t, N)
<1> DEFINE Same == {n \in 0..Len(s) : NamedIn(SubSeq(s, 1, n), M) = NamedIn(SubSeq(t, 1, n), N)}
<1>0. Len(s) \in Nat /\ Len(t) = Len(s)
  BY DEF Alike
<1>1. 0 \in Same
  <2>1. SubSeq(s, 1, 0) = <<>> /\ SubSeq(t, 1, 0) = <<>>
    BY SubSeqEmpty
  <2>2. NamedIn(SubSeq(s, 1, 0), M) = NamedIn(SubSeq(t, 1, 0), N)
    BY <2>1, NamedInEmpty, Zenon
  <2> QED
    BY <1>0, <2>2
<1>2. ASSUME NEW n \in 0..Len(s), n \in Same, n < Len(s)
      PROVE  n + 1 \in Same
  <2>1. n + 1 \in 1..Len(s) /\ n + 1 \in 0..Len(s)
    BY <1>0, <1>2
  <2>2. PICK p \in Seq(S), q \in Seq(S), g \in S, h \in S :
          /\ p = SubSeq(s, 1, n) /\ q = SubSeq(t, 1, n) /\ g = s[n + 1] /\ h = t[n + 1]
          /\ SubSeq(s, 1, n + 1) = Append(p, g) /\ SubSeq(t, 1, n + 1) = Append(q, h)
    <3>1. /\ SubSeq(s, 1, n) \in Seq(S) /\ s[n + 1] \in S
          /\ SubSeq(t, 1, n) \in Seq(S) /\ t[n + 1] \in S
      BY <1>0, <1>2
    <3>2. SubSeq(s, 1, n + 1) = Append(SubSeq(s, 1, n), s[n + 1])
      BY <1>0, <1>2
    <3>3. SubSeq(t, 1, n + 1) = Append(SubSeq(t, 1, n), t[n + 1])
      BY <1>0, <1>2
    <3> QED
      BY <3>1, <3>2, <3>3, Zenon
  <2>3. NamedIn(p, M) = NamedIn(q, N)
    BY <1>2, <2>2
  <2>4. (g.name \in M <=> h.name \in N) /\ (g.name \in M => g = h)
    BY <2>1, <2>2 DEF Alike
  <2>5. NamedIn(Append(p, g), M) =
          IF g.name \in M THEN Append(NamedIn(p, M), g) ELSE NamedIn(p, M)
    BY NamedInAppend
  <2>6. NamedIn(Append(q, h), N) =
          IF h.name \in N THEN Append(NamedIn(q, N), h) ELSE NamedIn(q, N)
    BY NamedInAppend
  <2>7. NamedIn(SubSeq(s, 1, n + 1), M) = NamedIn(SubSeq(t, 1, n + 1), N)
    BY <2>2, <2>3, <2>4, <2>5, <2>6, Zenon
  <2> QED
    BY <2>1, <2>7
<1> HIDE DEF Same
<1>3. 0..Len(s) \subseteq Same
  BY <1>0, <1>1, <1>2, IntervalInduction
<1>4. NamedIn(SubSeq(s, 1, Len(s)), M) = NamedIn(SubSeq(t, 1, Len(t)), N)
  BY <1>0, <1>3 DEF Same
<1> QED
  BY <1>4, SubSeqFull

LEMMA EmptySet == ASSUME NEW S, NEW s \in Seq(S) PROVE s = <<>> <=> ToSet(s) = {}
<1>1. DOMAIN s = 1..Len(s) /\ Len(s) \in Nat
  OBVIOUS
<1>2. CASE Len(s) = 0
  BY <1>1, <1>2 DEF ToSet
<1>3. CASE Len(s) # 0
  <2>1. 1 \in DOMAIN s /\ s # <<>>
    BY <1>1, <1>3
  <2> QED
    BY <2>1 DEF ToSet
<1> QED
  BY <1>2, <1>3

LEMMA NamedInNone ==
    ASSUME NEW S, NEW s \in Seq(S), NEW names, \A i \in 1..Len(s) : s[i].name \notin names
    PROVE  NamedIn(s, names) = <<>>
<1>1. DOMAIN s = 1..Len(s)
  OBVIOUS
<1>2. \A h \in ToSet(s) : h.name \notin names
  BY <1>1 DEF ToSet
<1>3. ToSet(NamedIn(s, names)) = {}
  BY <1>2, NamedInSet
<1> QED
  BY <1>3, NamedInType, EmptySet

\* Without keeps what NamedIn does not return.
LEMMA NamedInWithout ==
    ASSUME NEW S, NEW s \in Seq(S), NEW M, NEW N
    PROVE  NamedIn(Without(s, M), N) = NamedIn(s, N \ M)
<1> DEFINE all == {s[i].name : i \in DOMAIN s}
<1>1. NamedIn(Without(s, M), N) = NamedIn(s, (all \ M) \cap N)
  BY NamedInTwice DEF Without
<1>2. Alike(s, (all \ M) \cap N, s, N \ M)
  <2>1. \A i \in 1..Len(s) : s[i].name \in all
    BY DEF all
  <2> QED
    BY <2>1 DEF Alike
<1> QED
  BY <1>1, <1>2, NamedInAlike

----------------------------------------------------------------------------
(* The head that an upstream is built.                                      *)

\* Its first part: what is kept of the request's headers, with another host.
Hosted(headers, upstream, websocket) ==
    LET kept == Without(headers, Dropped(websocket))
    IN  [i \in DOMAIN kept |->
           IF kept[i].name = "host" THEN Header("host", <<upstream>>) ELSE kept[i]]

LEMMA HostedNamed ==
    ASSUME NEW headers \in Seq(Lines), NEW upstream, NEW websocket
    PROVE  LET hosted == Hosted(headers, upstream, websocket)
               host == Header("host", <<upstream>>)
               kept == Without(headers, Dropped(websocket))
           IN  /\ kept \in Seq(Lines) /\ hosted \in Seq(Lines \cup {host})
               /\ ToSet(NamedIn(hosted, {"host"})) = IF Named(kept, "host") = <<>> THEN {} ELSE {host}
<1> DEFINE hosted == Hosted(headers, upstream, websocket)
           host == Header("host", <<upstream>>)
           kept == Without(headers, Dropped(websocket))
           H == Lines \cup {host}
<1>1. kept \in Seq(Lines) /\ Len(kept) \in Nat /\ DOMAIN kept = 1..Len(kept)
  BY NamedInType DEF Without
<1>2. /\ hosted \in Seq(H) /\ Len(hosted) = Len(kept) /\ DOMAIN hosted = 1..Len(kept)
      /\ \A i \in 1..Len(kept) : hosted[i] = IF kept[i].name = "host" THEN host ELSE kept[i]
  <2> HIDE DEF kept, host
  <2>1. hosted = [i \in 1..Len(kept) |-> IF kept[i].name = "host" THEN host ELSE kept[i]]
    BY <1>1 DEF Hosted, kept, host
  <2>2. \A i \in 1..Len(kept) : (IF kept[i].name = "host" THEN host ELSE kept[i]) \in H
    BY <1>1
  <2> HIDE DEF hosted, H
  <2> QED
    BY <1>1, <2>1, <2>2
<1>3. host.name = "host"
  BY DEF Header
<1> HIDE DEF hosted, kept, host
<1>4. ToSet(NamedIn(hosted, {"host"})) = {h \in ToSet(hosted) : h.name = "host"}
  <2>1. ToSet(NamedIn(hosted, {"host"})) = {h \in ToSet(hosted) : h.name \in {"host"}}
    BY <1>2, NamedInSet
  <2> QED
    BY <2>1
<1>5. ToSet(Named(kept, "host")) = {h \in ToSet(kept) : h.name = "host"}
  <2>1. ToSet(Named(kept, "host")) = {h \in ToSet(kept) : h.name \in {"host"}}
    BY <1>1, NamedInSet DEF Named
  <2> QED
    BY <2>1
<1>6. Named(kept, "host") = <<>> <=> \A i \in 1..Len(kept) : kept[i].name # "host"
  <2>1. Named(kept, "host") \in Seq(Lines)
    BY <1>1, NamedInType DEF Named
  <2>2. Named(kept, "host") = <<>> <=> ToSet(Named(kept, "host")) = {}
    BY <2>1, EmptySet
  <2> QED
    BY <1>1, <1>5, <2>2 DEF ToSet
<1>7. {h \in ToSet(hosted) : h.name = "host"} =
        IF \A i \in 1..Len(kept) : kept[i].name # "host" THEN {} ELSE {host}
  BY <1>2, <1>3 DEF ToSet
<1> QED
  BY <1>1, <1>2, <1>4, <1>6, <1>7 DEF hosted, kept, host

LEMMA HostedOthers ==
    ASSUME NEW headers \in Seq(Lines), NEW upstream, NEW websocket, NEW names, "host" \notin names
    PROVE  NamedIn(Hosted(headers, upstream, websocket), names) =
             NamedIn(headers, names \ Dropped(websocket))
<1> DEFINE hosted == Hosted(headers, upstream, websocket)
           host == Header("host", <<upstream>>)
           kept == Without(headers, Dropped(websocket))
           H == Lines \cup {host}
<1>1. kept \in Seq(H) /\ hosted \in Seq(H) /\ kept \in Seq(Lines)
  <2>1. kept \in Seq(Lines) /\ hosted \in Seq(H)
    BY HostedNamed
  <2> QED
    BY <2>1
<1>2. Alike(hosted, names, kept, names)
  <2>1. host.name = "host"
    BY DEF Header
  <2>2. DOMAIN kept = 1..Len(kept) /\ Len(kept) \in Nat
    BY <1>1
  <2>3. hosted = [i \in 1..Len(kept) |-> IF kept[i].name = "host" THEN host ELSE kept[i]]
    BY <2>2 DEF Hosted
  <2> HIDE DEF hosted, kept, host
  <2>4. Len(hosted) = Len(kept)
    BY <2>2, <2>3
  <2> QED
    BY <2>1, <2>3, <2>4 DEF Alike
<1> HIDE DEF H
<1>3. NamedIn(hosted, names) = NamedIn(kept, names)
  BY <1>1, <1>2, NamedInAlike
<1>4. NamedIn(kept, names) = NamedIn(headers, names \ Dropped(websocket))
  BY NamedInWithout
<1> QED
  BY <1>3, <1>4

\* A list of at most one header, if that has one of the names.
Only(h, names) == IF h.name \in names THEN <<h>> ELSE <<>>

\* The provers apply lemmas to lists in parts if \o is a definition to them.
Join(s, t) == s \o t

LEMMA NamedInJoin ==
    ASSUME NEW S, NEW s \in Seq(S), NEW t \in Seq(S), NEW names
    PROVE  /\ Join(s, t) \in Seq(S)
           /\ NamedIn(Join(s, t), names) = Join(NamedIn(s, names), NamedIn(t, names))
  BY NamedInConcat DEF Join

LEMMA ThreeInOne ==
    ASSUME NEW S, NEW a \in S, NEW b \in S, NEW c \in S
    PROVE  <<a>> \o <<b>> \o <<c>> = <<a, b, c>>
<1>1. PICK p \in Seq(S), q \in Seq(S), r \in Seq(S) : p = <<a>> /\ q = <<b>> /\ r = <<c>>
  <2>1. <<a>> \in Seq(S) /\ <<b>> \in Seq(S) /\ <<c>> \in Seq(S)
    OBVIOUS
  <2> QED
    BY <2>1, Zenon
<1>2. Len(p) = 1 /\ p[1] = a /\ Len(q) = 1 /\ q[1] = b /\ Len(r) = 1 /\ r[1] = c
  BY <1>1
<1>3. PICK u \in Seq(S) : u = p \o q
  <2>1. p \o q \in Seq(S)
    OBVIOUS
  <2> QED
    BY <2>1, Zenon
<1>4. Len(u) = 2 /\ u[1] = a /\ u[2] = b
  <2>1. Len(p \o q) = 2 /\ \A i \in 1..2 : (p \o q)[i] = IF i <= 1 THEN p[i] ELSE q[i - 1]
    BY <1>2, ConcatProperties
  <2>2. Len(u) = 2 /\ \A i \in 1..2 : u[i] = IF i <= 1 THEN p[i] ELSE q[i - 1]
    BY <1>3, <2>1, Zenon
  <2> QED
    BY <1>2, <2>2
<1>5. PICK v \in Seq(S) : v = u \o r
  <2>1. u \o r \in Seq(S)
    OBVIOUS
  <2> QED
    BY <2>1, Zenon
<1>6. Len(v) = 3 /\ v[1] = a /\ v[2] = b /\ v[3] = c
  <2>1. Len(u \o r) = 3 /\ \A i \in 1..3 : (u \o r)[i] = IF i <= 2 THEN u[i] ELSE r[i - 2]
    <3>1. /\ Len(u \o r) = Len(u) + Len(r)
          /\ \A i \in 1..(Len(u) + Len(r)) :
               (u \o r)[i] = IF i <= Len(u) THEN u[i] ELSE r[i - Len(u)]
      BY ConcatProperties
    <3>2. Len(u) = 2 /\ Len(r) = 1
      BY <1>2, <1>4
    <3> QED
      BY <3>1, <3>2
  <2>2. Len(v) = 3 /\ \A i \in 1..3 : v[i] = IF i <= 2 THEN u[i] ELSE r[i - 2]
    BY <1>5, <2>1, Zenon
  <2> QED
    BY <1>2, <1>4, <2>2
<1>7. v = <<a, b, c>>
  <2>1. <<a, b, c>> \in Seq(S) /\ Len(<<a, b, c>>) = 3 /\ \A i \in 1..3 : v[i] = <<a, b, c>>[i]
    BY <1>6
  <2> QED
    BY <1>6, <2>1, SeqEqual
<1> QED
  BY <1>1, <1>3, <1>5, <1>7, Zenon

LEMMA NamedInThree ==
    ASSUME NEW a, NEW b, NEW c, NEW names
    PROVE  NamedIn(<<a, b, c>>, names) = Join(Join(Only(a, names), Only(b, names)), Only(c, names))
<1> DEFINE S == {a, b, c}
<1>1. a \in S /\ b \in S /\ c \in S
  OBVIOUS
<1> HIDE DEF S
<1>2. <<a>> \in Seq(S) /\ <<b>> \in Seq(S) /\ <<c>> \in Seq(S)
  BY <1>1
<1>3. <<a, b, c>> = Join(Join(<<a>>, <<b>>), <<c>>)
  BY <1>1, ThreeInOne DEF Join
<1>4. NamedIn(Join(Join(<<a>>, <<b>>), <<c>>), names) =
        Join(Join(NamedIn(<<a>>, names), NamedIn(<<b>>, names)), NamedIn(<<c>>, names))
  <2>1. PICK p \in Seq(S), q \in Seq(S), r \in Seq(S) : p = <<a>> /\ q = <<b>> /\ r = <<c>>
    BY <1>2, Zenon
  <2>2. /\ Join(p, q) \in Seq(S)
        /\ NamedIn(Join(p, q), names) = Join(NamedIn(p, names), NamedIn(q, names))
    BY NamedInJoin
  <2>3. NamedIn(Join(Join(p, q), r), names) = Join(NamedIn(Join(p, q), names), NamedIn(r, names))
    BY <2>2, NamedInJoin
  <2> QED
    BY <2>1, <2>2, <2>3, Zenon
<1>5. /\ NamedIn(<<a>>, names) = Only(a, names) /\ NamedIn(<<b>>, names) = Only(b, names)
      /\ NamedIn(<<c>>, names) = Only(c, names)
  BY NamedInOne DEF Only
<1> QED
  BY <1>3, <1>4, <1>5

LEMMA NamedInFive ==
    ASSUME NEW S, NEW p \in Seq(S), NEW q \in Seq(S), NEW r \in Seq(S), NEW s \in Seq(S),
           NEW t \in Seq(S), NEW names
    PROVE  NamedIn(Join(Join(Join(Join(p, q), r), s), t), names) =
             Join(Join(Join(Join(NamedIn(p, names), NamedIn(q, names)), NamedIn(r, names)),
                       NamedIn(s, names)), NamedIn(t, names))
<1>1. /\ Join(p, q) \in Seq(S)
      /\ NamedIn(Join(p, q), names) = Join(NamedIn(p, names), NamedIn(q, names))
  BY NamedInJoin
<1>2. /\ Join(Join(p, q), r) \in Seq(S)
      /\ NamedIn(Join(Join(p, q), r), names) = Join(NamedIn(Join(p, q), names), NamedIn(r, names))
  BY <1>1, NamedInJoin
<1>3. /\ Join(Join(Join(p, q), r), s) \in Seq(S)
      /\ NamedIn(Join(Join(Join(p, q), r), s), names) =
           Join(NamedIn(Join(Join(p, q), r), names), NamedIn(s, names))
  BY <1>2, NamedInJoin
<1>4. NamedIn(Join(Join(Join(Join(p, q), r), s), t), names) =
        Join(NamedIn(Join(Join(Join(p, q), r), s), names), NamedIn(t, names))
  BY <1>3, NamedInJoin
<1> QED
  BY <1>1, <1>2, <1>3, <1>4

\* What the parts behind it have of some names.
OwnHost(headers, upstream, websocket, names) ==
    IF Named(Without(headers, Dropped(websocket)), "host") = <<>>
    THEN Only(Header("host", <<upstream>>), names) ELSE <<>>
Addresses(headers, client, names) ==
    Join(Join(Only(Header("x-real-ip", <<client>>), names),
              Only(Header("x-forwarded-for", ForwardedFor(headers, client)), names)),
         Only(Header("x-forwarded-proto", <<"http">>), names))
Closing(websocket, names) ==
    IF websocket THEN <<>> ELSE Only(Header("connection", <<"close">>), names)
Sizing(length, names) ==
    IF length = 0 THEN <<>> ELSE Only(Header("content-length", <<Digits[length]>>), names)

LEMMA AddressesType ==
    ASSUME NEW headers, NEW client, NEW names
    PROVE  \E S : Addresses(headers, client, names) \in Seq(S)
<1>1. ASSUME NEW a, NEW b, NEW c
      PROVE  Join(Join(Only(a, names), Only(b, names)), Only(c, names)) \in Seq({a, b, c})
  <2> DEFINE S == {a, b, c}
  <2>1. a \in S /\ b \in S /\ c \in S
    OBVIOUS
  <2> HIDE DEF S
  <2>2. Only(a, names) \in Seq(S) /\ Only(b, names) \in Seq(S) /\ Only(c, names) \in Seq(S)
    BY <2>1 DEF Only
  <2>3. Join(Only(a, names), Only(b, names)) \in Seq(S)
    BY <2>2, NamedInJoin
  <2> QED
    BY <2>2, <2>3, NamedInJoin DEF S
<1> QED
  BY <1>1, Zenon DEF Addresses

LEMMA BuiltNamed ==
    ASSUME NEW headers \in Seq(Lines), NEW length, NEW upstream, NEW client,
           NEW websocket \in BOOLEAN, NEW names
    PROVE  NamedIn(BuildHeaders(headers, length, upstream, client, websocket), names) =
             Join(Join(Join(Join(NamedIn(Hosted(headers, upstream, websocket), names),
                                 OwnHost(headers, upstream, websocket, names)),
                            Addresses(headers, client, names)),
                       Closing(websocket, names)),
                  Sizing(length, names))
<1> DEFINE host == Header("host", <<upstream>>)
           realIp == Header("x-real-ip", <<client>>)
           forwardedFor == Header("x-forwarded-for", ForwardedFor(headers, client))
           proto == Header("x-forwarded-proto", <<"http">>)
           close == Header("connection", <<"close">>)
           size == Header("content-length", <<Digits[length]>>)
           kept == Without(headers, Dropped(websocket))
           p == Hosted(headers, upstream, websocket)
           q == IF Named(kept, "host") = <<>> THEN <<host>> ELSE <<>>
           r == <<realIp, forwardedFor, proto>>
           s == IF websocket THEN <<>> ELSE <<close>>
           t == IF length = 0 THEN <<>> ELSE <<size>>
           H == Lines \cup {host, realIp, forwardedFor, proto, close, size}
<1>1. p \in Seq(H)
  <2>1. p \in Seq(Lines \cup {host})
    BY HostedNamed
  <2> HIDE DEF p
  <2> QED
    BY <2>1
<1>2. BuildHeaders(headers, length, upstream, client, websocket) = 
        Join(Join(Join(Join(p, q), r), s), t)
  BY DEF BuildHeaders, Hosted, Join
<1> HIDE DEF p, host, realIp, forwardedFor, proto, close, size, kept
<1>3. q \in Seq(H) /\ r \in Seq(H) /\ s \in Seq(H) /\ t \in Seq(H)
  <2>1. /\ host \in H /\ realIp \in H /\ forwardedFor \in H /\ proto \in H /\ close \in H
        /\ size \in H
    OBVIOUS
  <2> HIDE DEF H
  <2> QED
    BY <2>1
<1>4. /\ NamedIn(q, names) = OwnHost(headers, upstream, websocket, names)
      /\ NamedIn(s, names) = Closing(websocket, names)
      /\ NamedIn(t, names) = Sizing(length, names)
  BY NamedInEmpty, NamedInOne, Zenon
     DEF Only, OwnHost, Closing, Sizing, host, close, size, kept
<1>5. NamedIn(r, names) = Addresses(headers, client, names)
  <2>1. NamedIn(r, names) =
          Join(Join(Only(realIp, names), Only(forwardedFor, names)), Only(proto, names))
    BY NamedInThree
  <2> QED
    BY <2>1, Zenon DEF Addresses, realIp, forwardedFor, proto
<1> HIDE DEF q, r, s, t, H
<1>6. NamedIn(Join(Join(Join(Join(p, q), r), s), t), names) =
        Join(Join(Join(Join(NamedIn(p, names), NamedIn(q, names)), NamedIn(r, names)),
                  NamedIn(s, names)), NamedIn(t, names))
  BY <1>1, <1>3, NamedInFive
<1> QED
  BY <1>2, <1>4, <1>5, <1>6, Zenon DEF p

LEMMA JoinEmpty ==
    ASSUME NEW S, NEW s \in Seq(S)
    PROVE  Join(s, <<>>) = s /\ Join(<<>>, s) = s
  BY ConcatEmptySeq DEF Join

\* For names that are not the host.
LEMMA BuiltOthers ==
    ASSUME NEW headers \in Seq(Lines), NEW length, NEW upstream, NEW client,
           NEW websocket \in BOOLEAN, NEW names, "host" \notin names
    PROVE  NamedIn(BuildHeaders(headers, length, upstream, client, websocket), names) =
             Join(Join(Join(NamedIn(headers, names \ Dropped(websocket)),
                            Addresses(headers, client, names)),
                       Closing(websocket, names)),
                  Sizing(length, names))
<1>1. OwnHost(headers, upstream, websocket, names) = <<>>
  BY DEF OwnHost, Only, Header
<1>2. NamedIn(Hosted(headers, upstream, websocket), names) =
        NamedIn(headers, names \ Dropped(websocket))
  BY HostedOthers
<1>3. NamedIn(headers, names \ Dropped(websocket)) \in Seq(Lines)
  BY NamedInType
<1>4. Join(NamedIn(headers, names \ Dropped(websocket)), <<>>) =
        NamedIn(headers, names \ Dropped(websocket))
  BY <1>3, JoinEmpty
<1> QED
  BY <1>1, <1>2, <1>4, BuiltNamed

LEMMA OneHeader == ASSUME NEW h PROVE <<h>> \in Seq({h}) /\ <<>> \in Seq({h})
  OBVIOUS

\* For names of no header that is added: those of the request, but the dropped.
LEMMA BuiltPlain ==
    ASSUME NEW headers \in Seq(Lines), NEW length, NEW upstream, NEW client,
           NEW websocket \in BOOLEAN, NEW names,
           names \cap ({"host", "content-length"} \cup Replaced) = {},
           websocket \/ "connection" \notin names
    PROVE  NamedIn(BuildHeaders(headers, length, upstream, client, websocket), names) =
             NamedIn(headers, names \ Dropped(websocket))
<1> DEFINE p == NamedIn(headers, names \ Dropped(websocket))
<1>1. p \in Seq(Lines) /\ <<>> \in Seq(Lines) /\ "host" \notin names
  BY NamedInType
<1>2. Join(<<>>, <<>>) = <<>> /\ Join(p, <<>>) = p
  BY <1>1, JoinEmpty
<1>3. Addresses(headers, client, names) = <<>>
  BY <1>2 DEF Addresses, Only, Header, Replaced
<1>4. Closing(websocket, names) = <<>> /\ Sizing(length, names) = <<>>
  BY DEF Closing, Sizing, Only, Header
<1> QED
  BY <1>1, <1>2, <1>3, <1>4, BuiltOthers

----------------------------------------------------------------------------
(* What the upstream reads of it.                                          *)

LEMMA NumberType == ASSUME NEW value PROVE Number(value) \in 0..2
<1>1. DOMAIN Digits = 1..2
  BY DEF Digits
<1> QED
  BY <1>1 DEF Number

LEMMA NumberOfDigit == ASSUME NEW n \in 1..2 PROVE Number(<<Digits[n]>>) = n
<1>1. DOMAIN Digits = 1..2 /\ Digits[1] = "1" /\ Digits[2] = "2"
  BY DEF Digits
<1>2. \A m \in 1..2 : <<Digits[n]>> = <<Digits[m]>> => m = n
  BY <1>1
<1> QED
  BY <1>1, <1>2 DEF Number

LEMMA LengthReadType ==
    ASSUME NEW headers, NEW decoded \in 0..2
    PROVE  LengthRead(headers, decoded) \in 0..2
  BY NumberType DEF LengthRead, ContentLength

LEMMA AppendedToOne ==
    ASSUME NEW a, NEW b
    PROVE  Append(<<>>, b) = <<b>> /\ Append(<<a>>, b) = <<a, b>>
<1>1. Append(<<>>, b) = <<b>>
  OBVIOUS
<1>2. Append(<<a>>, b) = <<a, b>>
  <2>1. PICK p \in Seq({a, b}) : p = <<a>>
    <3>1. <<a>> \in Seq({a, b})
      OBVIOUS
    <3> QED
      BY <3>1, Zenon
  <2>2. Len(p) = 1 /\ p[1] = a
    BY <2>1
  <2>3. PICK q \in Seq({a, b}) :
          q = Append(p, b) /\ Len(q) = 2 /\ q[1] = p[1] /\ q[2] = b
    <3>1. b \in {a, b}
      OBVIOUS
    <3>2. /\ Append(p, b) \in Seq({a, b}) /\ Len(Append(p, b)) = 2
          /\ Append(p, b)[1] = p[1] /\ Append(p, b)[2] = b
      <4>1. /\ Append(p, b) \in Seq({a, b}) /\ Len(Append(p, b)) = Len(p) + 1
            /\ \A i \in 1..Len(p) : Append(p, b)[i] = p[i]
            /\ Append(p, b)[Len(p) + 1] = b
        BY <3>1, AppendProperties
      <4>2. Len(p) = 1
        BY <2>2
      <4> QED
        BY <4>1, <4>2
    <3> QED
      BY <3>2, Zenon
  <2>4. q = <<a, b>>
    <3>1. <<a, b>> \in Seq({a, b}) /\ Len(<<a, b>>) = 2 /\ \A i \in 1..2 : q[i] = <<a, b>>[i]
      BY <2>2, <2>3
    <3> QED
      BY <2>3, <3>1, SeqEqual
  <2> QED
    BY <2>1, <2>3, <2>4, Zenon
<1> QED
  BY <1>1, <1>2

LEMMA ForwardedForType ==
    ASSUME NEW headers \in Seq(Lines)
    PROVE  ForwardedFor(headers, "c") \in {<<"c">>, <<"a", "c">>}
<1> DEFINE lines == Named(headers, "x-forwarded-for")
<1>1. lines \in Seq(Lines)
  BY NamedInType DEF Named
<1>2. ToSet(lines) = {h \in ToSet(headers) : h.name \in {"x-forwarded-for"}}
  BY NamedInSet DEF Named
<1>3. CASE lines = <<>>
  BY <1>3 DEF ForwardedFor
<1>4. CASE lines # <<>>
  <2> HIDE DEF lines
  <2>1. Len(lines) \in DOMAIN lines
    BY <1>1, <1>4
  <2>2. Last(lines) \in ToSet(lines)
    BY <2>1 DEF ToSet, Last
  <2>3. Last(lines).name = "x-forwarded-for" /\ Last(lines) \in Lines
    BY <1>1, <1>2, <2>1, <2>2 DEF Last
  <2>4. Last(lines).value \in {<<>>, <<"a">>}
    BY <2>3 DEF Lines, Header
  <2>5. Append(<<>>, "c") = <<"c">> /\ Append(<<"a">>, "c") = <<"a", "c">>
    BY AppendedToOne
  <2> QED
    BY <1>4, <2>4, <2>5, Zenon DEF ForwardedFor, lines
<1> QED
  BY <1>3, <1>4

\* The names that are asked for one by one.
LEMMA SentFraming ==
    ASSUME NEW headers \in Seq(Lines), NEW length \in 0..2, NEW websocket \in BOOLEAN
    PROVE  LET built == BuildHeaders(headers, length, "u", "c", websocket)
           IN  /\ ~Chunked(built) /\ ContentLength(built) = length
               /\ Len(Named(built, "content-length")) <= 1
<1> DEFINE built == BuildHeaders(headers, length, "u", "c", websocket)
           size == Header("content-length", <<Digits[length]>>)
<1>1. Named(built, "transfer-encoding") = <<>>
  <2>1. {"transfer-encoding"} \ Dropped(websocket) = {}
    BY DEF Dropped, Framing
  <2>2. Named(built, "transfer-encoding") = NamedIn(headers, {})
    <3> DEFINE names == {"transfer-encoding"}
    <3>1. names \cap ({"host", "content-length"} \cup Replaced) = {} /\ "connection" \notin names
      BY DEF Replaced
    <3> HIDE DEF names
    <3>2. NamedIn(built, names) = NamedIn(headers, names \ Dropped(websocket))
      BY <3>1, BuiltPlain
    <3> QED
      BY <2>1, <3>2, Zenon DEF Named, names
  <2> QED
    BY <2>2, NamedInNone
<1>2. Named(built, "content-length") = IF length = 0 THEN <<>> ELSE <<size>>
  <2> DEFINE names == {"content-length"}
  <2>1. names \ Dropped(websocket) = {}
    BY DEF Dropped, Framing
  <2>2. NamedIn(headers, names \ Dropped(websocket)) = <<>>
    BY <2>1, NamedInNone
  <2>3. Closing(websocket, names) = <<>> /\ Sizing(length, names) = IF length = 0 THEN <<>> ELSE <<size>>
    BY DEF Closing, Sizing, Only, Header
  <2>4. /\ Only(Header("x-real-ip", <<"c">>), names) = <<>>
        /\ Only(Header("x-forwarded-for", ForwardedFor(headers, "c")), names) = <<>>
        /\ Only(Header("x-forwarded-proto", <<"http">>), names) = <<>>
    BY DEF Only, Header
  <2>5. Join(<<>>, <<>>) = <<>> /\ Join(<<>>, <<size>>) = <<size>>
    BY OneHeader, JoinEmpty
  <2>6. Addresses(headers, "c", names) = <<>>
    BY <2>4, <2>5 DEF Addresses
  <2>7. Named(built, "content-length") =
          Join(Join(Join(<<>>, <<>>), <<>>), IF length = 0 THEN <<>> ELSE <<size>>)
    <3>1. "host" \notin names
      OBVIOUS
    <3> HIDE DEF names, size
    <3> QED
      BY <2>2, <2>3, <2>6, <3>1, BuiltOthers DEF Named, names
  <2> QED
    BY <2>5, <2>7
<1> HIDE DEF built
<1>3. ~Chunked(built)
  BY <1>1, EmptySet DEF Chunked, ToSet
<1>4. ContentLength(built) = length
  <2>1. CASE length = 0
    BY <1>2, <2>1 DEF ContentLength
  <2>2. CASE length # 0
    <3>1. Last(<<size>>) = size
      BY DEF Last
    <3>2. size.value = <<Digits[length]>>
      BY DEF Header
    <3> HIDE DEF size
    <3>3. ContentLength(built) = Number(size.value)
      <4>1. Named(built, "content-length") = <<size>> /\ <<size>> # <<>>
        BY <1>2, <2>2
      <4> QED
        BY <3>1, <4>1, Zenon DEF ContentLength
    <3> QED
      BY <2>2, <3>2, <3>3, NumberOfDigit
  <2> QED
    BY <2>1, <2>2
<1>5. Len(Named(built, "content-length")) <= 1
  <2>1. Len(<<>>) = 0 /\ Len(<<size>>) = 1
    OBVIOUS
  <2>2. Len(Named(built, "content-length")) \in {0, 1}
    BY <1>2, <2>1
  <2>3. \A n \in {0, 1} : n <= 1
    OBVIOUS
  <2> QED
    BY <2>2, <2>3, Zenon
<1> QED
  BY <1>3, <1>4, <1>5 DEF built

LEMMA SentHost ==
    ASSUME NEW headers \in Seq(Lines), NEW length, NEW websocket \in BOOLEAN
    PROVE  ToSet(Named(BuildHeaders(headers, length, "u", "c", websocket), "host")) =
             {Header("host", <<"u">>)}
<1> DEFINE names == {"host"}
           host == Header("host", <<"u">>)
           p == NamedIn(Hosted(headers, "u", websocket), names)
           kept == Without(headers, Dropped(websocket))
<1>1. /\ Only(Header("x-real-ip", <<"c">>), names) = <<>>
      /\ Only(Header("x-forwarded-for", ForwardedFor(headers, "c")), names) = <<>>
      /\ Only(Header("x-forwarded-proto", <<"http">>), names) = <<>>
      /\ Only(host, names) = <<host>>
  BY DEF Only, Header
<1>2. Join(<<>>, <<>>) = <<>> /\ Join(<<>>, <<host>>) = <<host>>
  BY OneHeader, JoinEmpty
<1>3. Addresses(headers, "c", names) = <<>>
  BY <1>1, <1>2 DEF Addresses
<1>4. Closing(websocket, names) = <<>> /\ Sizing(length, names) = <<>>
  BY DEF Closing, Sizing, Only, Header
<1>5. OwnHost(headers, "u", websocket, names) = IF Named(kept, "host") = <<>> THEN <<host>> ELSE <<>>
  BY <1>1 DEF OwnHost
<1>6. p \in Seq(Lines \cup {host}) /\ ToSet(p) = IF Named(kept, "host") = <<>> THEN {} ELSE {host}
  BY HostedNamed, NamedInType
<1>7. Named(BuildHeaders(headers, length, "u", "c", websocket), "host") =
        Join(Join(Join(Join(p, OwnHost(headers, "u", websocket, names)), <<>>), <<>>), <<>>)
  BY <1>3, <1>4, BuiltNamed DEF Named
<1> HIDE DEF p, host, kept
<1>8. CASE Named(kept, "host") = <<>>
  <2>1. p = <<>>
    BY <1>6, <1>8, EmptySet
  <2>2. Join(<<host>>, <<>>) = <<host>>
    BY OneHeader, JoinEmpty
  <2>3. Named(BuildHeaders(headers, length, "u", "c", websocket), "host") = <<host>>
    BY <1>2, <1>5, <1>7, <1>8, <2>1, <2>2, Zenon
  <2>4. ToSet(<<host>>) = {host}
    BY DEF ToSet
  <2> QED
    BY <2>3, <2>4 DEF host
<1>9. CASE Named(kept, "host") # <<>>
  <2>1. Join(p, <<>>) = p
    BY <1>6, JoinEmpty
  <2>2. Named(BuildHeaders(headers, length, "u", "c", websocket), "host") = p
    BY <1>5, <1>7, <1>9, <2>1, Zenon
  <2> QED
    BY <1>6, <1>9, <2>2 DEF host
<1> QED
  BY <1>8, <1>9

LEMMA SentAddresses ==
    ASSUME NEW headers \in Seq(Lines), NEW length, NEW websocket \in BOOLEAN
    PROVE  LET built == BuildHeaders(headers, length, "u", "c", websocket)
           IN  /\ Named(built, "x-real-ip") = <<Header("x-real-ip", <<"c">>)>>
               /\ Named(built, "x-forwarded-for") =
                    <<Header("x-forwarded-for", ForwardedFor(headers, "c"))>>
<1> DEFINE built == BuildHeaders(headers, length, "u", "c", websocket)
<1>1. ASSUME NEW name \in {"x-real-ip", "x-forwarded-for"}
      PROVE  Named(built, name) = Addresses(headers, "c", {name})
  <2>1. {name} \ Dropped(websocket) = {} /\ "host" \notin {name}
    BY DEF Dropped, Replaced
  <2>2. NamedIn(headers, {name} \ Dropped(websocket)) = <<>>
    BY <2>1, NamedInNone
  <2>3. Closing(websocket, {name}) = <<>> /\ Sizing(length, {name}) = <<>>
    BY DEF Closing, Sizing, Only, Header
  <2>4. NamedIn(built, {name}) =
          Join(Join(Join(<<>>, Addresses(headers, "c", {name})), <<>>), <<>>)
    BY <2>1, <2>2, <2>3, BuiltOthers
  <2>5. \E S : Addresses(headers, "c", {name}) \in Seq(S)
    BY AddressesType
  <2>6. /\ Join(<<>>, Addresses(headers, "c", {name})) = Addresses(headers, "c", {name})
        /\ Join(Addresses(headers, "c", {name}), <<>>) = Addresses(headers, "c", {name})
    BY <2>5, JoinEmpty
  <2> QED
    BY <2>4, <2>6, Zenon DEF Named
<1>2. ASSUME NEW h PROVE Join(<<>>, <<>>) = <<>> /\ Join(<<>>, <<h>>) = <<h>> /\ Join(<<h>>, <<>>) = <<h>>
  BY OneHeader, JoinEmpty
<1>3. Addresses(headers, "c", {"x-real-ip"}) = <<Header("x-real-ip", <<"c">>)>>
  <2>1. /\ Only(Header("x-real-ip", <<"c">>), {"x-real-ip"}) = <<Header("x-real-ip", <<"c">>)>>
        /\ Only(Header("x-forwarded-for", ForwardedFor(headers, "c")), {"x-real-ip"}) = <<>>
        /\ Only(Header("x-forwarded-proto", <<"http">>), {"x-real-ip"}) = <<>>
    BY DEF Only, Header
  <2> QED
    BY <1>2, <2>1, Zenon DEF Addresses
<1>4. Addresses(headers, "c", {"x-forwarded-for"}) =
        <<Header("x-forwarded-for", ForwardedFor(headers, "c"))>>
  <2>1. /\ Only(Header("x-real-ip", <<"c">>), {"x-forwarded-for"}) = <<>>
        /\ Only(Header("x-forwarded-for", ForwardedFor(headers, "c")), {"x-forwarded-for"}) =
             <<Header("x-forwarded-for", ForwardedFor(headers, "c"))>>
        /\ Only(Header("x-forwarded-proto", <<"http">>), {"x-forwarded-for"}) = <<>>
    BY DEF Only, Header
  <2> QED
    BY <1>2, <2>1, Zenon DEF Addresses
<1> QED
  BY <1>1, <1>3, <1>4

LEMMA SentPlain ==
    ASSUME NEW headers \in Seq(Lines), NEW length, NEW websocket \in BOOLEAN
    PROVE  LET built == BuildHeaders(headers, length, "u", "c", websocket)
           IN  NamedIn(built, Plain) = NamedIn(headers, Plain)
<1>1. /\ Plain \cap ({"host", "content-length"} \cup Replaced) = {} /\ "connection" \notin Plain
      /\ Plain \ Dropped(websocket) = Plain
  BY DEF Plain, Replaced, Dropped, Framing, HopByHop
<1> QED
  BY <1>1, BuiltPlain

\* The connection ends with the request, or the wish for a websocket is passed on.
LEMMA SentEnd ==
    ASSUME NEW headers \in Seq(Lines), NEW length, NEW websocket \in BOOLEAN,
           websocket => IsWebsocket(headers)
    PROVE  LET built == BuildHeaders(headers, length, "u", "c", websocket)
           IN  IF websocket THEN IsWebsocket(built) ELSE \A version : ~KeepAlive(built, version)
<1> DEFINE built == BuildHeaders(headers, length, "u", "c", websocket)
<1>1. CASE websocket
  <2>1. ASSUME NEW name \in {"upgrade", "connection"} PROVE Named(built, name) = Named(headers, name)
    <3> DEFINE names == {name}
    <3>1. /\ names \cap ({"host", "content-length"} \cup Replaced) = {}
          /\ names \ Dropped(websocket) = names
          /\ websocket \/ "connection" \notin names
      BY <1>1 DEF Replaced, Dropped, Framing
    <3> HIDE DEF names
    <3>2. NamedIn(built, names) = NamedIn(headers, names \ Dropped(websocket))
      BY <3>1, BuiltPlain
    <3> QED
      BY <3>1, <3>2, Zenon DEF Named, names
  <2> HIDE DEF built
  <2>2. Named(built, "upgrade") = Named(headers, "upgrade") /\ Named(built, "connection") = Named(headers, "connection")
    BY <2>1
  <2>3. IsWebsocket(built)
    BY <1>1, <2>2, Zenon DEF IsWebsocket
  <2> QED
    BY <1>1, <2>3 DEF built
<1>2. CASE ~websocket
  <2> DEFINE names == {"connection"}
             close == Header("connection", <<"close">>)
  <2>1. names \ Dropped(websocket) = {} /\ "host" \notin names
    BY <1>2 DEF Dropped, HopByHop
  <2>2. NamedIn(headers, names \ Dropped(websocket)) = <<>>
    BY <2>1, NamedInNone
  <2>3. Closing(websocket, names) = <<close>> /\ Sizing(length, names) = <<>>
    BY <1>2 DEF Closing, Sizing, Only, Header
  <2>4. /\ Only(Header("x-real-ip", <<"c">>), names) = <<>>
        /\ Only(Header("x-forwarded-for", ForwardedFor(headers, "c")), names) = <<>>
        /\ Only(Header("x-forwarded-proto", <<"http">>), names) = <<>>
    BY DEF Only, Header
  <2>5. Join(<<>>, <<>>) = <<>> /\ Join(<<>>, <<close>>) = <<close>> /\ Join(<<close>>, <<>>) = <<close>>
    BY OneHeader, JoinEmpty
  <2>6. Addresses(headers, "c", names) = <<>>
    BY <2>4, <2>5 DEF Addresses
  <2>7. Named(built, "connection") = <<close>>
    <3>1. NamedIn(built, names) = Join(Join(Join(<<>>, <<>>), <<close>>), <<>>)
      <4> HIDE DEF names, close
      <4> QED
        BY <2>1, <2>2, <2>3, <2>6, BuiltOthers
    <3> QED
      BY <2>5, <3>1, Zenon DEF Named
  <2>8. Head(<<close>>) = close /\ <<close>> # <<>> /\ Has(close, "close") /\ ~Has(close, "keep-alive")
    BY DEF Has, Header
  <2> HIDE DEF built, close
  <2>9. \A version : ~KeepAlive(built, version)
    BY <2>7, <2>8, Zenon DEF KeepAlive
  <2> QED
    BY <1>2, <2>9 DEF built
<1> QED
  BY <1>1, <1>2

LEMMA ForwardedHead ==
    ASSUME NEW headers \in Seq(Lines), NEW version \in {"1.0", "1.1", "2.0"},
           NEW decoded \in 0..2, NEW enabled \in BOOLEAN
    PROVE  ForwardedTruly(headers, version, decoded, enabled)
<1>1. PICK length \in 0..2 : length = LengthRead(headers, decoded)
  BY LengthReadType
<1>2. PICK websocket \in BOOLEAN : websocket = (enabled /\ version # "2.0" /\ IsWebsocket(headers))
  OBVIOUS
<1> DEFINE built == BuildHeaders(headers, length, "u", "c", websocket)
<1>3. /\ ~Chunked(built) /\ ContentLength(built) = length
      /\ Len(Named(built, "content-length")) <= 1
  BY SentFraming
<1>4. NamedIn(built, Plain) = NamedIn(headers, Plain)
  BY SentPlain
<1>5. ToSet(Named(built, "host")) = {Header("host", <<"u">>)}
  BY SentHost
<1>6. Named(built, "x-real-ip") = <<Header("x-real-ip", <<"c">>)>>
  BY SentAddresses
<1>7. \E value \in {<<"c">>, <<"a", "c">>} :
        Named(built, "x-forwarded-for") = <<Header("x-forwarded-for", value)>>
  BY SentAddresses, ForwardedForType
<1>8. IF websocket THEN IsWebsocket(built) ELSE ~KeepAlive(built, BuildVersion(version))
  BY <1>2, SentEnd
<1> QED
  BY <1>1, <1>2, <1>3, <1>4, <1>5, <1>6, <1>7, <1>8, Zenon DEF ForwardedTruly

LEMMA HeadersOfType ==
    ASSUME NEW fields \in Seq(Lines \cup {Header(":authority", <<"h">>)})
    PROVE  HeadersOf(fields) \in Seq(Lines)
<1> DEFINE authority == Header(":authority", <<"h">>)
           host == Header("host", <<"h">>)
           F == Lines \cup {authority}
           lines == Named(fields, ":authority")
           others == Without(fields, Pseudo)
<1>0. fields \in Seq(F)
  OBVIOUS
<1>1. host \in Lines /\ authority.name = ":authority" /\ authority.value = <<"h">>
  BY DEF Lines, Header
<1>2. \A h \in F : h.name = ":authority" => h = authority
  BY DEF Lines, Header
<1> HIDE DEF F, authority
<1>3. others \in Seq(Lines)
  <2>1. others \in Seq(F)
    BY <1>0, NamedInType DEF Without
  <2>2. ToSet(others) = {h \in ToSet(fields) : h.name \in {fields[i].name : i \in DOMAIN fields} \ Pseudo}
    BY <1>0, NamedInSet DEF Without
  <2>3. \A i \in 1..Len(others) : others[i] \in Lines
    <3> SUFFICES ASSUME NEW i \in 1..Len(others) PROVE others[i] \in Lines
      OBVIOUS
    <3> HIDE DEF others
    <3>1. others[i] \in ToSet(others) /\ others[i] \in F
      BY <2>1 DEF ToSet
    <3>2. others[i].name # ":authority"
      BY <2>2, <3>1 DEF Pseudo
    <3> QED
      BY <1>1, <3>1, <3>2 DEF F
  <2> HIDE DEF others
  <2> QED
    BY <2>1, <2>3
<1>4. lines # <<>> => Header("host", Head(lines).value) = host
  <2>1. lines \in Seq(F)
    BY <1>0, NamedInType DEF Named
  <2>2. ToSet(lines) = {h \in ToSet(fields) : h.name \in {":authority"}}
    BY <1>0, NamedInSet DEF Named
  <2> SUFFICES ASSUME lines # <<>> PROVE Header("host", Head(lines).value) = host
    OBVIOUS
  <2> HIDE DEF lines
  <2>3. Head(lines) = lines[1] /\ lines[1] \in F /\ 1 \in DOMAIN lines
    BY <2>1
  <2>4. lines[1].name = ":authority"
    BY <2>2, <2>3 DEF ToSet
  <2> QED
    BY <1>1, <1>2, <2>3, <2>4
<1>5. <<host>> \in Seq(Lines)
  <2> HIDE DEF host
  <2> QED
    BY <1>1
<1>6. (IF lines = <<>> THEN <<>> ELSE <<Header("host", Head(lines).value)>>) \in Seq(Lines)
  <2>1. <<>> \in Seq(Lines)
    OBVIOUS
  <2> QED
    BY <1>4, <1>5, <2>1, Zenon
<1> DEFINE added == IF lines = <<>> THEN <<>> ELSE <<Header("host", Head(lines).value)>>
<1>7. HeadersOf(fields) = others \o added
  BY DEF HeadersOf
<1> HIDE DEF others, added
<1> QED
  BY <1>3, <1>6, <1>7 DEF added

\* Heads of every length are forwarded truly.
THEOREM HeadsAreForwarded == \A size \in Nat : HeadsForwardedTruly(size)
<1> SUFFICES ASSUME NEW size \in Nat PROVE HeadsForwardedTruly(size)
  OBVIOUS
<1>1. ASSUME NEW S, NEW n \in Int, NEW s \in BoundedSeq(S, n) PROVE s \in Seq(S)
  BY DEF BoundedSeq, SeqOf
<1>2. \A headers \in BoundedSeq(Lines, size), decoded \in 0..2, enabled \in BOOLEAN,
         version \in {"1.0", "1.1"} : ForwardedTruly(headers, version, decoded, enabled)
  BY <1>1, ForwardedHead
<1>3. \A fields \in BoundedSeq(Lines \cup {Header(":authority", <<"h">>)}, size - 1) :
        ForwardedTruly(HeadersOf(fields), "2.0", 2, TRUE)
  <2> TAKE fields \in BoundedSeq(Lines \cup {Header(":authority", <<"h">>)}, size - 1)
  <2>1. size - 1 \in Int
    OBVIOUS
  <2>2. fields \in Seq(Lines \cup {Header(":authority", <<"h">>)})
    BY <1>1, <2>1
  <2>3. HeadersOf(fields) \in Seq(Lines)
    BY <2>2, HeadersOfType
  <2>4. \A enabled \in BOOLEAN : ForwardedTruly(HeadersOf(fields), "2.0", 2, enabled)
    BY <2>3, ForwardedHead
  <2> QED
    BY <2>4, Zenon
<1> QED
  BY <1>2, <1>3 DEF HeadsForwardedTruly

----------------------------------------------------------------------------
(* Targets that are forwarded (ProxyRequest).                               *)

\* The path ends in front of the first question mark.
LEMMA PathLengthIs ==
    ASSUME NEW S, NEW target \in Seq(S)
    PROVE  /\ PathLength(target) \in 0..Len(target)
           /\ \A i \in 1..PathLength(target) : target[i] # "?"
           /\ PathLength(target) < Len(target) => target[PathLength(target) + 1] = "?"
<1> DEFINE ends == {n \in 0..Len(target) : n = Len(target) \/ target[n + 1] = "?"}
<1>1. Len(target) \in Nat /\ Len(target) \in ends /\ ends \in SUBSET Nat
  OBVIOUS
<1>2. \E n \in ends : \A m \in ends : n <= m
  BY <1>1, LeastElement
<1>3. PathLength(target) \in ends /\ \A m \in ends : PathLength(target) <= m
  BY <1>2 DEF PathLength, Min
<1>4. PICK p \in ends : p = PathLength(target)
  BY <1>3
<1>5. ASSUME NEW i \in 1..p PROVE target[i] # "?"
  <2>1. i - 1 \in 0..Len(target) /\ (i - 1) + 1 = i /\ i - 1 < p
    BY <1>1, <1>4
  <2>2. i - 1 \notin ends
    BY <1>3, <1>4, <2>1
  <2> QED
    BY <2>1, <2>2
<1> QED
  BY <1>1, <1>4, <1>5

\* A prefix without a question mark is one of the path if it is one of the target.
LEMMA PrefixOfPath ==
    ASSUME NEW S, NEW target \in Seq(S), NEW from \in Seq(S), \A i \in 1..Len(from) : from[i] # "?"
    PROVE  IsPrefix(from, SubSeq(target, 1, PathLength(target))) <=> IsPrefix(from, target)
<1> DEFINE p == PathLength(target)
           path == SubSeq(target, 1, p)
           k == Len(from)
<1>1. /\ p \in 0..Len(target) /\ Len(target) \in Nat /\ k \in Nat
      /\ p < Len(target) => target[p + 1] = "?"
  BY PathLengthIs
<1> HIDE DEF p
<1>2. path \in Seq(S) /\ Len(path) = p /\ \A i \in 1..p : path[i] = target[i]
  BY <1>1
<1> HIDE DEF path
<1>3. SubSeq(from, 1, k) = from
  BY SubSeqFull
<1>4. k <= p => SubSeq(path, 1, k) = SubSeq(target, 1, k)
  <2> SUFFICES ASSUME k <= p PROVE SubSeq(path, 1, k) = SubSeq(target, 1, k)
    OBVIOUS
  <2>1. /\ SubSeq(path, 1, k) \in Seq(S) /\ Len(SubSeq(path, 1, k)) = k
        /\ \A i \in 1..k : SubSeq(path, 1, k)[i] = path[i]
    BY <1>1, <1>2
  <2>2. /\ SubSeq(target, 1, k) \in Seq(S) /\ Len(SubSeq(target, 1, k)) = k
        /\ \A i \in 1..k : SubSeq(target, 1, k)[i] = target[i]
    BY <1>1
  <2>3. \A i \in 1..k : path[i] = target[i]
    BY <1>1, <1>2
  <2> QED
    BY <2>1, <2>2, <2>3, SeqEqual
<1>5. k <= Len(target) /\ SubSeq(target, 1, k) = from => k <= p
  <2> SUFFICES ASSUME k <= Len(target), SubSeq(target, 1, k) = from, ~(k <= p) PROVE FALSE
    OBVIOUS
  <2>1. p + 1 \in 1..k /\ target[p + 1] = "?"
    BY <1>1
  <2>2. SubSeq(target, 1, k)[p + 1] = target[p + 1]
    BY <1>1, <2>1
  <2> QED
    BY <2>1, <2>2
<1>6. IsPrefix(from, path) <=> k <= p /\ from = SubSeq(path, 1, k)
  BY <1>2, <1>3 DEF IsPrefix
<1>7. IsPrefix(from, target) <=> k <= Len(target) /\ from = SubSeq(target, 1, k)
  BY <1>3 DEF IsPrefix
<1>8. k <= p => k <= Len(target)
  BY <1>1
<1> QED
  BY <1>4, <1>5, <1>6, <1>7, <1>8 DEF path, p

\* What is mapped for a target with the prefix.
LEMMA Rewritten ==
    ASSUME NEW S, NEW target \in Seq(S), NEW from \in Seq(S), NEW to \in Seq(S),
           \A i \in 1..Len(from) : from[i] # "?", IsPrefix(from, target)
    PROVE  /\ Len(from) \in 0..PathLength(target)
           /\ ProxyTarget(target, [from |-> from, to |-> to]) =
                to \o SubSeq(target, Len(from) + 1, Len(target))
<1> DEFINE p == PathLength(target)
           n == Len(target)
           path == SubSeq(target, 1, p)
           query == SubSeq(target, p + 1, n)
           k == Len(from)
<1>1. p \in 0..n /\ n \in Nat /\ k \in Nat
  BY PathLengthIs
<1>2. IsPrefix(from, path)
  BY PrefixOfPath
<1>3. ProxyTarget(target, [from |-> from, to |-> to]) = to \o SubSeq(path, k + 1, Len(path)) \o query
  BY <1>2 DEF ProxyTarget
<1> HIDE DEF p
<1>4. Len(path) = p /\ path \in Seq(S) /\ query \in Seq(S)
  BY <1>1
<1>5. k <= p
  BY <1>2, <1>4 DEF IsPrefix
<1>6. SubSeq(path, k + 1, p) = SubSeq(target, k + 1, p)
  <2>1. \A i \in 1..p : path[i] = target[i]
    BY <1>1
  <2>2. /\ SubSeq(path, k + 1, p) \in Seq(S) /\ Len(SubSeq(path, k + 1, p)) = p - k
        /\ \A i \in 1..(p - k) : SubSeq(path, k + 1, p)[i] = path[k + i]
    BY <1>1, <1>4, <1>5
  <2>3. /\ SubSeq(target, k + 1, p) \in Seq(S) /\ Len(SubSeq(target, k + 1, p)) = p - k
        /\ \A i \in 1..(p - k) : SubSeq(target, k + 1, p)[i] = target[k + i]
    BY <1>1, <1>5
  <2>4. \A i \in 1..(p - k) : path[k + i] = target[k + i]
    BY <1>1, <1>5, <2>1
  <2> QED
    BY <2>2, <2>3, <2>4, SeqEqual
<1>7. PICK x \in Seq(S), y \in Seq(S) : x = SubSeq(target, k + 1, p) /\ y = query
  <2>1. SubSeq(target, k + 1, p) \in Seq(S)
    BY <1>1, <1>5
  <2> QED
    BY <1>4, <2>1, Zenon
<1>8. x \o y = SubSeq(target, k + 1, n)
  <2>1. k + 1 \in 1..(n + 1) /\ p \in ((k + 1) - 1)..n /\ n \in p..n
    BY <1>1, <1>5
  <2>2. SubSeq(target, k + 1, p) \o SubSeq(target, p + 1, n) = SubSeq(target, k + 1, n)
    BY <2>1, ConcatAdjacentSubSeq
  <2> QED
    BY <1>7, <2>2, Zenon
<1>9. to \o x \o y = to \o (x \o y)
  BY ConcatAssociative
<1>10. k \in 0..p
  BY <1>1, <1>5
<1>11. ProxyTarget(target, [from |-> from, to |-> to]) = to \o SubSeq(target, k + 1, n)
  BY <1>3, <1>4, <1>6, <1>7, <1>8, <1>9, Zenon
<1> QED
  BY <1>10, <1>11 DEF p

LEMMA NotRewritten ==
    ASSUME NEW S, NEW target \in Seq(S), NEW from \in Seq(S), NEW to,
           \A i \in 1..Len(from) : from[i] # "?", ~IsPrefix(from, target)
    PROVE  ProxyTarget(target, [from |-> from, to |-> to]) = target
<1>1. ~IsPrefix(from, SubSeq(target, 1, PathLength(target)))
  BY PrefixOfPath
<1> QED
  BY <1>1 DEF ProxyTarget

\* Targets of every length keep what follows a replaced prefix, and their query.
THEOREM TargetsAreKept == \A size \in Nat : TargetsKept(size)
<1> DEFINE C == {"/", "a", "?"}
           S == C \cup {"b"}
           Query(t) == {SubSeq(t, m, Len(t)) : m \in {i \in DOMAIN t : t[i] = "?"}}
<1> SUFFICES ASSUME NEW size \in Nat, NEW target \in BoundedSeq(C, size),
                    NEW from \in {<<"/">>, <<"/", "a">>}
             PROVE  LET mapped == ProxyTarget(target, [from |-> from, to |-> <<"b">>])
                    IN  /\ Query(mapped) = Query(target)
                        /\ \/ mapped = target /\ ~IsPrefix(from, target)
                           \/ /\ \A rest \in BoundedSeq(C, size) :
                                   target = from \o rest => mapped = <<"b">> \o rest
                              /\ IsPrefix(from, target)
  BY DEF TargetsKept
<1> DEFINE mapped == ProxyTarget(target, [from |-> from, to |-> <<"b">>])
           n == Len(target)
           k == Len(from)
<1>1. \A s \in BoundedSeq(C, size) : s \in Seq(C) /\ s \in Seq(S)
  BY DEF BoundedSeq, SeqOf
<1>2. /\ from \in Seq(S) /\ k \in Nat /\ \A i \in 1..k : from[i] # "?"
  <2>1. <<"/">> \in Seq(S) /\ Len(<<"/">>) = 1 /\ <<"/">>[1] = "/"
    OBVIOUS
  <2>2. /\ <<"/", "a">> \in Seq(S) /\ Len(<<"/", "a">>) = 2
        /\ <<"/", "a">>[1] = "/" /\ <<"/", "a">>[2] = "a"
    OBVIOUS
  <2>3. CASE from = <<"/">>
    <3>1. from \in Seq(S) /\ Len(from) = 1 /\ from[1] = "/"
      BY <2>1, <2>3, Zenon
    <3> QED
      BY <3>1
  <2>4. CASE from = <<"/", "a">>
    <3>1. from \in Seq(S) /\ Len(from) = 2 /\ from[1] = "/" /\ from[2] = "a"
      BY <2>2, <2>4, Zenon
    <3> QED
      BY <3>1
  <2> QED
    BY <2>3, <2>4
<1>3. target \in Seq(S) /\ n \in Nat /\ DOMAIN target = 1..n
  BY <1>1
<1>4. CASE ~IsPrefix(from, target)
  <2>1. mapped = target
    BY <1>2, <1>3, <1>4, NotRewritten
  <2> QED
    BY <1>4, <2>1
<1>5. CASE IsPrefix(from, target)
  <2> HIDE DEF S, C
  <2>1. PICK to \in Seq(S) : to = <<"b">> /\ Len(to) = 1 /\ to[1] = "b"
    <3>1. <<"b">> \in Seq(S) /\ Len(<<"b">>) = 1 /\ <<"b">>[1] = "b"
      BY DEF S
    <3> QED
      BY <3>1, Zenon
  <2>2. /\ k \in 0..PathLength(target)
        /\ ProxyTarget(target, [from |-> from, to |-> to]) = to \o SubSeq(target, k + 1, n)
    BY <1>2, <1>3, <1>5, Rewritten
  <2>3. k \in 0..n /\ \A i \in 1..k : target[i] # "?"
    BY <1>3, <2>2, PathLengthIs
  <2>4. PICK x \in Seq(S) : /\ x = SubSeq(target, k + 1, n) /\ Len(x) = n - k
                            /\ \A i \in 1..(n - k) : x[i] = target[k + i]
    <3>1. /\ SubSeq(target, k + 1, n) \in Seq(S) /\ Len(SubSeq(target, k + 1, n)) = n - k
          /\ \A i \in 1..(n - k) : SubSeq(target, k + 1, n)[i] = target[k + i]
      BY <1>3, <2>3
    <3> QED
      BY <3>1, Zenon
  <2>5. mapped = to \o x
    BY <2>1, <2>2, <2>4, Zenon
  <2>6. PICK s \in Seq(S) : s = to \o x
    <3>1. to \o x \in Seq(S)
      OBVIOUS
    <3> QED
      BY <3>1, Zenon
  <2>7. /\ Len(s) = 1 + (n - k) /\ s[1] = "b"
        /\ \A i \in 1..(n - k) : s[1 + i] = target[k + i]
    <3>1. /\ Len(to \o x) = Len(to) + Len(x)
          /\ \A i \in 1..Len(to) : (to \o x)[i] = to[i]
          /\ \A i \in 1..Len(x) : (to \o x)[Len(to) + i] = x[i]
      BY Parts
    <3>2. /\ Len(s) = Len(to) + Len(x) /\ \A i \in 1..Len(to) : s[i] = to[i]
          /\ \A i \in 1..Len(x) : s[Len(to) + i] = x[i]
      BY <2>6, <3>1, Zenon
    <3>3. Len(s) = 1 + (n - k) /\ s[1] = "b"
      <4>1. 1 \in 1..Len(to)
        BY <2>1
      <4> QED
        BY <2>1, <2>4, <3>2, <4>1
    <3>4. ASSUME NEW i \in 1..(n - k) PROVE s[1 + i] = target[k + i]
      <4>1. Len(to) = 1 /\ i \in 1..Len(x)
        BY <2>1, <2>4
      <4>2. s[Len(to) + i] = x[i]
        BY <3>2, <4>1
      <4>3. x[i] = target[k + i]
        BY <2>4
      <4> QED
        BY <4>1, <4>2, <4>3
    <3> QED
      BY <3>3, <3>4
  <2>8. Query(s) = Query(target)
    <3>1. ASSUME NEW i \in 1..(n - k)
          PROVE  SubSeq(s, 1 + i, Len(s)) = SubSeq(target, k + i, n)
      <4>1. /\ SubSeq(s, 1 + i, Len(s)) \in Seq(S)
            /\ Len(SubSeq(s, 1 + i, Len(s))) = n - k - i + 1
            /\ \A j \in 1..(n - k - i + 1) : SubSeq(s, 1 + i, Len(s))[j] = s[i + j]
        BY <1>3, <2>3, <2>7
      <4>2. /\ SubSeq(target, k + i, n) \in Seq(S)
            /\ Len(SubSeq(target, k + i, n)) = n - k - i + 1
            /\ \A j \in 1..(n - k - i + 1) : SubSeq(target, k + i, n)[j] = target[k + i + j - 1]
        BY <1>3, <2>3
      <4>3. \A j \in 1..(n - k - i + 1) : s[i + j] = target[k + i + j - 1]
        <5> TAKE j \in 1..(n - k - i + 1)
        <5>1. i + j - 1 \in 1..(n - k) /\ 1 + (i + j - 1) = i + j /\ k + (i + j - 1) = k + i + j - 1
          BY <1>3, <2>3
        <5> QED
          BY <2>7, <5>1
      <4>4. PICK u \in Seq(S), v \in Seq(S) :
              u = SubSeq(s, 1 + i, Len(s)) /\ v = SubSeq(target, k + i, n)
        BY <4>1, <4>2, Zenon
      <4>5. Len(u) = n - k - i + 1 /\ Len(v) = n - k - i + 1
        BY <4>1, <4>2, <4>4
      <4>6. \A j \in 1..(n - k - i + 1) : u[j] = v[j]
        BY <4>1, <4>2, <4>3, <4>4, Zenon
      <4>7. u = v
        BY <4>5, <4>6, SeqEqual
      <4> QED
        BY <4>4, <4>7
    <3>2. DOMAIN s = 1..Len(s)
      OBVIOUS
    <3>3. ASSUME NEW m \in DOMAIN s, s[m] = "?"
          PROVE  SubSeq(s, m, Len(s)) \in Query(target)
      <4>1. PICK i \in 1..(n - k) : m = 1 + i
        <5>1. m # 1
          BY <2>7, <3>3
        <5>2. m - 1 \in 1..(n - k) /\ m = 1 + (m - 1)
          BY <1>3, <2>3, <2>7, <3>2, <5>1
        <5> QED
          BY <5>2
      <4>2. k + i \in DOMAIN target /\ target[k + i] = "?"
        BY <1>3, <2>3, <2>7, <3>3, <4>1
      <4> QED
        BY <3>1, <4>1, <4>2
    <3>4. ASSUME NEW m \in DOMAIN target, target[m] = "?"
          PROVE  SubSeq(target, m, n) \in Query(s)
      <4>1. PICK i \in 1..(n - k) : m = k + i
        <5>1. m \notin 1..k
          BY <2>3, <3>4
        <5>2. m - k \in 1..(n - k) /\ m = k + (m - k)
          BY <1>3, <2>3, <5>1
        <5> QED
          BY <5>2
      <4>2. 1 + i \in DOMAIN s /\ s[1 + i] = "?"
        BY <1>3, <2>3, <2>7, <3>2, <3>4, <4>1
      <4> QED
        BY <3>1, <4>1, <4>2
    <3> QED
      BY <3>3, <3>4
  <2>9. ASSUME NEW rest \in BoundedSeq(C, size), target = from \o rest
        PROVE  s = <<"b">> \o rest
    <3>1. PICK r \in Seq(S) : r = rest
      BY <1>1, <2>9
    <3>2. /\ Len(from \o r) = k + Len(r)
          /\ \A i \in 1..Len(r) : (from \o r)[k + i] = r[i]
      BY <1>2, Parts
    <3>3. Len(r) = n - k /\ \A i \in 1..Len(r) : target[k + i] = r[i]
      <4>1. n = k + Len(r) /\ \A i \in 1..Len(r) : target[k + i] = r[i]
        BY <2>9, <3>1, <3>2, Zenon
      <4> QED
        BY <1>2, <4>1
    <3>4. x = r
      BY <2>4, <3>3, SeqEqual
    <3> QED
      BY <2>1, <2>6, <3>1, <3>4, Zenon
  <2>10. mapped = s
    BY <2>5, <2>6
  <2>11. Query(mapped) = Query(target)
    BY <2>8, <2>10
  <2>12. \A rest \in BoundedSeq(C, size) : target = from \o rest => mapped = <<"b">> \o rest
    BY <2>9, <2>10, Zenon
  <2> QED
    BY <1>5, <2>11, <2>12, Zenon DEF C
<1> QED
  BY <1>4, <1>5

\* Whatever a client sends, the head that reaches the upstream says how long the
\* body is that follows, and the target keeps its query (build_proxy_request,
\* proxy_target): the sizes of RequestsForwardedTruly are instances.
THEOREM RequestsAreForwarded == Spec => []RequestsForwardedTruly
<1>1. HeadsForwardedTruly(3) /\ TargetsKept(5)
  BY HeadsAreForwarded, TargetsAreKept
<1>2. RequestsForwardedTruly
  BY <1>1 DEF RequestsForwardedTruly
<1> QED
  BY <1>2, PTL
=============================================================================
