------------------------ MODULE UpstreamDrain_proofs ------------------------
(***************************************************************************)
(* Proofs about UpstreamDrain.                                             *)
(*                                                                         *)
(* For any number of handlers: the types, and that the count of each       *)
(* upstream is exact.  With one handler at a time: that the runtime follows *)
(* the storage, and that a retired upstream stays visible and gets no new   *)
(* requests.  With two, TLC refutes the last ones.                          *)
(***************************************************************************)
EXTENDS UpstreamDrain, FiniteSetTheorems, TLAPS

\* A request past the connect has an upstream, so its count can be looked up.
RequestsOK ==
    \A r \in Requests : request[r].at \in {"connected", "active"} =>
                          request[r].upstream \in Upstreams

CountInv == TypeOK /\ RequestsOK /\ ActiveCountExact

LEMMA InitCount == Init => CountInv
<1> SUFFICES ASSUME Init PROVE CountInv
  OBVIOUS
<1>1. TypeOK
  BY StartsAssumption, FailAssumption DEF Init, TypeOK, NoAdmin, AdminState, AdminSteps, NoRequest,
     RequestState, RequestSteps
<1>2. RequestsOK
  BY DEF Init, RequestsOK, NoRequest
<1>3. ASSUME NEW u \in Upstreams
      PROVE  active[u] = Cardinality(Guards(u))
  <2>1. Guards(u) = {}
    BY DEF Init, Guards, NoRequest
  <2> QED
    BY <2>1, FS_EmptySet DEF Init
<1> QED
  BY <1>1, <1>2, <1>3 DEF CountInv, ActiveCountExact

\* A handler's step touches neither the counts nor the requests.
LEMMA HandlerType ==
    ASSUME TypeOK, NEW a \in Admins, Call(a) \/ Handler(a) \/ Abandon(a)
    PROVE  TypeOK' /\ UNCHANGED <<active, request>>
<1> USE DEF TypeOK, config, served, AdminState, AdminSteps
<1>1. ASSUME NEW new \in Upstreams, NEW old \in Upstreams \cup {None}, AddUpstream(a, new, old)
      PROVE  TypeOK' /\ UNCHANGED <<active, request>>
  BY <1>1 DEF AddUpstream, SaveThen
<1>2. ASSUME NEW u \in Upstreams, DeleteUpstream(a, u)
      PROVE  TypeOK' /\ UNCHANGED <<active, request>>
  BY <1>2 DEF DeleteUpstream, SaveThen
<1>3. ASSUME NEW on \in BOOLEAN, SetEnabled(a, on)
      PROVE  TypeOK' /\ UNCHANGED <<active, request>>
  BY <1>3 DEF SetEnabled, SaveThen
<1>11. ASSUME NEW moved \in BOOLEAN, Update(a, moved)
       PROVE  TypeOK' /\ UNCHANGED <<active, request>>
  <2>1. admin[a] \in AdminState /\ NoAdmin \in AdminState
    BY DEF NoAdmin
  <2>2. [admin[a] EXCEPT !.at = IF moved THEN "move" ELSE "apply", !.new = stored] \in AdminState
    BY <2>1
  <2>3. PICK locals \in AdminState : SaveThen(a, locals)
    BY <1>11, <2>1, <2>2 DEF Update
  <2>4. admin' \in [Admins -> AdminState] /\ failed' \in BOOLEAN
    BY <2>3, FailAssumption DEF SaveThen
  <2> QED
    BY <1>11, <2>4 DEF Update
<1>4. CASE Reload(a)
  BY <1>4 DEF Reload
<1>5. CASE Get(a)
  BY <1>5 DEF Get, NoAdmin
<1>6. CASE ReadOld(a)
  <2>1. admin[a] \in AdminState /\ running \in SUBSET Upstreams /\ starts \in Nat
    BY StartsAssumption
  <2>2. [admin[a] EXCEPT !.at = "reconcile", !.old = running, !.cell = starts] \in AdminState
    BY <2>1
  <2>3. admin' = [admin EXCEPT ![a] =
           [admin[a] EXCEPT !.at = "reconcile", !.old = running, !.cell = starts]]
    BY <1>6, <2>1 DEF ReadOld
  <2> QED
    BY <1>6, <2>2, <2>3 DEF ReadOld
<1>7. CASE Reconcile(a)
  BY <1>7 DEF Reconcile, Reconciled
<1>8. CASE Write(a)
  BY <1>8 DEF Write, NoAdmin
<1>9. CASE Start(a)
  <2>1. starts' \in 0..MaxStarts
    BY <1>9, StartsAssumption DEF Start
  <2>2. admin' \in [Admins -> AdminState]
    BY <1>9 DEF Start, NoAdmin
  <2>3. running' \in SUBSET Upstreams
    BY <1>9 DEF Start
  <2> QED
    BY <1>9, <2>1, <2>2, <2>3 DEF Start
<1>10. CASE Stop(a)
  BY <1>10 DEF Stop, NoAdmin
<1>12. CASE Move(a)
  BY <1>12 DEF Move
<1>13. CASE BindFails(a)
  BY <1>13 DEF BindFails, NoAdmin
<1>14. CASE Abandon(a)
  BY <1>14 DEF Abandon, NoAdmin
<1> QED
  BY <1>1, <1>2, <1>3, <1>4, <1>5, <1>6, <1>7, <1>8, <1>9, <1>10, <1>11, <1>12, <1>13, <1>14
  DEF Call, Handler

\* What a request's step changes: its own record, and one count.
LEMMA RequestType ==
    ASSUME TypeOK, RequestsOK, NEW r \in Requests, SelectCandidates(r) \/ Proxy(r)
    PROVE  TypeOK' /\ RequestsOK'
<1> USE DEF TypeOK, RequestsOK, config, served, RequestState, RequestSteps
<1>1. CASE SelectCandidates(r)
  BY <1>1 DEF SelectCandidates
<1>2. CASE Connect(r)
  BY <1>2 DEF Connect
<1>3. CASE ConnectFails(r)
  BY <1>3 DEF ConnectFails, NoRequest
<1>4. CASE Increment(r)
  BY <1>4 DEF Increment
<1>5. CASE Drop(r)
  <2>0. active \in [Upstreams -> Nat] /\ request[r].upstream \in Upstreams
    BY <1>5 DEF Drop
  <2>1. active' \in [Upstreams -> Nat]
    BY <1>5, <2>0 DEF Drop
  <2> QED
    BY <1>5, <2>1 DEF Drop, NoRequest
<1> QED
  BY <1>1, <1>2, <1>3, <1>4, <1>5 DEF Proxy

LEMMA StepCount ==
    ASSUME CountInv, [Next]_vars
    PROVE  CountInv'
<1> USE DEF CountInv
<1>1. \A u \in Upstreams : IsFiniteSet(Guards(u))
  BY RequestsAssumption, FS_Subset DEF Guards
<1>2. request \in [Requests -> RequestState] /\ active \in [Upstreams -> Nat]
  BY DEF TypeOK
<1>3. ASSUME UNCHANGED active, \A u \in Upstreams : Guards(u)' = Guards(u)
      PROVE  ActiveCountExact'
  BY <1>3 DEF ActiveCountExact
<1>4. ASSUME NEW r \in Requests, Increment(r)
      PROVE  ActiveCountExact'
  <2>0. PICK v \in Upstreams : v = request[r].upstream
    BY <1>4 DEF Increment, RequestsOK
  <2>1. r \notin Guards(v)
    BY <1>4 DEF Increment, Guards
  <2>2. Guards(v)' = Guards(v) \cup {r}
    BY <1>2, <1>4, <2>0 DEF Increment, Guards, RequestState
  <2>3. \A u \in Upstreams \ {v} : Guards(u)' = Guards(u)
    BY <1>2, <1>4, <2>0 DEF Increment, Guards, RequestState
  <2>4. Cardinality(Guards(v)') = Cardinality(Guards(v)) + 1
    BY <1>1, <2>1, <2>2, FS_AddElement
  <2>5. active' = [active EXCEPT ![v] = @ + 1]
    BY <1>4, <2>0 DEF Increment
  <2> QED
    BY <1>2, <2>1, <2>3, <2>4, <2>5 DEF ActiveCountExact
<1>5. ASSUME NEW r \in Requests, Drop(r)
      PROVE  ActiveCountExact'
  <2>0. PICK v \in Upstreams : v = request[r].upstream
    BY <1>5 DEF Drop, RequestsOK
  <2>1. r \in Guards(v)
    BY <1>5, <2>0 DEF Drop, Guards
  <2>2. Guards(v)' = Guards(v) \ {r}
    BY <1>2, <1>5, <2>0 DEF Drop, Guards, RequestState, NoRequest
  <2>3. \A u \in Upstreams \ {v} : Guards(u)' = Guards(u)
    BY <1>2, <1>5, <2>0 DEF Drop, Guards, RequestState, NoRequest
  <2>4. Cardinality(Guards(v)') = Cardinality(Guards(v)) - 1
    BY <1>1, <2>1, <2>2, FS_RemoveElement
  <2>5. Cardinality(Guards(v)') \in Nat
    BY <1>1, <2>1, <2>2, FS_RemoveElement, FS_Subset, FS_CardinalityType
  <2>6. active[v] = Cardinality(Guards(v)) /\ active[v] \in Nat
    BY <1>2, <2>1 DEF ActiveCountExact
  <2>7. active[v] # 0
    BY <2>4, <2>5, <2>6
  <2>8. active' = [active EXCEPT ![v] = active[v] - 1]
    BY <1>2, <1>5, <2>0, <2>7 DEF Drop
  <2> QED
    BY <1>2, <2>3, <2>4, <2>6, <2>8 DEF ActiveCountExact
<1>6. ASSUME NEW r \in Requests, SelectCandidates(r) \/ Connect(r) \/ ConnectFails(r)
      PROVE  ActiveCountExact'
  <2>1. UNCHANGED active
    BY <1>6 DEF SelectCandidates, Connect, ConnectFails
  <2>2. request[r].at # "active" /\ request'[r].at # "active"
    <3>1. CASE SelectCandidates(r)
      BY <1>2, <3>1 DEF SelectCandidates, RequestState
    <3>2. CASE Connect(r)
      BY <1>2, <3>2 DEF Connect
    <3>3. CASE ConnectFails(r)
      BY <1>2, <3>3 DEF ConnectFails, NoRequest
    <3> QED
      BY <1>6, <3>1, <3>2, <3>3
  <2>3. \A q \in Requests \ {r} : request'[q] = request[q]
    BY <1>2, <1>6 DEF SelectCandidates, Connect, ConnectFails
  <2>4. \A u \in Upstreams : Guards(u)' = Guards(u)
    BY <2>2, <2>3 DEF Guards
  <2> QED
    BY <1>3, <2>1, <2>4
<1>7. ASSUME NEW r \in Requests, SelectCandidates(r) \/ Proxy(r)
      PROVE  CountInv'
  BY <1>4, <1>5, <1>6, <1>7, RequestType DEF Proxy
<1>8. ASSUME NEW a \in Admins, Call(a) \/ Handler(a) \/ Abandon(a)
      PROVE  CountInv'
  <2>1. TypeOK' /\ UNCHANGED <<active, request>>
    BY <1>8, HandlerType
  <2>2. \A u \in Upstreams : Guards(u)' = Guards(u)
    BY <2>1 DEF Guards
  <2> QED
    BY <1>3, <2>1, <2>2 DEF RequestsOK
<1>9. CASE UNCHANGED vars
  <2>1. \A u \in Upstreams : Guards(u)' = Guards(u)
    BY <1>9 DEF vars, Guards
  <2> QED
    BY <1>3, <1>9, <2>1 DEF vars, config, served, TypeOK, RequestsOK
<1> QED
  BY <1>7, <1>8, <1>9 DEF Next

LEMMA Counted == Spec => []CountInv
<1>1. CountInv /\ [Next]_vars => CountInv'
  BY StepCount
<1> QED
  BY InitCount, <1>1, PTL DEF Spec

\* Every variable keeps its type, for any number of handlers and requests: no
\* count is negative and no request looks up the count of a missing upstream.
THEOREM TypeCorrect == Spec => []TypeOK
<1>1. CountInv => TypeOK
  BY DEF CountInv
<1> QED
  BY <1>1, Counted, PTL

\* The count of every upstream is the number of guards alive for it, for any
\* number of handlers and requests (increment_upstream_request and the drop of
\* UpstreamRequestGuard).
THEOREM CountsAreExact == Spec => []ActiveCountExact
<1>1. CountInv => ActiveCountExact
  BY DEF CountInv
<1> QED
  BY <1>1, Counted, PTL

----------------------------------------------------------------------------
(* One handler at a time.                                                  *)

OneHandler == \E a \in Admins : Admins = {a}

\* Ids are only ever handed out once.
IdsUsed == stored \cup running \cup retired \subseteq used

\* What the handler knows at each of its steps about the state it will change.
HandlerKnows(a) ==
    /\ admin[a].at = "idle" /\ ~failed =>
         serving = enabled /\ running = IF enabled THEN stored ELSE {}
    /\ admin[a].at = "get" /\ ~failed => serving = enabled
    /\ admin[a].at = "stop" => ~enabled
    /\ admin[a].at \in {"move", "apply", "reconcile", "write"} => enabled /\ admin[a].new = stored
    /\ admin[a].at \in {"reconcile", "write"} =>
         serving /\ admin[a].old = running /\ admin[a].cell = starts

\* Retired upstreams are not stored, and while no reconciliation waits to be
\* followed by its write, and no call has failed, they are not in the running
\* configuration either.
RetiredApart ==
    /\ retired \cap stored = {}
    /\ ~failed /\ (\A a \in Admins : admin[a].at # "write") => retired \cap running = {}

HandlerInv == TypeOK /\ IdsUsed /\ RetiredApart /\ \A a \in Admins : HandlerKnows(a)

LEMMA InitHandler == Init => HandlerInv
<1> SUFFICES ASSUME Init PROVE HandlerInv
  OBVIOUS
<1>1. TypeOK
  BY InitCount DEF CountInv
<1>2. IdsUsed /\ RetiredApart
  BY DEF Init, IdsUsed, RetiredApart
<1>3. ASSUME NEW a \in Admins PROVE HandlerKnows(a)
  BY DEF Init, HandlerKnows, NoAdmin
<1> QED
  BY <1>1, <1>2, <1>3 DEF HandlerInv

\* With one handler, the invariant is about that handler.
LEMMA OnlyHandler ==
    ASSUME OneHandler, NEW a \in Admins, TypeOK', IdsUsed', HandlerKnows(a)',
           (retired \cap stored = {})', (~failed /\ admin[a].at # "write" => retired \cap running = {})'
    PROVE  HandlerInv'
<1>1. \A b \in Admins : b = a
  BY DEF OneHandler
<1> QED
  BY <1>1 DEF HandlerInv, RetiredApart

\* The storage part of a call: the handler begins, the runtime is untouched.
LEMMA CallHandler ==
    ASSUME OneHandler, HandlerInv, NEW a \in Admins, Call(a)
    PROVE  HandlerInv' /\ retired' = retired
<1> USE DEF config, served
<1>1. TypeOK' /\ HandlerKnows(a) /\ admin \in [Admins -> AdminState]
  BY HandlerType DEF HandlerInv, TypeOK
<1>2. /\ admin[a].at = "idle" /\ retired \cap stored = {}
      /\ ~failed => retired \cap running = {}
  <2>1. admin[a].at = "idle"
    BY DEF Call, AddUpstream, DeleteUpstream, SetEnabled, Update, Reload
  <2>2. \A b \in Admins : admin[b].at # "write"
    BY <2>1 DEF OneHandler
  <2> QED
    BY <2>1, <2>2 DEF HandlerInv, RetiredApart
<1>3. ASSUME NEW new \in Upstreams, NEW old \in Upstreams \cup {None}, AddUpstream(a, new, old)
      PROVE  HandlerInv' /\ retired' = retired
  <2>1. IdsUsed' /\ retired' \cap stored' = {} /\ (~failed' => retired' \cap running' = {})
    BY <1>2, <1>3 DEF AddUpstream, SaveThen, HandlerInv, IdsUsed
  <2>2. \/ admin'[a].at = "get" /\ failed' = failed
        \/ admin'[a].at = "idle" /\ failed'
    BY <1>1, <1>2, <1>3 DEF AddUpstream, SaveThen, AdminState
  <2>3. HandlerKnows(a)'
    BY <1>1, <1>2, <1>3, <2>2 DEF AddUpstream, HandlerKnows
  <2> QED
    BY <1>1, <1>3, <2>1, <2>3, OnlyHandler DEF AddUpstream
<1>4. ASSUME NEW u \in Upstreams, DeleteUpstream(a, u)
      PROVE  HandlerInv' /\ retired' = retired
  <2>1. IdsUsed' /\ retired' \cap stored' = {} /\ (~failed' => retired' \cap running' = {})
    BY <1>2, <1>4 DEF DeleteUpstream, SaveThen, HandlerInv, IdsUsed
  <2>2. \/ admin'[a].at = "get" /\ failed' = failed
        \/ admin'[a].at = "idle" /\ failed'
    BY <1>1, <1>2, <1>4 DEF DeleteUpstream, SaveThen, AdminState
  <2>3. HandlerKnows(a)'
    BY <1>1, <1>2, <1>4, <2>2 DEF DeleteUpstream, HandlerKnows
  <2> QED
    BY <1>1, <1>4, <2>1, <2>3, OnlyHandler DEF DeleteUpstream
<1>5. ASSUME NEW on \in BOOLEAN, SetEnabled(a, on)
      PROVE  HandlerInv' /\ retired' = retired
  <2>1. IdsUsed' /\ retired' \cap stored' = {} /\ (~failed' => retired' \cap running' = {})
    BY <1>2, <1>5 DEF SetEnabled, SaveThen, HandlerInv, IdsUsed
  <2>2. \/ admin'[a].at = (IF on THEN "apply" ELSE "stop") /\ admin'[a].new = stored
        \/ admin'[a].at = "idle" /\ failed'
    BY <1>1, <1>2, <1>5 DEF SetEnabled, SaveThen, AdminState
  <2>3. HandlerKnows(a)'
    BY <1>5, <2>2 DEF SetEnabled, HandlerKnows
  <2> QED
    BY <1>1, <1>5, <2>1, <2>3, OnlyHandler DEF SetEnabled
<1>7. ASSUME NEW moved \in BOOLEAN, Update(a, moved)
      PROVE  HandlerInv' /\ retired' = retired
  <2>1. IdsUsed' /\ retired' \cap stored' = {} /\ (~failed' => retired' \cap running' = {})
    BY <1>2, <1>7 DEF Update, SaveThen, HandlerInv, IdsUsed
  <2>0. admin[a] \in AdminState
    BY <1>1
  <2>2. \/ admin'[a].at \in {"move", "apply"} /\ admin'[a].new = stored /\ enabled
        \/ admin'[a].at = "idle" /\ (failed' \/ failed' = failed)
    <3>1. CASE MayFail /\ failed' = TRUE /\ UNCHANGED admin
      BY <1>2, <3>1
    <3>2. CASE enabled /\ admin' = [admin EXCEPT ![a] =
                 [admin[a] EXCEPT !.at = IF moved THEN "move" ELSE "apply", !.new = stored]]
      <4>1. admin'[a] = [admin[a] EXCEPT !.at = IF moved THEN "move" ELSE "apply", !.new = stored]
        BY <1>1, <3>2
      <4> QED
        BY <2>0, <3>2, <4>1 DEF AdminState
    <3>3. CASE admin' = [admin EXCEPT ![a] = NoAdmin] /\ failed' = failed
      BY <1>1, <3>3 DEF NoAdmin
    <3> QED
      BY <1>7, <3>1, <3>2, <3>3 DEF Update, SaveThen
  <2>3. HandlerKnows(a)'
    BY <1>1, <1>2, <1>7, <2>2 DEF Update, HandlerKnows
  <2> QED
    BY <1>1, <1>7, <2>1, <2>3, OnlyHandler DEF Update
<1>6. CASE Reload(a)
  <2>1. IdsUsed' /\ retired' \cap stored' = {} /\ (~failed' => retired' \cap running' = {})
    BY <1>2, <1>6 DEF Reload, HandlerInv, IdsUsed
  <2>2. admin'[a].at = "get"
    BY <1>1, <1>6 DEF Reload, AdminState
  <2>3. HandlerKnows(a)'
    BY <1>1, <1>2, <1>6, <2>2 DEF Reload, HandlerKnows
  <2> QED
    BY <1>1, <1>6, <2>1, <2>3, OnlyHandler DEF Reload
<1> QED
  BY <1>3, <1>4, <1>5, <1>6, <1>7 DEF Call

\* The runtime part of a call.
LEMMA ApplyHandler ==
    ASSUME OneHandler, HandlerInv, NEW a \in Admins, Handler(a) \/ Abandon(a)
    PROVE  HandlerInv' /\ retired \subseteq retired'
<1> USE DEF config, served
<1>1. TypeOK' /\ HandlerKnows(a) /\ admin \in [Admins -> AdminState]
  BY HandlerType DEF HandlerInv, TypeOK
<1>2. /\ retired \cap stored = {}
      /\ ~failed /\ admin[a].at # "write" => retired \cap running = {}
  BY DEF HandlerInv, RetiredApart, OneHandler
<1>3. CASE Get(a)
  <2>1. IdsUsed' /\ retired' \cap stored' = {} /\ (~failed' => retired' \cap running' = {})
    BY <1>2, <1>3 DEF Get, HandlerInv, IdsUsed
  <2>2. IF enabled THEN admin'[a].at = "apply" /\ admin'[a].new = stored
                   ELSE admin'[a].at = "idle"
    BY <1>1, <1>3 DEF Get, AdminState, NoAdmin
  <2>3. HandlerKnows(a)'
    BY <1>1, <1>3, <2>2 DEF Get, HandlerKnows, HandlerInv, TypeOK
  <2> QED
    BY <1>1, <1>3, <2>1, <2>3, OnlyHandler DEF Get
<1>4. CASE ReadOld(a)
  <2>1. IdsUsed' /\ retired' \cap stored' = {} /\ (~failed' => retired' \cap running' = {})
    BY <1>2, <1>4 DEF ReadOld, HandlerInv, IdsUsed
  <2>2. /\ admin'[a].at = "reconcile" /\ admin'[a].new = admin[a].new
        /\ admin'[a].old = running /\ admin'[a].cell = starts
    BY <1>1, <1>4 DEF ReadOld, AdminState
  <2>3. HandlerKnows(a)'
    BY <1>1, <1>4, <2>2 DEF ReadOld, HandlerKnows
  <2> QED
    BY <1>1, <1>4, <2>1, <2>3, OnlyHandler DEF ReadOld
<1>5. CASE Reconcile(a)
  <2>1. admin[a].new = stored /\ admin[a].old = running /\ enabled /\ serving
          /\ admin[a].cell = starts
    BY <1>1, <1>2, <1>5 DEF Reconcile, HandlerKnows
  <2>2. retired' = retired \cup {u \in running \ stored : active[u] > 0}
    BY <1>2, <1>5, <2>1 DEF Reconcile, Reconciled
  <2>3. IdsUsed' /\ retired' \cap stored' = {}
    BY <1>2, <1>5, <2>2 DEF Reconcile, HandlerInv, IdsUsed
  <2>4. admin'[a].at = "write" /\ admin'[a].new = admin[a].new /\ admin'[a].old = admin[a].old
          /\ admin'[a].cell = admin[a].cell
    BY <1>1, <1>5 DEF Reconcile, AdminState
  <2>5. HandlerKnows(a)'
    BY <1>5, <2>1, <2>4 DEF Reconcile, HandlerKnows
  <2> QED
    BY <1>1, <2>2, <2>3, <2>4, <2>5, OnlyHandler
<1>6. CASE Write(a)
  <2>1. admin[a].new = stored /\ enabled /\ serving /\ admin[a].cell = starts
    BY <1>1, <1>6 DEF Write, HandlerKnows
  <2>2. running' = stored /\ UNCHANGED <<stored, used, enabled, serving, retired>>
    BY <1>6, <2>1 DEF Write
  <2>3. IdsUsed' /\ retired' \cap stored' = {} /\ retired' \cap running' = {}
    BY <1>2, <2>2 DEF HandlerInv, IdsUsed
  <2>4. admin'[a].at = "idle"
    BY <1>1, <1>6 DEF Write, NoAdmin
  <2>5. HandlerKnows(a)'
    BY <2>1, <2>2, <2>4 DEF HandlerKnows
  <2> QED
    BY <1>1, <2>2, <2>3, <2>5, OnlyHandler
<1>7. CASE Start(a)
  <2>1. admin[a].new = stored /\ enabled
    BY <1>1, <1>7 DEF Start, HandlerKnows
  <2>2. running' = stored /\ serving' = TRUE /\ UNCHANGED <<stored, used, enabled, retired>>
    BY <1>7, <2>1 DEF Start
  <2>3. IdsUsed' /\ retired' \cap stored' = {} /\ retired' \cap running' = {}
    BY <1>2, <2>2 DEF HandlerInv, IdsUsed
  <2>4. admin'[a].at = "idle"
    BY <1>1, <1>7 DEF Start, NoAdmin
  <2>5. HandlerKnows(a)'
    BY <2>1, <2>2, <2>4 DEF HandlerKnows
  <2> QED
    BY <1>1, <2>2, <2>3, <2>5, OnlyHandler
<1>8. CASE Stop(a)
  <2>1. enabled = FALSE
    BY <1>1, <1>8 DEF Stop, HandlerKnows, HandlerInv, TypeOK
  <2>2. running' = {} /\ serving' = FALSE /\ UNCHANGED <<stored, used, enabled, retired>>
    BY <1>8 DEF Stop
  <2>3. IdsUsed' /\ retired' \cap stored' = {} /\ retired' \cap running' = {}
    BY <1>2, <2>2 DEF HandlerInv, IdsUsed
  <2>4. admin'[a].at = "idle"
    BY <1>1, <1>8 DEF Stop, NoAdmin
  <2>5. HandlerKnows(a)'
    BY <2>1, <2>2, <2>4 DEF HandlerKnows
  <2> QED
    BY <1>1, <2>2, <2>3, <2>5, OnlyHandler
<1>9. CASE Move(a)
  <2>1. admin[a].new = stored /\ enabled
    BY <1>1, <1>9 DEF Move, HandlerKnows
  <2>2. running' = {} /\ UNCHANGED <<stored, used, enabled, retired>>
    BY <1>9 DEF Move
  <2>3. IdsUsed' /\ retired' \cap stored' = {} /\ retired' \cap running' = {}
    BY <1>2, <2>2 DEF HandlerInv, IdsUsed
  <2>4. admin'[a].at = "apply" /\ admin'[a].new = admin[a].new
    BY <1>1, <1>9 DEF Move, AdminState
  <2>5. HandlerKnows(a)'
    BY <2>1, <2>2, <2>4 DEF HandlerKnows
  <2> QED
    BY <1>1, <2>2, <2>3, <2>5, OnlyHandler
<1>10. CASE BindFails(a)
  <2>1. IdsUsed' /\ retired' \cap stored' = {} /\ failed' = TRUE
    BY <1>2, <1>10 DEF BindFails, HandlerInv, IdsUsed
  <2>2. admin'[a].at = "idle" /\ failed' = TRUE
    BY <1>1, <1>10 DEF BindFails, NoAdmin
  <2>3. HandlerKnows(a)'
    BY <2>2 DEF HandlerKnows
  <2> QED
    BY <1>1, <1>10, <2>1, <2>3, OnlyHandler DEF BindFails
<1>11. CASE Abandon(a)
  <2>1. IdsUsed' /\ retired' \cap stored' = {} /\ failed' = TRUE
    BY <1>2, <1>11 DEF Abandon, HandlerInv, IdsUsed
  <2>2. admin'[a].at = "idle"
    BY <1>1, <1>11 DEF Abandon, NoAdmin
  <2>3. HandlerKnows(a)'
    BY <2>1, <2>2 DEF HandlerKnows
  <2> QED
    BY <1>1, <1>11, <2>1, <2>3, OnlyHandler DEF Abandon
<1> QED
  BY <1>3, <1>4, <1>5, <1>6, <1>7, <1>8, <1>9, <1>10, <1>11 DEF Handler

LEMMA StepHandler ==
    ASSUME OneHandler, CountInv, HandlerInv, [Next]_vars
    PROVE  HandlerInv' /\ retired \subseteq retired'
<1>1. TypeOK'
  BY StepCount DEF CountInv
<1>2. ASSUME UNCHANGED <<config, served, retired, failed, admin>>
      PROVE  HandlerInv' /\ retired \subseteq retired'
  BY <1>1, <1>2 DEF config, served, HandlerInv, IdsUsed, RetiredApart, HandlerKnows
<1>3. ASSUME NEW r \in Requests, SelectCandidates(r) \/ Proxy(r)
      PROVE  UNCHANGED <<config, served, retired, failed, admin>>
  BY <1>3 DEF Proxy, SelectCandidates, Connect, ConnectFails, Increment, Drop
<1>4. ASSUME NEW a \in Admins, Call(a) \/ Handler(a) \/ Abandon(a)
      PROVE  HandlerInv' /\ retired \subseteq retired'
  BY <1>4, CallHandler, ApplyHandler
<1>5. CASE UNCHANGED vars
  BY <1>2, <1>5 DEF vars
<1> QED
  BY <1>2, <1>3, <1>4, <1>5 DEF Next

\* With one handler at a time the knowledge of the handler is kept.
LEMMA HandlerKept == ASSUME OneHandler PROVE Spec => []HandlerInv
<1>1. CountInv /\ HandlerInv /\ [Next]_vars => HandlerInv'
  BY StepHandler
<1> QED
  BY InitHandler, Counted, <1>1, PTL DEF Spec

\* With one handler at a time, the listener serves what is stored whenever no
\* call is in progress (every change of the upstreams reaches the runtime) and no
\* failed save, failed bind or dropped handler is left.
THEOREM RuntimeFollows == ASSUME OneHandler PROVE Spec => []RuntimeFollowsStorage
<1>1. HandlerInv => RuntimeFollowsStorage
  BY DEF OneHandler, HandlerInv, HandlerKnows, RuntimeFollowsStorage, Quiet
<1> QED
  BY HandlerKept, <1>1, PTL

\* With one handler at a time, no retired upstream is in the configuration that
\* new requests copy, whenever no call is in progress and none has been left
\* half done.
THEOREM RetiredLeftAlone == ASSUME OneHandler PROVE Spec => []RetiredGetsNoNewRequests
<1>1. HandlerInv => RetiredGetsNoNewRequests
  BY DEF HandlerInv, RetiredApart, RetiredGetsNoNewRequests, Quiet
<1> QED
  BY HandlerKept, <1>1, PTL

\* With one handler at a time, no step removes a retired upstream from the map:
\* reconcile_upstreams only removes those that are configured again.
THEOREM RetiredStays == ASSUME OneHandler PROVE Spec => RetiredStaysVisible
<1>1. CountInv /\ HandlerInv /\ [Next]_vars => HandlerInv'
  BY StepHandler
<1>2. CountInv /\ HandlerInv /\ [Next]_vars => [retired \subseteq retired']_vars
  BY StepHandler
<1> QED
  BY InitHandler, Counted, <1>1, <1>2, PTL DEF Spec, RetiredStaysVisible
=============================================================================
