------------------------- MODULE HttpRuntime_proofs -------------------------
(***************************************************************************)
(* Proofs about HttpRuntime, for any servers, addresses, handlers, finite  *)
(* set of connections, heap and number of calls.                           *)
(*                                                                         *)
(* The inductive invariant is TypeOK, what each program counter says about *)
(* the locals of its call or connection, the counter and the groups.  The  *)
(* four need each other: that the atomic stays a natural number follows    *)
(* from CounterExact, and that a group may be looked up at all from the    *)
(* locals.                                                                 *)
(*                                                                         *)
(* Two more are put on top of it: SocketInv, while accept never fails,     *)
(* about the listeners and the live sockets, and AdminInv(c), for one      *)
(* caller c, about the status and the routes of each server.               *)
(***************************************************************************)
EXTENDS HttpRuntime, FiniteSetTheorems, TLAPS

\* What a call knows at each of its steps.
CallerLocals(l) ==
    /\ l.at # "idle" => l.server \in Servers
    /\ l.at \notin {"idle", "unlisten", "remove_config", "drop_listener",
                            "stop_snapshot", "stop_info"}
         => l.addr \in Addrs
    /\ l.at \in {"remove_config", "drop_listener"} => l.old \in Addrs
    /\ l.at \in {"lookup_config", "register", "insert_config"} => l.group \in GroupIds

\* What a connection task knows at each of its steps.
ConnLocals(l) ==
    /\ l.at = "accepted" => l.group \in GroupIds
    /\ l.at \in {"count", "count_info", "uncount", "uncount_info"} => l.server \in Servers

LocalsOK ==
    /\ \A c \in Callers : CallerLocals(caller[c])
    /\ \A k \in Conns : ConnLocals(conn[k])

\* All that a call may disturb besides its own locals.
SharedOK ==
    /\ listeners \in [Addrs -> GroupIds \cup {None}]
    /\ serverListens \in [Servers -> Addrs \cup {None}]
    /\ infos \in [Servers -> Info \cup {None}]
    /\ groups \in [GroupIds -> Group]
    /\ sockets \in [GroupIds -> Socket]
    /\ activeConnections \in Nat
    /\ calls \in 0..MaxCalls
    /\ conn \in [Conns -> Connection]
    /\ \A k \in Conns : ConnLocals(conn[k])

IInv == TypeOK /\ LocalsOK /\ CounterExact /\ GroupsWellFormed

----------------------------------------------------------------------------
\* Without keeps the type of an order.
LEMMA WithoutType ==
    ASSUME NEW order \in Seq(Servers), NEW s
    PROVE  Without(order, s) \in Seq(Servers)
  BY DEF Without

\* With no id twice, Without drops exactly s and keeps the rest distinct and
\* in their order, as Vec::retain does.
LEMMA WithoutDistinct ==
    ASSUME NEW order \in Seq(Servers), NEW s,
           \A i, j \in DOMAIN order : order[i] = order[j] => i = j
    PROVE  LET rest == Without(order, s) IN
           /\ {rest[i] : i \in DOMAIN rest} = {order[i] : i \in DOMAIN order} \ {s}
           /\ \A i, j \in DOMAIN rest : rest[i] = rest[j] => i = j
           /\ (order # <<>> /\ Head(order) # s) => rest # <<>> /\ Head(rest) = Head(order)
<1> DEFINE rest == Without(order, s)
<1>1. CASE ~ \E i \in DOMAIN order : order[i] = s
  <2>1. rest = order
    BY <1>1 DEF Without
  <2> QED
    BY <1>1, <2>1
<1>2. CASE \E i \in DOMAIN order : order[i] = s
  <2> DEFINE p == CHOOSE j \in DOMAIN order : order[j] = s
  <2>1. p \in DOMAIN order /\ order[p] = s
    BY <1>2
  <2>2. rest = [j \in 1..(Len(order) - 1) |-> IF j < p THEN order[j] ELSE order[j + 1]]
    BY <1>2 DEF Without
  <2> HIDE DEF rest, p
  <2>3. DOMAIN rest = 1..(Len(order) - 1) /\ DOMAIN order = 1..Len(order) /\ Len(order) \in Nat
    BY <2>2
  <2>4. {rest[i] : i \in DOMAIN rest} = {order[i] : i \in DOMAIN order} \ {s}
    <3>1. ASSUME NEW i \in DOMAIN rest
          PROVE  rest[i] \in {order[j] : j \in DOMAIN order} \ {s}
      <4>1. CASE i < p
        BY <2>1, <2>2, <2>3, <4>1
      <4>2. CASE ~(i < p)
        BY <2>1, <2>2, <2>3, <4>2
      <4> QED
        BY <4>1, <4>2
    <3>2. ASSUME NEW j \in DOMAIN order, order[j] # s
          PROVE  \E i \in DOMAIN rest : rest[i] = order[j]
      <4>1. CASE j < p
        BY <2>1, <2>2, <2>3, <4>1
      <4>2. CASE j > p
        <5>1. j - 1 \in DOMAIN rest /\ ~(j - 1 < p) /\ (j - 1) + 1 = j
          BY <2>1, <2>3, <4>2
        <5> QED
          BY <5>1, <2>2, <2>3
      <4>3. j # p
        BY <2>1, <3>2
      <4> QED
        BY <4>1, <4>2, <4>3, <2>1, <2>3
    <3> QED
      BY <3>1, <3>2
  <2>5. \A i, j \in DOMAIN rest : rest[i] = rest[j] => i = j
    BY <2>1, <2>2, <2>3
  <2>6. ASSUME order # <<>>, Head(order) # s
        PROVE  rest # <<>> /\ Head(rest) = Head(order)
    <3>1. order[1] = Head(order) /\ 1 \in DOMAIN order /\ p # 1
      BY <2>1, <2>6
    <3>2. Len(order) > 1 /\ 1 < p
      BY <2>1, <2>3, <3>1
    <3>3. rest[1] = order[1] /\ 1 \in DOMAIN rest
      BY <2>2, <2>3, <3>2
    <3>4. rest \in Seq(Servers)
      BY WithoutType DEF rest
    <3> QED
      BY <3>1, <3>3, <3>4
  <2> QED
    BY <2>4, <2>5, <2>6 DEF rest
<1> QED
  BY <1>1, <1>2

\* insert_server_config keeps a group well formed.
LEMMA InsertWellFormed ==
    ASSUME NEW grp \in Group, WellFormed(grp), NEW s \in Servers
    PROVE  InsertServer(grp, s) \in Group /\ WellFormed(InsertServer(grp, s))
<1> DEFINE new == InsertServer(grp, s)
<1>1. new \in Group
  BY DEF Group, InsertServer
<1>2. CASE s \in grp.servers
  <2>1. new.order = grp.order /\ new.servers = grp.servers /\ grp.order # <<>>
    BY <1>2 DEF InsertServer, WellFormed, Group
  <2>2. grp.default = Head(grp.order) /\ Head(grp.order) \in Servers
    BY <2>1 DEF WellFormed, Group
  <2>3. new.default = grp.default
    BY <2>2, NoneAssumption DEF InsertServer
  <2> QED
    BY <1>1, <2>1, <2>3 DEF WellFormed
<1>3. CASE s \notin grp.servers
  <2>1. new.order = Append(grp.order, s) /\ new.servers = grp.servers \cup {s}
        /\ grp.order \in Seq(Servers)
    BY <1>3 DEF InsertServer, Group
  <2>2. DOMAIN new.order = 1..(Len(grp.order) + 1) /\ DOMAIN grp.order = 1..Len(grp.order)
        /\ Len(grp.order) \in Nat /\ new.order[Len(grp.order) + 1] = s
        /\ \A i \in DOMAIN grp.order : new.order[i] = grp.order[i]
    BY <2>1
  <2>3. new.servers = {new.order[i] : i \in DOMAIN new.order}
    BY <2>1, <2>2 DEF WellFormed
  <2>4. \A i \in DOMAIN grp.order : grp.order[i] # s
    BY <1>3 DEF WellFormed
  <2>5. \A i, j \in DOMAIN new.order : new.order[i] = new.order[j] => i = j
    BY <2>2, <2>4 DEF WellFormed
  <2>6. new.order # <<>> /\ new.default = Head(new.order)
    <3>1. CASE grp.order = <<>>
      BY <3>1, <2>1 DEF WellFormed, InsertServer
    <3>2. CASE grp.order # <<>>
      <4>1. grp.default = Head(grp.order) /\ Head(grp.order) \in Servers
        BY <3>2, <2>1 DEF WellFormed
      <4>2. new.default = grp.default
        BY <4>1, NoneAssumption DEF InsertServer
      <4> QED
        BY <3>2, <4>1, <4>2, <2>1, <2>2
    <3> QED
      BY <3>1, <3>2
  <2> QED
    BY <1>1, <2>3, <2>5, <2>6 DEF WellFormed
<1> QED
  BY <1>2, <1>3

\* remove_server_config keeps a group well formed.
LEMMA RemoveWellFormed ==
    ASSUME NEW grp \in Group, WellFormed(grp), NEW s \in Servers
    PROVE  RemoveServer(grp, s) \in Group /\ WellFormed(RemoveServer(grp, s))
<1> DEFINE rest == Without(grp.order, s)
           new == RemoveServer(grp, s)
<1>1. grp.order \in Seq(Servers) /\ grp.default \in Servers \cup {None}
      /\ grp.servers \in SUBSET Servers
  BY DEF Group
<1>2. rest \in Seq(Servers)
  BY <1>1, WithoutType
<1>3. /\ {rest[i] : i \in DOMAIN rest} = {grp.order[i] : i \in DOMAIN grp.order} \ {s}
      /\ \A i, j \in DOMAIN rest : rest[i] = rest[j] => i = j
      /\ (grp.order # <<>> /\ Head(grp.order) # s)
           => rest # <<>> /\ Head(rest) = Head(grp.order)
  BY <1>1, WithoutDistinct DEF WellFormed
<1> HIDE DEF rest
<1>4. new.order = rest /\ new.servers = grp.servers \ {s}
      /\ new.default = (IF grp.default # s THEN grp.default
                        ELSE IF rest = <<>> THEN None ELSE Head(rest))
      /\ new = [default |-> new.default, order |-> rest, servers |-> grp.servers \ {s}]
  BY DEF RemoveServer, rest
<1> HIDE DEF new
<1>5. new.default \in Servers \cup {None}
  BY <1>1, <1>2, <1>4
<1>6. new \in Group
  BY <1>1, <1>2, <1>4, <1>5 DEF Group
<1>7. new.servers = {new.order[i] : i \in DOMAIN new.order}
  BY <1>3, <1>4 DEF WellFormed
<1>8. new.default = IF new.order = <<>> THEN None ELSE Head(new.order)
  <2>1. CASE grp.order = <<>>
    <3>1. grp.default = None /\ s # None
      BY <2>1, NoneAssumption DEF WellFormed
    <3>2. rest = <<>>
      BY <2>1 DEF rest, Without
    <3> QED
      BY <3>1, <3>2, <1>4
  <2>2. CASE grp.order # <<>> /\ Head(grp.order) # s
    BY <2>2, <1>3, <1>4 DEF WellFormed
  <2>3. CASE grp.order # <<>> /\ Head(grp.order) = s
    BY <2>3, <1>4 DEF WellFormed
  <2> QED
    BY <2>1, <2>2, <2>3
<1> QED
  BY <1>3, <1>4, <1>6, <1>7, <1>8 DEF WellFormed, new

----------------------------------------------------------------------------
\* A call that moves to good locals, and leaves the rest typed, keeps the types.
LEMMA CallerMoves ==
    ASSUME TypeOK, LocalsOK, NEW c \in Callers,
           caller' = [caller EXCEPT ![c] = caller'[c]],
           caller'[c] \in Locals, CallerLocals(caller'[c]), SharedOK'
    PROVE  TypeOK' /\ LocalsOK'
<1>1. caller' \in [Callers -> Locals]
  BY DEF TypeOK
<1>2. \A d \in Callers : CallerLocals(caller'[d])
  BY DEF TypeOK, LocalsOK
<1> QED
  BY <1>1, <1>2 DEF TypeOK, LocalsOK, SharedOK

\* A step of a call writes the locals of that call only.
LEMMA CallStepLocal ==
    ASSUME caller \in [Callers -> Locals], NEW c \in Callers, CallStep(c) \/ Abandon(c)
    PROVE  caller' = [caller EXCEPT ![c] = caller'[c]]
  BY DEF CallStep, LookupGroup, LookupConfig, Snapshot, UpdateInfo, Unlisten,
      RemoveConfig, DropListener, StopSnapshot, StopInfo, Starting, FindGroup, Bind,
      BindError, BindFailed, Register, InsertConfig, RecordListen, Running, Abandon, Goto, Return

\* A call's step keeps the types and the locals.
LEMMA CallStepType ==
    ASSUME IInv, NEW c \in Callers, CallStep(c) \/ Abandon(c)
    PROVE  TypeOK' /\ LocalsOK'
<1> DEFINE l == caller[c]
<1>1. TypeOK /\ LocalsOK /\ SharedOK /\ caller \in [Callers -> Locals]
  BY DEF IInv, TypeOK, LocalsOK, SharedOK
<1>2. l \in Locals /\ CallerLocals(l)
  BY <1>1 DEF LocalsOK
<1>3. SUFFICES caller'[c] \in Locals /\ CallerLocals(caller'[c]) /\ SharedOK'
  BY <1>1, CallStepLocal, CallerMoves
<1>4. CASE LookupGroup(c)
  <2>1. /\ l.at = "lookup_group" /\ listeners[l.addr] \in GroupIds \cup {None}
        /\ caller'[c] = [l EXCEPT !.at = IF listeners[l.addr] = None THEN "unlisten" ELSE "lookup_config",
                                  !.group = listeners[l.addr]]
    BY <1>4, <1>1, <1>2, NoneAssumption DEF LookupGroup, SharedOK, CallerLocals
  <2>2. caller'[c] \in Locals /\ CallerLocals(caller'[c])
    BY <2>1, <1>1, <1>2, NoneAssumption DEF Locals, CallerSteps, CallerLocals
  <2> QED
    BY <1>4, <1>1, <2>2 DEF LookupGroup, SharedOK, runtimeVars, heapVars
<1>5. CASE LookupConfig(c)
  <2>1. /\ l.at = "lookup_config"
        /\ caller'[c] = [l EXCEPT !.at = IF l.server \in groups[l.group].servers
                                          THEN "snapshot" ELSE "unlisten",
                                  !.group = None]
    BY <1>5, <1>1, <1>2, NoneAssumption DEF LookupConfig
  <2>2. caller'[c] \in Locals /\ CallerLocals(caller'[c])
    BY <2>1, <1>1, <1>2, NoneAssumption DEF Locals, CallerSteps, CallerLocals
  <2> QED
    BY <1>5, <1>1, <2>2 DEF LookupConfig, SharedOK, runtimeVars, heapVars
<1>6. CASE Snapshot(c)
  <2>1. /\ l.at = "snapshot" /\ SnapshotOf(l.server).count \in Nat
        /\ caller'[c] = [l EXCEPT !.at = "update_info",
                                  !.count = SnapshotOf(l.server).count]
    BY <1>6, <1>1, <1>2, NoneAssumption DEF Snapshot, SnapshotOf, NoInfo, Info, SharedOK, CallerLocals
  <2>2. caller'[c] \in Locals /\ CallerLocals(caller'[c])
    BY <2>1, <1>1, <1>2, NoneAssumption DEF Locals, CallerSteps, CallerLocals
  <2> QED
    BY <1>6, <1>1, <2>2 DEF Snapshot, SharedOK, runtimeVars, heapVars
<1>7. CASE UpdateInfo(c)
  <2>1. /\ l.at = "update_info"
        /\ caller'[c] = Idle
    BY <1>7, <1>1, <1>2, NoneAssumption DEF UpdateInfo, Return
  <2>2. caller'[c] \in Locals /\ CallerLocals(caller'[c])
    BY <2>1, <1>1, <1>2, NoneAssumption DEF Locals, CallerSteps, CallerLocals, Idle
  <2>3. infos' \in [Servers -> Info \cup {None}]
    BY <1>7, <1>1, <1>2, NoneAssumption DEF UpdateInfo, SetInfo, SharedOK, Info, Statuses, Locals
  <2> QED
    BY <1>7, <1>1, <2>2, <2>3 DEF UpdateInfo, SharedOK, heapVars
<1>8. CASE Unlisten(c)
  <2>1. /\ l.at = "unlisten" /\ serverListens[l.server] \in Addrs \cup {None}
        /\ caller'[c] = [l EXCEPT !.at = IF serverListens[l.server] = None
                                          THEN "stop_snapshot" ELSE "remove_config",
                                  !.old = serverListens[l.server]]
    BY <1>8, <1>1, <1>2, NoneAssumption DEF Unlisten, SharedOK, CallerLocals
  <2>2. caller'[c] \in Locals /\ CallerLocals(caller'[c])
    BY <2>1, <1>1, <1>2, NoneAssumption DEF Locals, CallerSteps, CallerLocals
  <2> QED
    BY <1>8, <1>1, <2>2 DEF Unlisten, SharedOK, runtimeVars, heapVars
<1>9. CASE RemoveConfig(c)
  <2>1. /\ l.at = "remove_config"
        /\ caller'[c] = [l EXCEPT !.at = caller'[c].at]
        /\ caller'[c].at \in {"stop_snapshot", "drop_listener"}
    <3>1. l.at = "remove_config" /\ \E step \in {"stop_snapshot", "drop_listener"} :
                                      caller' = [caller EXCEPT ![c].at = step]
      BY <1>9 DEF RemoveConfig, Goto
    <3> QED
      BY <3>1, <1>1, <1>2 DEF Locals
  <2>2. caller'[c] \in Locals /\ CallerLocals(caller'[c])
    BY <2>1, <1>1, <1>2, NoneAssumption DEF Locals, CallerSteps, CallerLocals
  <2>3. groups' \in [GroupIds -> Group]
    <3> DEFINE g == listeners[l.old]
    <3>1. l.server \in Servers /\ g \in GroupIds \cup {None}
      BY <2>1, <1>1, <1>2, NoneAssumption DEF CallerLocals, SharedOK
    <3>2. g # None => RemoveServer(groups[g], l.server) \in Group
      BY <3>1, <1>1, RemoveWellFormed DEF SharedOK, IInv, GroupsWellFormed
    <3> QED
      BY <1>9, <1>1, <3>1, <3>2 DEF RemoveConfig, SharedOK
  <2> QED
    BY <1>9, <1>1, <2>2, <2>3 DEF RemoveConfig, SharedOK, runtimeVars
<1>10. CASE DropListener(c)
  <2>1. /\ l.at = "drop_listener"
        /\ caller'[c] = [l EXCEPT !.at = "stop_snapshot"]
    BY <1>10, <1>1, <1>2, NoneAssumption DEF DropListener, Goto
  <2>2. caller'[c] \in Locals /\ CallerLocals(caller'[c])
    BY <2>1, <1>1, <1>2, NoneAssumption DEF Locals, CallerSteps, CallerLocals
  <2> QED
    BY <1>10, <1>1, <1>2, <2>1, <2>2 DEF DropListener, SharedOK, runtimeVars, heapVars, Socket, CallerLocals
<1>11. CASE StopSnapshot(c)
  <2>1. /\ l.at = "stop_snapshot" /\ SnapshotOf(l.server).count \in Nat
        /\ caller'[c] = [l EXCEPT !.at = "stop_info", !.old = None,
                                  !.count = SnapshotOf(l.server).count]
    BY <1>11, <1>1, <1>2, NoneAssumption DEF StopSnapshot, SnapshotOf, NoInfo, Info, SharedOK, CallerLocals
  <2>2. caller'[c] \in Locals /\ CallerLocals(caller'[c])
    BY <2>1, <1>1, <1>2, NoneAssumption DEF Locals, CallerSteps, CallerLocals
  <2> QED
    BY <1>11, <1>1, <2>2 DEF StopSnapshot, SharedOK, runtimeVars, heapVars
<1>12. CASE StopInfo(c)
  <2>1. /\ l.at = "stop_info"
        /\ caller'[c] = IF l.addr # None THEN [l EXCEPT !.at = "starting"] ELSE Idle
    BY <1>12, <1>1, <1>2, NoneAssumption DEF StopInfo, Goto, Return
  <2>2. caller'[c] \in Locals /\ CallerLocals(caller'[c])
    <3>1. CASE l.addr # None
      <4>1. caller'[c] = [l EXCEPT !.at = "starting"]
        BY <2>1, <3>1
      <4>2. l.addr \in Addrs /\ l.server \in Servers
        BY <2>1, <3>1, <1>2 DEF Locals, CallerLocals
      <4> QED
        BY <4>1, <4>2, <1>2 DEF Locals, CallerSteps, CallerLocals
    <3>2. CASE l.addr = None
      BY <2>1, <3>2, NoneAssumption DEF Locals, CallerSteps, CallerLocals, Idle
    <3> QED
      BY <3>1, <3>2
  <2>3. infos' \in [Servers -> Info \cup {None}]
    BY <1>12, <1>1, <1>2, NoneAssumption DEF StopInfo, SetInfo, SharedOK, Info, Statuses, Locals
  <2> QED
    BY <1>12, <1>1, <2>2, <2>3 DEF StopInfo, SharedOK, heapVars
<1>13. CASE Starting(c)
  <2>1. /\ l.at = "starting"
        /\ caller'[c] = [l EXCEPT !.at = "find_group"]
    BY <1>13, <1>1, <1>2, NoneAssumption DEF Starting, Goto
  <2>2. caller'[c] \in Locals /\ CallerLocals(caller'[c])
    BY <2>1, <1>1, <1>2, NoneAssumption DEF Locals, CallerSteps, CallerLocals
  <2>3. infos' \in [Servers -> Info \cup {None}]
    BY <1>13, <1>1, <1>2, NoneAssumption DEF Starting, SetInfo, SharedOK, Info, Statuses, Locals
  <2> QED
    BY <1>13, <1>1, <2>2, <2>3 DEF Starting, SharedOK, heapVars
<1>14. CASE FindGroup(c)
  <2>1. /\ l.at = "find_group" /\ listeners[l.addr] \in GroupIds \cup {None}
        /\ caller'[c] = [l EXCEPT !.at = IF listeners[l.addr] = None
                                          THEN "bind" ELSE "insert_config",
                                  !.group = listeners[l.addr]]
    BY <1>14, <1>1, <1>2, NoneAssumption DEF FindGroup, SharedOK, CallerLocals
  <2>2. caller'[c] \in Locals /\ CallerLocals(caller'[c])
    BY <2>1, <1>1, <1>2, NoneAssumption DEF Locals, CallerSteps, CallerLocals
  <2> QED
    BY <1>14, <1>1, <2>2 DEF FindGroup, SharedOK, runtimeVars, heapVars
<1>15. CASE Bind(c)
  <2>1. /\ l.at = "bind"
        /\ caller'[c] = [l EXCEPT !.at = "register", !.group = caller'[c].group]
        /\ caller'[c].group \in GroupIds
    BY <1>15, <1>1, <1>2, NoneAssumption DEF Bind, Locals
  <2>2. caller'[c] \in Locals /\ CallerLocals(caller'[c])
    BY <2>1, <1>1, <1>2, NoneAssumption DEF Locals, CallerSteps, CallerLocals
  <2> QED
    BY <1>15, <1>1, <1>2, <2>1, <2>2 DEF Bind, SharedOK, runtimeVars, heapVars, Socket, CallerLocals
<1>16. CASE BindError(c)
  <2>1. /\ l.at = "bind"
        /\ caller'[c] = [l EXCEPT !.at = "bind_failed"]
    BY <1>16, <1>1, <1>2, NoneAssumption DEF BindError, Goto
  <2>2. caller'[c] \in Locals /\ CallerLocals(caller'[c])
    BY <2>1, <1>1, <1>2, NoneAssumption DEF Locals, CallerSteps, CallerLocals
  <2> QED
    BY <1>16, <1>1, <2>2 DEF BindError, SharedOK, runtimeVars, heapVars
<1>17. CASE BindFailed(c)
  <2>1. /\ l.at = "bind_failed"
        /\ caller'[c] = Idle
    BY <1>17, <1>1, <1>2, NoneAssumption DEF BindFailed, Return
  <2>2. caller'[c] \in Locals /\ CallerLocals(caller'[c])
    BY <2>1, <1>1, <1>2, NoneAssumption DEF Locals, CallerSteps, CallerLocals, Idle
  <2>3. infos' \in [Servers -> Info \cup {None}]
    BY <1>17, <1>1, <1>2, NoneAssumption DEF BindFailed, SetInfo, SharedOK, Info, Statuses, Locals
  <2> QED
    BY <1>17, <1>1, <2>2, <2>3 DEF BindFailed, SharedOK, heapVars
<1>18. CASE Register(c)
  <2>1. /\ l.at = "register"
        /\ caller'[c] = [l EXCEPT !.at = "insert_config"]
    BY <1>18, <1>1, <1>2, NoneAssumption DEF Register, Goto
  <2>2. caller'[c] \in Locals /\ CallerLocals(caller'[c])
    BY <2>1, <1>1, <1>2, NoneAssumption DEF Locals, CallerSteps, CallerLocals
  <2> QED
    BY <1>18, <1>1, <1>2, <2>1, <2>2 DEF Register, SharedOK, runtimeVars, heapVars, CallerLocals
<1>19. CASE InsertConfig(c)
  <2>1. /\ l.at = "insert_config"
        /\ caller'[c] = [l EXCEPT !.at = "record_listen", !.group = None]
    BY <1>19, <1>1, <1>2, NoneAssumption DEF InsertConfig
  <2>2. caller'[c] \in Locals /\ CallerLocals(caller'[c])
    BY <2>1, <1>1, <1>2, NoneAssumption DEF Locals, CallerSteps, CallerLocals
  <2>3. groups' \in [GroupIds -> Group]
    <3>1. l.server \in Servers /\ l.group \in GroupIds
      BY <2>1, <1>1, <1>2, NoneAssumption DEF CallerLocals
    <3>2. InsertServer(groups[l.group], l.server) \in Group
      BY <3>1, <1>1, InsertWellFormed DEF SharedOK, IInv, GroupsWellFormed
    <3> QED
      BY <1>19, <1>1, <3>1, <3>2 DEF InsertConfig, SharedOK
  <2> QED
    BY <1>19, <1>1, <2>2, <2>3 DEF InsertConfig, SharedOK, runtimeVars
<1>20. CASE RecordListen(c)
  <2>1. /\ l.at = "record_listen"
        /\ caller'[c] = [l EXCEPT !.at = "running"]
    BY <1>20, <1>1, <1>2, NoneAssumption DEF RecordListen, Goto
  <2>2. caller'[c] \in Locals /\ CallerLocals(caller'[c])
    BY <2>1, <1>1, <1>2, NoneAssumption DEF Locals, CallerSteps, CallerLocals
  <2> QED
    BY <1>20, <1>1, <1>2, <2>1, <2>2 DEF RecordListen, SharedOK, runtimeVars, heapVars, CallerLocals
<1>21. CASE Running(c)
  <2>1. /\ l.at = "running"
        /\ caller'[c] = Idle
    BY <1>21, <1>1, <1>2, NoneAssumption DEF Running, Return
  <2>2. caller'[c] \in Locals /\ CallerLocals(caller'[c])
    BY <2>1, <1>1, <1>2, NoneAssumption DEF Locals, CallerSteps, CallerLocals, Idle
  <2>3. infos' \in [Servers -> Info \cup {None}]
    BY <1>21, <1>1, <1>2, NoneAssumption DEF Running, SetInfo, SharedOK, Info, Statuses, Locals
  <2> QED
    BY <1>21, <1>1, <2>2, <2>3 DEF Running, SharedOK, heapVars
<1>22. CASE Abandon(c)
  <2>1. caller'[c] = Idle
    BY <1>22, <1>1 DEF Abandon, Return
  <2>2. caller'[c] \in Locals /\ CallerLocals(caller'[c])
    BY <2>1, NoneAssumption DEF Locals, CallerSteps, CallerLocals, Idle
  <2> QED
    BY <1>22, <1>1, <2>2 DEF Abandon, SharedOK, runtimeVars, heapVars
<1> QED
  BY <1>4, <1>5, <1>6, <1>7, <1>8, <1>9, <1>10, <1>11, <1>12, <1>13, <1>14, <1>15, <1>16,
     <1>17, <1>18, <1>19, <1>20, <1>21, <1>22 DEF CallStep

\* So does a connection's.
LEMMA ConnStepType ==
    ASSUME IInv, NEW k \in Conns, ConnStep(k)
    PROVE  TypeOK' /\ LocalsOK'
<1> USE NoneAssumption DEF IInv, TypeOK, LocalsOK, CallerLocals, ConnLocals,
        runtimeVars, heapVars
<1> USE DEF Connection, ConnSteps, NoConn
<1>1. CASE DefaultServerId(k)
  <2>1. conn'[k] \in Connection /\ ConnLocals(conn'[k])
    BY <1>1 DEF DefaultServerId, Group
  <2> QED
    BY <1>1, <2>1 DEF DefaultServerId, Group
<1>2. CASE Count(k)
  BY <1>2 DEF Count
<1>3. CASE CountInfo(k)
  BY <1>3 DEF CountInfo, Info
<1>4. CASE Finish(k)
  BY <1>4 DEF Finish
<1>5. CASE Uncount(k)
  <2>1. k \in Counted /\ IsFiniteSet(Counted)
    BY <1>5, ConnsAssumption, FS_Subset DEF Uncount, Counted
  <2>2. Cardinality(Counted) \in Nat /\ Cardinality(Counted) # 0
    BY <2>1, FS_CardinalityType, FS_EmptySet
  <2>3. activeConnections - 1 \in Nat
    BY <2>2 DEF CounterExact
  <2> QED
    BY <1>5, <2>3 DEF Uncount
<1>6. CASE UncountInfo(k)
  <2>1. conn'[k] \in Connection /\ ConnLocals(conn'[k])
    BY <1>6 DEF UncountInfo, Info, Statuses, DecrementedInfo
  <2>2. infos' \in [Servers -> Info \cup {None}]
    <3> DEFINE s == conn[k].server
    <3>1. s \in Servers /\ infos \in [Servers -> Info \cup {None}]
      BY <1>6 DEF UncountInfo
    <3>2. infos[s] # None => DecrementedInfo(infos[s]) \in Info
      BY <3>1 DEF DecrementedInfo, Info, Statuses
    <3> QED
      BY <1>6, <3>1, <3>2 DEF UncountInfo
  <2> QED
    BY <1>6, <2>1, <2>2 DEF UncountInfo
<1> QED
  BY <1>1, <1>2, <1>3, <1>4, <1>5, <1>6 DEF ConnStep

\* And every step does.
LEMMA StepType ==
    ASSUME IInv, [Next]_vars
    PROVE  TypeOK' /\ LocalsOK'
<1> USE NoneAssumption DEF runtimeVars, heapVars
<1>1. ASSUME NEW c \in Callers, NEW s \in Servers, Stop(c, s)
      PROVE  TypeOK' /\ LocalsOK'
  <2>1. caller'[c] \in Locals /\ CallerLocals(caller'[c])
    BY <1>1 DEF Stop, IInv, TypeOK, Locals, CallerSteps, CallerLocals, Idle
  <2>2. caller' = [caller EXCEPT ![c] = caller'[c]] /\ calls' \in 0..MaxCalls
    BY <1>1, BoundAssumption DEF Stop, IInv, TypeOK
  <2> QED
    BY <1>1, <2>1, <2>2 DEF Stop, IInv, TypeOK, LocalsOK
<1>2. ASSUME NEW c \in Callers, NEW s \in Servers, NEW a \in Addrs, Apply(c, s, a)
      PROVE  TypeOK' /\ LocalsOK'
  <2>1. caller'[c] \in Locals /\ CallerLocals(caller'[c])
    BY <1>2 DEF Apply, IInv, TypeOK, Locals, CallerSteps, CallerLocals, Idle
  <2>2. caller' = [caller EXCEPT ![c] = caller'[c]] /\ calls' \in 0..MaxCalls
    BY <1>2, BoundAssumption DEF Apply, IInv, TypeOK
  <2> QED
    BY <1>2, <2>1, <2>2 DEF Apply, IInv, TypeOK, LocalsOK
<1>3. ASSUME NEW c \in Callers, CallStep(c) \/ Abandon(c)
      PROVE  TypeOK' /\ LocalsOK'
  BY <1>3, CallStepType
<1>4. ASSUME NEW k \in Conns, Accept(k)
      PROVE  TypeOK' /\ LocalsOK'
  BY <1>4 DEF Accept, IInv, TypeOK, LocalsOK, CallerLocals, ConnLocals, Connection, ConnSteps
<1>5. ASSUME NEW k \in Conns, ConnStep(k)
      PROVE  TypeOK' /\ LocalsOK'
  BY <1>5, ConnStepType
<1>6. ASSUME NEW g \in GroupIds, AcceptError(g) \/ AbortTakesEffect(g)
      PROVE  TypeOK' /\ LocalsOK'
  <2>1. sockets \in [GroupIds -> Socket] /\ UNCHANGED <<caller, conn>>
    BY <1>6 DEF AcceptError, AbortTakesEffect, IInv, TypeOK
  <2>2. sockets' = [sockets EXCEPT ![g].task = "gone"]
    BY <1>6 DEF AcceptError, AbortTakesEffect
  <2>3. sockets' \in [GroupIds -> Socket]
    BY <2>1, <2>2 DEF Socket
  <2> QED
    BY <1>6, <2>1, <2>3 DEF AcceptError, AbortTakesEffect, IInv, TypeOK, LocalsOK
<1>7. CASE UNCHANGED vars
  BY <1>7 DEF vars, IInv, TypeOK, LocalsOK, CallerLocals, ConnLocals
<1> QED
  BY <1>1, <1>2, <1>3, <1>4, <1>5, <1>6, <1>7 DEF Next

\* Every group stays well formed: two steps write one, each through its lemma.
LEMMA StepGroups ==
    ASSUME IInv, [Next]_vars
    PROVE  GroupsWellFormed'
<1> USE NoneAssumption DEF IInv, GroupsWellFormed, runtimeVars, heapVars
<1>1. ASSUME NEW c \in Callers, RemoveConfig(c)
      PROVE  GroupsWellFormed'
  <2> DEFINE g == listeners[caller[c].old]
  <2>1. CASE g = None
    BY <1>1, <2>1 DEF RemoveConfig
  <2>2. CASE g # None
    <3>1. g \in GroupIds /\ groups \in [GroupIds -> Group] /\ caller[c].server \in Servers
      BY <1>1, <2>2 DEF RemoveConfig, TypeOK, LocalsOK, CallerLocals
    <3>2. WellFormed(RemoveServer(groups[g], caller[c].server))
      BY <3>1, RemoveWellFormed
    <3>3. groups' = [groups EXCEPT ![g] = RemoveServer(groups[g], caller[c].server)]
      BY <1>1, <2>2 DEF RemoveConfig
    <3> QED
      BY <3>1, <3>2, <3>3
  <2> QED
    BY <2>1, <2>2
<1>2. ASSUME NEW c \in Callers, InsertConfig(c)
      PROVE  GroupsWellFormed'
  <2> DEFINE g == caller[c].group
  <2>1. g \in GroupIds /\ groups \in [GroupIds -> Group] /\ caller[c].server \in Servers
    BY <1>2 DEF InsertConfig, TypeOK, LocalsOK, CallerLocals
  <2>2. WellFormed(InsertServer(groups[g], caller[c].server))
    BY <2>1, InsertWellFormed
  <2>3. groups' = [groups EXCEPT ![g] = InsertServer(groups[g], caller[c].server)]
    BY <1>2 DEF InsertConfig
  <2> QED
    BY <2>1, <2>2, <2>3
<1>3. ASSUME UNCHANGED groups
      PROVE  GroupsWellFormed'
  BY <1>3
<1>4. ASSUME NEW c \in Callers, CallStep(c) \/ Abandon(c), ~RemoveConfig(c), ~InsertConfig(c)
      PROVE  UNCHANGED groups
  BY <1>4 DEF CallStep, LookupGroup, LookupConfig, Snapshot, UpdateInfo, Unlisten,
      DropListener, StopSnapshot, StopInfo, Starting, FindGroup, Bind, BindError,
      BindFailed, Register, RecordListen, Running, Abandon
<1>5. ASSUME NEW k \in Conns, Accept(k) \/ ConnStep(k)
      PROVE  UNCHANGED groups
  BY <1>5 DEF Accept, ConnStep, DefaultServerId, Count, CountInfo, Finish, Uncount, UncountInfo
<1>6. ASSUME NEW g \in GroupIds, AcceptError(g) \/ AbortTakesEffect(g)
      PROVE  UNCHANGED groups
  BY <1>6 DEF AcceptError, AbortTakesEffect
<1>7. ASSUME NEW c \in Callers, NEW s \in Servers,
             Stop(c, s) \/ \E a \in Addrs : Apply(c, s, a)
      PROVE  UNCHANGED groups
  BY <1>7 DEF Stop, Apply
<1>8. CASE UNCHANGED vars
  BY <1>8, <1>3 DEF vars
<1> QED
  BY <1>1, <1>2, <1>3, <1>4, <1>5, <1>6, <1>7, <1>8 DEF Next

\* The counter follows the set of counted connections: a connection enters it
\* in Count and leaves it in Uncount, the two steps that write the atomic.
LEMMA StepCounter ==
    ASSUME IInv, [Next]_vars
    PROVE  CounterExact'
<1> USE DEF IInv, runtimeVars, heapVars
<1>1. conn \in [Conns -> Connection] /\ IsFiniteSet(Counted)
  BY ConnsAssumption, FS_Subset DEF TypeOK, Counted
<1>2. ASSUME NEW k \in Conns, Count(k)
      PROVE  CounterExact'
  <2>1. k \notin Counted /\ Counted' = Counted \cup {k}
    BY <1>1, <1>2 DEF Count, Counted, Connection
  <2>2. Cardinality(Counted') = Cardinality(Counted) + 1
    BY <1>1, <2>1, FS_AddElement
  <2> QED
    BY <1>2, <2>2 DEF Count, CounterExact
<1>3. ASSUME NEW k \in Conns, Uncount(k)
      PROVE  CounterExact'
  <2>1. k \in Counted /\ Counted' = Counted \ {k}
    BY <1>1, <1>3 DEF Uncount, Counted, Connection
  <2>2. Cardinality(Counted') = Cardinality(Counted) - 1
    BY <1>1, <2>1, FS_RemoveElement
  <2> QED
    BY <1>3, <2>2 DEF Uncount, CounterExact
<1>4. ASSUME Counted' = Counted, UNCHANGED activeConnections
      PROVE  CounterExact'
  BY <1>4 DEF CounterExact
<1>5. ASSUME NEW k \in Conns, Accept(k) \/ (ConnStep(k) /\ ~Count(k) /\ ~Uncount(k))
      PROVE  Counted' = Counted /\ UNCHANGED activeConnections
  <2>1. CASE Accept(k)
    BY <1>1, <2>1 DEF Accept, Counted, Connection
  <2>2. CASE DefaultServerId(k)
    BY <1>1, <2>2 DEF DefaultServerId, Counted, Connection
  <2>3. CASE CountInfo(k)
    BY <1>1, <2>3, NoneAssumption DEF CountInfo, Counted, Connection, LocalsOK, ConnLocals
  <2>4. CASE Finish(k)
    BY <1>1, <2>4 DEF Finish, Counted, Connection, NoConn
  <2>5. CASE UncountInfo(k)
    BY <1>1, <2>5 DEF UncountInfo, Counted, Connection, NoConn
  <2> QED
    BY <1>5, <2>1, <2>2, <2>3, <2>4, <2>5 DEF ConnStep
<1>6. ASSUME UNCHANGED <<conn, activeConnections>>
      PROVE  CounterExact'
  BY <1>6, <1>4 DEF Counted
<1>7. ASSUME NEW c \in Callers, CallStep(c) \/ Abandon(c)
      PROVE  UNCHANGED <<conn, activeConnections>>
  BY <1>7 DEF CallStep, LookupGroup, LookupConfig, Snapshot, UpdateInfo, Unlisten,
      RemoveConfig, DropListener, StopSnapshot, StopInfo, Starting, FindGroup, Bind,
      BindError, BindFailed, Register, InsertConfig, RecordListen, Running, Abandon
<1>8. ASSUME NEW c \in Callers, NEW s \in Servers,
             Stop(c, s) \/ \E a \in Addrs : Apply(c, s, a)
      PROVE  UNCHANGED <<conn, activeConnections>>
  BY <1>8 DEF Stop, Apply
<1>9. ASSUME NEW g \in GroupIds, AcceptError(g) \/ AbortTakesEffect(g)
      PROVE  UNCHANGED <<conn, activeConnections>>
  BY <1>9 DEF AcceptError, AbortTakesEffect
<1>10. CASE UNCHANGED vars
  BY <1>10, <1>6 DEF vars
<1> QED
  BY <1>2, <1>3, <1>4, <1>5, <1>6, <1>7, <1>8, <1>9, <1>10 DEF Next

----------------------------------------------------------------------------
\* The empty runtime satisfies the invariant.
LEMMA InitIInv == Init => IInv
<1> SUFFICES ASSUME Init PROVE IInv
  OBVIOUS
<1>1. TypeOK
  BY NoneAssumption, BoundAssumption
     DEF Init, TypeOK, Group, EmptyGroup, Socket, Locals, Idle, CallerSteps, Connection,
         NoConn, ConnSteps
<1>2. LocalsOK
  BY DEF Init, LocalsOK, CallerLocals, ConnLocals, Idle, NoConn
<1>3. CounterExact
  <2>1. Counted = {}
    BY DEF Init, Counted, NoConn
  <2> QED
    BY <2>1, FS_EmptySet DEF Init, CounterExact
<1>4. GroupsWellFormed
  BY DEF Init, GroupsWellFormed, WellFormed, EmptyGroup
<1> QED
  BY <1>1, <1>2, <1>3, <1>4 DEF IInv

\* The invariant holds at every step of every behaviour.
LEMMA Invariant == Spec => []IInv
<1>1. IInv /\ [Next]_vars => IInv'
  BY StepType, StepGroups, StepCounter DEF IInv
<1> QED
  BY InitIInv, <1>1, PTL DEF Spec

\* Every variable keeps its type: in particular no call ever looks a group up
\* under a missing id, and the atomic is never negative.
THEOREM TypeCorrect == Spec => []TypeOK
<1>1. IInv => TypeOK
  BY DEF IInv
<1> QED
  BY <1>1, Invariant, PTL

\* The global connection counter is exact under every interleaving of calls,
\* accepts and connection tasks (increment_connection, decrement_connection).
THEOREM CounterIsExact == Spec => []CounterExact
<1>1. IInv => CounterExact
  BY DEF IInv
<1> QED
  BY <1>1, Invariant, PTL

\* The order, the map and the default of every listener group stay in step
\* (insert_server_config, remove_server_config).
THEOREM GroupsStayWellFormed == Spec => []GroupsWellFormed
<1>1. IInv => GroupsWellFormed
  BY DEF IInv
<1> QED
  BY <1>1, Invariant, PTL
----------------------------------------------------------------------------
(* The sockets, while accept never fails.  That every live socket can be    *)
(* reached needs three more facts: two open sockets never share an address  *)
(* (bind refuses it), a call that has bound a socket is the only one that   *)
(* holds it, and nobody has registered a listener at its address meanwhile. *)

\* The call has bound a listener and not yet put it into the map.
Holds(c, g) == caller[c].at = "register" /\ caller[c].group = g

RegisteredAreLive ==
    \A a \in Addrs : listeners[a] # None =>
        sockets[listeners[a]] = [addr |-> a, task |-> "running"]
LiveAreReachable ==
    \A g \in GroupIds : sockets[g].task = "running" =>
        listeners[sockets[g].addr] = g \/ \E c \in Callers : Holds(c, g)
OneSocketPerAddr ==
    \A g, h \in GroupIds : Open(g) /\ Open(h) /\ sockets[g].addr = sockets[h].addr => g = h
HeldAreFresh ==
    \A c \in Callers : caller[c].at = "register" =>
        /\ sockets[caller[c].group] = [addr |-> caller[c].addr, task |-> "running"]
        /\ listeners[caller[c].addr] = None
OneHolder == \A c, d \in Callers, g \in GroupIds : Holds(c, g) /\ Holds(d, g) => c = d

SocketInv ==
    /\ RegisteredAreLive
    /\ LiveAreReachable
    /\ OneSocketPerAddr
    /\ HeldAreFresh
    /\ OneHolder

\* What matters of a step that neither binds, registers nor drops a listener.
SameListeners ==
    /\ UNCHANGED <<listeners, sockets>>
    /\ \A c \in Callers, g \in GroupIds : Holds(c, g)' <=> Holds(c, g)
    /\ \A c \in Callers : caller'[c].at = "register" =>
         caller[c].at = "register" /\ caller'[c].addr = caller[c].addr
                                   /\ caller'[c].group = caller[c].group

\* Such a step keeps the invariant.
LEMMA SameListenersKept ==
    ASSUME IInv, SocketInv, SameListeners
    PROVE  SocketInv'
<1>1. (RegisteredAreLive /\ OneSocketPerAddr)'
  BY DEF SameListeners, SocketInv, RegisteredAreLive, OneSocketPerAddr, Open
<1>2. LiveAreReachable'
  BY DEF SameListeners, SocketInv, LiveAreReachable
<1>3. HeldAreFresh'
  BY DEF SameListeners, SocketInv, HeldAreFresh
<1>4. OneHolder'
  BY DEF SameListeners, SocketInv, OneHolder
<1> QED
  BY <1>1, <1>2, <1>3, <1>4 DEF SocketInv

\* Binding: the address is free, so no open socket and no registered listener
\* is there, and the group is new, so no call holds it.
LEMMA BindKeepsSockets ==
    ASSUME IInv, SocketInv, NEW c \in Callers, Bind(c)
    PROVE  SocketInv'
<1> DEFINE a == caller[c].addr
<1>1. PICK g \in GroupIds :
        /\ sockets[g].task = "none"
        /\ sockets' = [sockets EXCEPT ![g] = [addr |-> a, task |-> "running"]]
        /\ caller' = [caller EXCEPT ![c].at = "register", ![c].group = g]
  BY DEF Bind
<1>2. /\ caller[c].at = "bind" /\ a \in Addrs /\ UNCHANGED listeners
      /\ \A h \in GroupIds : sockets[h].addr = a => ~Open(h)
      /\ sockets \in [GroupIds -> Socket] /\ caller \in [Callers -> Locals]
      /\ listeners \in [Addrs -> GroupIds \cup {None}]
  BY DEF Bind, runtimeVars, IInv, TypeOK, LocalsOK, CallerLocals
<1>3. /\ sockets'[g] = [addr |-> a, task |-> "running"]
      /\ \A h \in GroupIds \ {g} : sockets'[h] = sockets[h]
      /\ caller'[c].at = "register" /\ caller'[c].group = g /\ caller'[c].addr = a
      /\ \A d \in Callers \ {c} : caller'[d] = caller[d]
  BY <1>1, <1>2 DEF Locals
<1>4. \A b \in Addrs : listeners[b] # g
  <2> SUFFICES ASSUME NEW b \in Addrs, listeners[b] = g PROVE FALSE
    OBVIOUS
  <2>1. sockets[g] = [addr |-> b, task |-> "running"]
    BY NoneAssumption DEF SocketInv, RegisteredAreLive
  <2> QED
    BY <1>1, <2>1
<1>5. \A d \in Callers : ~Holds(d, g)
  <2> SUFFICES ASSUME NEW d \in Callers, Holds(d, g) PROVE FALSE
    OBVIOUS
  <2>1. sockets[g] = [addr |-> caller[d].addr, task |-> "running"]
    BY DEF SocketInv, HeldAreFresh, Holds
  <2> QED
    BY <1>1, <2>1
<1>6. listeners[a] = None
  <2>1. listeners[a] # None => sockets[listeners[a]] = [addr |-> a, task |-> "running"]
    BY <1>2 DEF SocketInv, RegisteredAreLive
  <2> QED
    BY <1>2, <2>1 DEF Open
<1>7. RegisteredAreLive'
  BY <1>2, <1>3, <1>4 DEF SocketInv, RegisteredAreLive
<1>8. LiveAreReachable'
  <2> SUFFICES ASSUME NEW h \in GroupIds, sockets'[h].task = "running"
               PROVE  listeners'[sockets'[h].addr] = h \/ \E d \in Callers : Holds(d, h)'
    BY DEF LiveAreReachable
  <2>1. CASE h = g
    BY <1>3, <2>1 DEF Holds
  <2>2. CASE h # g
    <3>1. listeners[sockets[h].addr] = h \/ \E d \in Callers : Holds(d, h)
      BY <1>3, <2>2 DEF SocketInv, LiveAreReachable
    <3>2. ASSUME NEW d \in Callers, Holds(d, h) PROVE Holds(d, h)'
      BY <1>2, <1>3, <3>2 DEF Holds
    <3> QED
      BY <1>2, <1>3, <2>2, <3>1, <3>2
  <2> QED
    BY <2>1, <2>2
<1>9. OneSocketPerAddr'
  BY <1>2, <1>3 DEF SocketInv, OneSocketPerAddr, Open
<1>10. HeldAreFresh'
  <2> SUFFICES ASSUME NEW d \in Callers, caller'[d].at = "register"
               PROVE  /\ sockets'[caller'[d].group] = [addr |-> caller'[d].addr, task |-> "running"]
                      /\ listeners'[caller'[d].addr] = None
    BY DEF HeldAreFresh
  <2>1. CASE d = c
    BY <1>2, <1>3, <1>6, <2>1
  <2>2. CASE d # c
    <3>1. caller[d].at = "register" /\ caller[d].group \in GroupIds /\ caller[d].group # g
      BY <1>3, <1>5, <2>2 DEF Holds, IInv, LocalsOK, CallerLocals
    <3> QED
      BY <1>2, <1>3, <2>2, <3>1 DEF SocketInv, HeldAreFresh
  <2> QED
    BY <2>1, <2>2
<1>11. OneHolder'
  BY <1>3, <1>5 DEF SocketInv, OneHolder, Holds
<1> QED
  BY <1>7, <1>8, <1>9, <1>10, <1>11 DEF SocketInv

\* Registering: the map has no listener at the address, so none is detached.
LEMMA RegisterKeepsSockets ==
    ASSUME IInv, SocketInv, NEW c \in Callers, Register(c)
    PROVE  SocketInv'
<1> DEFINE a == caller[c].addr
           g == caller[c].group
<1>1. /\ caller[c].at = "register" /\ a \in Addrs /\ g \in GroupIds /\ UNCHANGED sockets
      /\ caller \in [Callers -> Locals] /\ listeners \in [Addrs -> GroupIds \cup {None}]
      /\ sockets \in [GroupIds -> Socket]
  BY DEF Register, heapVars, IInv, TypeOK, LocalsOK, CallerLocals
<1>2. /\ listeners'[a] = g /\ \A b \in Addrs \ {a} : listeners'[b] = listeners[b]
      /\ caller'[c].at = "insert_config" /\ \A d \in Callers \ {c} : caller'[d] = caller[d]
  BY <1>1 DEF Register, Goto, Locals
<1>3. sockets[g] = [addr |-> a, task |-> "running"] /\ listeners[a] = None
  BY <1>1 DEF SocketInv, HeldAreFresh
<1>4. RegisteredAreLive' /\ OneSocketPerAddr'
  BY <1>1, <1>2, <1>3 DEF SocketInv, RegisteredAreLive, OneSocketPerAddr, Open
<1>5. LiveAreReachable'
  <2> SUFFICES ASSUME NEW h \in GroupIds, sockets[h].task = "running"
               PROVE  listeners'[sockets[h].addr] = h \/ \E d \in Callers : Holds(d, h)'
    BY <1>1 DEF LiveAreReachable
  <2>1. CASE h = g
    BY <1>2, <1>3, <2>1
  <2>2. CASE h # g
    <3>1. sockets[h].addr # a
      BY <1>1, <1>3, <2>2 DEF SocketInv, OneSocketPerAddr, Open
    <3>2. CASE \E d \in Callers : Holds(d, h)
      BY <1>2, <2>2, <3>2 DEF Holds
    <3>3. CASE listeners[sockets[h].addr] = h
      <4>1. sockets[h].addr \in Addrs \cup {None} /\ h # None
        BY <1>1, NoneAssumption DEF Socket
      <4>2. sockets[h].addr \in Addrs => listeners'[sockets[h].addr] = h
        BY <1>2, <3>1, <3>3
      <4>3. listeners' = [listeners EXCEPT ![a] = g]
        BY DEF Register
      <4>4. listeners'[sockets[h].addr] = listeners[sockets[h].addr]
        BY <1>1, <3>1, <4>3, <4>1
      <4> QED
        BY <3>3, <4>4
    <3> QED
      BY <3>2, <3>3 DEF SocketInv, LiveAreReachable
  <2> QED
    BY <2>1, <2>2
<1>6. HeldAreFresh'
  <2> SUFFICES ASSUME NEW d \in Callers, caller'[d].at = "register"
               PROVE  /\ sockets[caller'[d].group] = [addr |-> caller'[d].addr, task |-> "running"]
                      /\ listeners'[caller'[d].addr] = None
    BY <1>1 DEF HeldAreFresh
  <2>1. d # c /\ caller'[d] = caller[d] /\ caller[d].at = "register"
    BY <1>2
  <2>2. caller[d].group \in GroupIds /\ caller[d].addr \in Addrs
    BY <2>1 DEF IInv, LocalsOK, CallerLocals
  <2>3. /\ sockets[caller[d].group] = [addr |-> caller[d].addr, task |-> "running"]
        /\ listeners[caller[d].addr] = None
    BY <2>1 DEF SocketInv, HeldAreFresh
  <2>4. caller[d].group # g
    BY <1>1, <2>1, <2>2 DEF SocketInv, OneHolder, Holds
  <2>5. caller[d].addr # a
    BY <1>1, <1>3, <2>2, <2>3, <2>4 DEF SocketInv, OneSocketPerAddr, Open
  <2> QED
    BY <1>2, <2>1, <2>2, <2>3, <2>5
<1>7. OneHolder'
  BY <1>2 DEF SocketInv, OneHolder, Holds
<1> QED
  BY <1>4, <1>5, <1>6, <1>7 DEF SocketInv

\* Dropping the listener of an address stops the one socket that was open there.
LEMMA DropKeepsSockets ==
    ASSUME IInv, SocketInv, NEW c \in Callers, DropListener(c)
    PROVE  SocketInv'
<1> DEFINE a == caller[c].old
           g == listeners[a]
<1>1. /\ caller[c].at = "drop_listener" /\ a \in Addrs
      /\ caller \in [Callers -> Locals] /\ listeners \in [Addrs -> GroupIds \cup {None}]
      /\ sockets \in [GroupIds -> Socket]
  BY DEF DropListener, IInv, TypeOK, LocalsOK, CallerLocals
<1>2. /\ listeners' = [listeners EXCEPT ![a] = None]
      /\ caller'[c].at = "stop_snapshot" /\ \A d \in Callers \ {c} : caller'[d] = caller[d]
  BY <1>1 DEF DropListener, Goto, Locals
<1>3. /\ g # None => g \in GroupIds /\ sockets[g] = [addr |-> a, task |-> "running"]
      /\ sockets' = IF g # None THEN [sockets EXCEPT ![g].task = "aborting"] ELSE sockets
  BY <1>1 DEF DropListener, SocketInv, RegisteredAreLive
<1>4. /\ \A h \in GroupIds : h # g => sockets'[h] = sockets[h]
      /\ \A h \in GroupIds : sockets'[h].addr = sockets[h].addr /\ (Open(h)' <=> Open(h))
      /\ \A h \in GroupIds : sockets'[h].task = "running" => h # g
  BY <1>1, <1>3, NoneAssumption DEF Socket, Open
<1>5. RegisteredAreLive'
  <2> SUFFICES ASSUME NEW b \in Addrs, listeners'[b] # None
               PROVE  sockets'[listeners'[b]] = [addr |-> b, task |-> "running"]
    BY DEF RegisteredAreLive
  <2>1. b # a /\ listeners'[b] = listeners[b] /\ listeners[b] \in GroupIds
    BY <1>1, <1>2
  <2>2. sockets[listeners[b]] = [addr |-> b, task |-> "running"]
    BY <2>1 DEF SocketInv, RegisteredAreLive
  <2>3. listeners[b] # g
    BY <1>3, <2>1, <2>2
  <2> QED
    BY <1>4, <2>1, <2>2, <2>3
<1>6. LiveAreReachable'
  <2> SUFFICES ASSUME NEW h \in GroupIds, sockets'[h].task = "running"
               PROVE  listeners'[sockets'[h].addr] = h \/ \E d \in Callers : Holds(d, h)'
    BY DEF LiveAreReachable
  <2>1. h # g /\ sockets'[h] = sockets[h]
    BY <1>4
  <2>2. CASE \E d \in Callers : Holds(d, h)
    BY <1>1, <1>2, <2>2 DEF Holds
  <2>3. CASE listeners[sockets[h].addr] = h
    <3>1. sockets[h].addr # a
      BY <2>1, <2>3
    <3> QED
      BY <1>1, <1>2, <2>1, <2>3, <3>1
  <2> QED
    BY <2>1, <2>2, <2>3 DEF SocketInv, LiveAreReachable
<1>7. OneSocketPerAddr'
  BY <1>4 DEF SocketInv, OneSocketPerAddr
<1>8. HeldAreFresh'
  <2> SUFFICES ASSUME NEW d \in Callers, caller'[d].at = "register"
               PROVE  /\ sockets'[caller'[d].group] = [addr |-> caller'[d].addr, task |-> "running"]
                      /\ listeners'[caller'[d].addr] = None
    BY DEF HeldAreFresh
  <2>1. caller'[d] = caller[d] /\ caller[d].at = "register"
    BY <1>2
  <2>2. caller[d].group \in GroupIds /\ caller[d].addr \in Addrs
    BY <2>1 DEF IInv, LocalsOK, CallerLocals
  <2>3. /\ sockets[caller[d].group] = [addr |-> caller[d].addr, task |-> "running"]
        /\ listeners[caller[d].addr] = None
    BY <2>1 DEF SocketInv, HeldAreFresh
  <2>4. caller[d].group # g
    BY <1>3, <2>2, <2>3, NoneAssumption
  <2> QED
    BY <1>1, <1>2, <1>4, <2>1, <2>2, <2>3, <2>4
<1>9. OneHolder'
  BY <1>2 DEF SocketInv, OneHolder, Holds
<1> QED
  BY <1>5, <1>6, <1>7, <1>8, <1>9 DEF SocketInv

\* The abort takes effect on a socket that neither the map nor a call holds.
LEMMA AbortKeepsSockets ==
    ASSUME IInv, SocketInv, NEW g \in GroupIds, AbortTakesEffect(g)
    PROVE  SocketInv'
<1>1. /\ sockets \in [GroupIds -> Socket] /\ sockets[g].task = "aborting"
      /\ sockets' = [sockets EXCEPT ![g].task = "gone"]
      /\ UNCHANGED <<listeners, caller>> /\ listeners \in [Addrs -> GroupIds \cup {None}]
  BY DEF AbortTakesEffect, runtimeVars, IInv, TypeOK
<1>2. /\ \A h \in GroupIds : h # g => sockets'[h] = sockets[h]
      /\ \A h \in GroupIds : sockets'[h].addr = sockets[h].addr /\ (Open(h)' => Open(h))
      /\ sockets'[g].task = "gone"
  BY <1>1 DEF Socket, Open
<1>3. RegisteredAreLive'
  <2>1. ASSUME NEW a \in Addrs, listeners[a] # None
        PROVE  listeners[a] \in GroupIds \ {g}
    <3>1. sockets[listeners[a]] = [addr |-> a, task |-> "running"]
      BY <2>1 DEF SocketInv, RegisteredAreLive
    <3>2. sockets[listeners[a]].task = "running"
      BY <3>1
    <3> QED
      BY <1>1, <2>1, <3>2
  <2> QED
    BY <1>1, <1>2, <2>1 DEF SocketInv, RegisteredAreLive
<1>4. LiveAreReachable'
  BY <1>1, <1>2 DEF SocketInv, LiveAreReachable, Holds
<1>5. OneSocketPerAddr'
  BY <1>2 DEF SocketInv, OneSocketPerAddr
<1>6. HeldAreFresh'
  <2>1. ASSUME NEW c \in Callers, caller[c].at = "register"
        PROVE  caller[c].group \in GroupIds \ {g}
    <3>1. sockets[caller[c].group] = [addr |-> caller[c].addr, task |-> "running"]
      BY <2>1 DEF SocketInv, HeldAreFresh
    <3>2. sockets[caller[c].group].task = "running"
      BY <3>1
    <3> QED
      BY <1>1, <2>1, <3>2 DEF IInv, LocalsOK, CallerLocals
  <2> QED
    BY <1>1, <1>2, <2>1 DEF SocketInv, HeldAreFresh
<1>7. OneHolder'
  BY <1>1 DEF SocketInv, OneHolder, Holds
<1> QED
  BY <1>3, <1>4, <1>5, <1>6, <1>7 DEF SocketInv

\* Every other step of a call leaves the listeners as they are.
LEMMA OtherCallSteps ==
    ASSUME IInv, NEW c \in Callers, CallStep(c) \/ Abandon(c),
           ~Bind(c), ~Register(c), ~DropListener(c)
    PROVE  SameListeners
<1>1. caller \in [Callers -> Locals] /\ caller[c] \in Locals
  BY DEF IInv, TypeOK
<1>2. caller' = [caller EXCEPT ![c] = caller'[c]]
  BY <1>1, CallStepLocal
<1>3. caller[c].at # "register" /\ caller'[c].at # "register" /\ UNCHANGED <<listeners, sockets>>
  BY <1>1 DEF CallStep, LookupGroup, LookupConfig, Snapshot, UpdateInfo, Unlisten, RemoveConfig,
      StopSnapshot, StopInfo, Starting, FindGroup, BindError, BindFailed,
      InsertConfig, RecordListen, Running, Abandon, Goto, Return, Locals, Idle,
      runtimeVars, heapVars
<1> QED
  BY <1>1, <1>2, <1>3 DEF SameListeners, Holds

\* Every step keeps it while accept does not fail.
LEMMA SocketStep ==
    ASSUME AcceptMayFail = FALSE, IInv, SocketInv, [Next]_vars
    PROVE  SocketInv'
<1>1. ASSUME NEW c \in Callers, CallStep(c) \/ Abandon(c)
      PROVE  SocketInv'
  BY <1>1, BindKeepsSockets, RegisterKeepsSockets, DropKeepsSockets, OtherCallSteps,
     SameListenersKept
<1>2. ASSUME NEW c \in Callers, NEW s \in Servers,
             Stop(c, s) \/ \E a \in Addrs : Apply(c, s, a)
      PROVE  SocketInv'
  <2>1. SameListeners
    <3>1. caller \in [Callers -> Locals] /\ UNCHANGED <<listeners, sockets>>
      BY <1>2 DEF Stop, Apply, runtimeVars, heapVars, IInv, TypeOK
    <3>2. /\ caller[c].at = "idle" /\ caller'[c].at # "register"
          /\ \A d \in Callers \ {c} : caller'[d] = caller[d]
      BY <1>2, <3>1 DEF Stop, Apply, Idle
    <3> QED
      BY <3>1, <3>2 DEF SameListeners, Holds
  <2> QED
    BY <2>1, SameListenersKept
<1>3. ASSUME UNCHANGED <<listeners, sockets, caller>>
      PROVE  SocketInv'
  <2>1. SameListeners
    BY <1>3 DEF SameListeners, Holds
  <2> QED
    BY <2>1, SameListenersKept
<1>4. ASSUME NEW k \in Conns, Accept(k) \/ ConnStep(k)
      PROVE  UNCHANGED <<listeners, sockets, caller>>
  BY <1>4 DEF Accept, ConnStep, DefaultServerId, Count, CountInfo, Finish, Uncount, UncountInfo,
      runtimeVars, heapVars
<1>5. ASSUME NEW g \in GroupIds, AcceptError(g) \/ AbortTakesEffect(g)
      PROVE  SocketInv'
  BY <1>5, AbortKeepsSockets DEF AcceptError
<1>6. CASE UNCHANGED vars
  BY <1>6, <1>3 DEF vars, runtimeVars, heapVars
<1> QED
  BY <1>1, <1>2, <1>3, <1>4, <1>5, <1>6 DEF Next

\* As long as accept does not fail, the registered listeners are exactly the
\* live accept loops, under every interleaving of apply and stop: no handle in
\* the map is dead and no loop is left that nobody can abort.
THEOREM ListenersOwnTheirSockets ==
    ASSUME AcceptMayFail = FALSE
    PROVE  Spec => []ListenersOwnSockets
<1>1. Init => SocketInv
  BY NoneAssumption DEF Init, SocketInv, RegisteredAreLive, LiveAreReachable, OneSocketPerAddr,
      HeldAreFresh, OneHolder, Holds, Open, Idle
<1>2. IInv /\ SocketInv /\ [Next]_vars => SocketInv'
  BY SocketStep
<1>3. SocketInv => ListenersOwnSockets
  BY DEF SocketInv, RegisteredAreLive, LiveAreReachable, Holds, ListenersOwnSockets
<1> QED
  BY <1>1, <1>2, <1>3, Invariant, PTL DEF Spec
----------------------------------------------------------------------------
(* One admin handler at a time.  A server is routed to where it is recorded *)
(* to listen, except between the two steps that move it, and what is        *)
(* reported of a server that no call is for says whether it is recorded.    *)

\* A request at address a may be answered with server s.
Routes(s, a) == listeners[a] # None /\ s \in groups[listeners[a]].servers

\* The call has forgotten a but not yet left it, or joined it but not recorded it.
Moving(c, a) == \/ caller[c].at = "remove_config" /\ caller[c].old = a
                \/ caller[c].at = "record_listen" /\ caller[c].addr = a

RegisteredWasBound ==
    \A a \in Addrs : listeners[a] # None =>
        sockets[listeners[a]].addr = a /\ sockets[listeners[a]].task # "none"
UsedIsRegistered ==
    \A g \in GroupIds : groups[g].servers # {} =>
        sockets[g].addr \in Addrs /\ listeners[sockets[g].addr] = g
RoutedWhereRecorded(c) ==
    \A s \in Servers, a \in Addrs :
        Routes(s, a) <=> serverListens[s] = a \/ (caller[c].server = s /\ Moving(c, a))
StatusIsRecord(c) ==
    \A s \in Servers :
        \/ caller[c].at # "idle" /\ caller[c].server = s
        \/ StatusOf(s) = "running" <=> serverListens[s] # None

\* What the call knows of the server it is for and of the listener it handles.
CallKnows(c) ==
    LET l == caller[c] IN
    /\ l.at \in {"lookup_group", "lookup_config", "snapshot", "update_info", "running"}
         => serverListens[l.server] = l.addr
    /\ l.at \in {"remove_config", "drop_listener", "stop_snapshot", "stop_info", "starting",
                 "find_group", "bind", "bind_failed", "register", "insert_config", "record_listen"}
         => serverListens[l.server] = None
    /\ l.at \in {"lookup_group", "lookup_config", "snapshot"} => StatusOf(l.server) = "running"
    /\ l.at \in {"find_group", "bind"} => StatusOf(l.server) # "running"
    /\ l.at = "drop_listener" => listeners[l.old] # None /\ groups[listeners[l.old]].servers = {}
    /\ l.at \in {"bind", "register"} => listeners[l.addr] = None
    /\ l.at = "register" => /\ sockets[l.group].addr = l.addr /\ sockets[l.group].task # "none"
                            /\ groups[l.group].servers = {}
    /\ l.at = "insert_config" => listeners[l.addr] = l.group

AdminInv(c) ==
    /\ RegisteredWasBound
    /\ UsedIsRegistered
    /\ RoutedWhereRecorded(c)
    /\ StatusIsRecord(c)
    /\ CallKnows(c)

\* A step that touches neither the listeners nor the groups, of a call that is
\* not moving its server, leaves the routes as they are.
LEMMA RoutesKept ==
    ASSUME NEW c \in Callers, AdminInv(c), UNCHANGED <<listeners, serverListens, groups, sockets>>,
           caller[c].at \notin {"remove_config", "record_listen"},
           caller'[c].at \notin {"remove_config", "record_listen"}
    PROVE  (RegisteredWasBound /\ UsedIsRegistered /\ RoutedWhereRecorded(c))'
<1>1. (RegisteredWasBound /\ UsedIsRegistered)'
  BY DEF AdminInv, RegisteredWasBound, UsedIsRegistered
<1>2. RoutedWhereRecorded(c)'
  BY DEF AdminInv, RoutedWhereRecorded, Routes, Moving
<1> QED
  BY <1>1, <1>2

\* While the call goes on, nothing has to be reported of its server.
LEMMA ReportsKept ==
    ASSUME NEW c \in Callers, AdminInv(c), caller'[c].at # "idle",
           caller[c].at = "idle" \/ caller'[c].server = caller[c].server,
           \A s \in Servers \ {caller'[c].server} :
               infos'[s] = infos[s] /\ serverListens'[s] = serverListens[s]
    PROVE  StatusIsRecord(c)'
<1> SUFFICES ASSUME NEW s \in Servers, s # caller'[c].server
             PROVE  (StatusOf(s) = "running")' <=> (serverListens[s] # None)'
  BY DEF StatusIsRecord
<1>1. StatusOf(s) = "running" <=> serverListens[s] # None
  BY DEF AdminInv, StatusIsRecord
<1>2. StatusOf(s)' = StatusOf(s)
  BY DEF StatusOf, SnapshotOf
<1> QED
  BY <1>1, <1>2

\* When it ends, its server must be reported as it is recorded.
LEMMA ReportsClosed ==
    ASSUME NEW c \in Callers, AdminInv(c), caller[c].at # "idle",
           UNCHANGED serverListens,
           \A s \in Servers \ {caller[c].server} : infos'[s] = infos[s],
           LET s == caller[c].server IN
             (IF infos'[s] = None THEN NoInfo ELSE infos'[s]).status = "running"
               <=> serverListens[s] # None
    PROVE  StatusIsRecord(c)'
<1> SUFFICES ASSUME NEW s \in Servers
             PROVE  (StatusOf(s) = "running")' <=> (serverListens[s] # None)'
  BY DEF StatusIsRecord
<1>1. CASE s = caller[c].server
  BY <1>1 DEF StatusOf, SnapshotOf
<1>2. CASE s # caller[c].server
  <2>1. StatusOf(s) = "running" <=> serverListens[s] # None
    BY <1>2 DEF AdminInv, StatusIsRecord
  <2>2. StatusOf(s)' = StatusOf(s)
    BY <1>2 DEF StatusOf, SnapshotOf
  <2> QED
    BY <2>1, <2>2
<1> QED
  BY <1>1, <1>2

\* SetInfo writes the status of the call's server and of no other.
LEMMA InfoWritten ==
    ASSUME IInv, NEW c \in Callers, caller[c].at # "idle",
           NEW status \in Statuses, NEW count \in Nat, SetInfo(c, status, count)
    PROVE  /\ infos'[caller[c].server] = [status |-> status, count |-> count]
           /\ infos'[caller[c].server] # None
           /\ \A s \in Servers \ {caller[c].server} : infos'[s] = infos[s]
<1>1. caller[c].server \in Servers /\ infos \in [Servers -> Info \cup {None}]
  BY DEF IInv, TypeOK, LocalsOK, CallerLocals
<1>2. [status |-> status, count |-> count] \in Info
  BY DEF Info
<1> QED
  BY <1>1, <1>2, InfoAssumption DEF SetInfo

\* The calls of apply and stop begin while nothing is being moved.
LEMMA CallBegins ==
    ASSUME IInv, NEW c \in Callers, AdminInv(c), NEW s \in Servers,
           Stop(c, s) \/ \E a \in Addrs : Apply(c, s, a)
    PROVE  AdminInv(c)'
<1>1. /\ caller \in [Callers -> Locals] /\ serverListens \in [Servers -> Addrs \cup {None}]
      /\ UNCHANGED <<listeners, serverListens, infos, groups, sockets>>
      /\ caller[c].at = "idle"
  BY DEF IInv, TypeOK, Stop, Apply, runtimeVars, heapVars
<1>2. CASE Stop(c, s)
  <2>1. caller'[c].at = "unlisten" /\ caller'[c].server = s
    BY <1>1, <1>2 DEF Stop, Idle
  <2>2. (RegisteredWasBound /\ UsedIsRegistered /\ RoutedWhereRecorded(c))'
    BY <1>1, <2>1, RoutesKept
  <2>3. StatusIsRecord(c)'
    BY <1>1, <2>1, ReportsKept
  <2>4. CallKnows(c)'
    BY <2>1 DEF CallKnows
  <2> QED
    BY <2>2, <2>3, <2>4 DEF AdminInv
<1>3. ASSUME NEW a \in Addrs, Apply(c, s, a)
      PROVE  AdminInv(c)'
  <2>1. /\ caller'[c].server = s /\ caller'[c].addr = a
        /\ caller'[c].at = IF serverListens[s] = a THEN "lookup_group"
                           ELSE IF serverListens[s] # None THEN "unlisten" ELSE "starting"
    BY <1>1, <1>3 DEF Apply, Idle
  <2>2. (RegisteredWasBound /\ UsedIsRegistered /\ RoutedWhereRecorded(c))'
    BY <1>1, <2>1, RoutesKept
  <2>3. StatusIsRecord(c)'
    BY <1>1, <2>1, ReportsKept
  <2>4. StatusOf(s) = "running" <=> serverListens[s] # None
    BY <1>1 DEF AdminInv, StatusIsRecord
  <2>5. StatusOf(s)' = StatusOf(s) /\ a # None
    BY <1>1, NoneAssumption DEF StatusOf, SnapshotOf
  <2>6. CallKnows(c)'
    BY <1>1, <2>1, <2>4, <2>5 DEF CallKnows
  <2> QED
    BY <2>2, <2>3, <2>6 DEF AdminInv
<1> QED
  BY <1>2, <1>3
\* The steps of a call that touch neither the listeners nor the groups.
QuietStep(c) ==
    \/ LookupGroup(c) \/ LookupConfig(c) \/ Snapshot(c) \/ UpdateInfo(c) \/ StopSnapshot(c)
    \/ StopInfo(c) \/ Starting(c) \/ FindGroup(c) \/ BindError(c) \/ BindFailed(c)
    \/ Running(c) \/ Abandon(c)

\* They keep the invariant.
LEMMA QuietStepKept ==
    ASSUME IInv, NEW c \in Callers, AdminInv(c), QuietStep(c)
    PROVE  AdminInv(c)'
<1> DEFINE l == caller[c]
           s == caller[c].server
<1>1. /\ caller \in [Callers -> Locals] /\ l \in Locals /\ CallerLocals(l)
      /\ serverListens \in [Servers -> Addrs \cup {None}]
      /\ listeners \in [Addrs -> GroupIds \cup {None}]
      /\ infos \in [Servers -> Info \cup {None}]
  BY DEF IInv, TypeOK, LocalsOK
<1>2. /\ UNCHANGED <<listeners, serverListens, groups, sockets>>
      /\ l.at \notin {"idle", "remove_config", "record_listen"}
      /\ caller'[c].at \notin {"remove_config", "record_listen"}
  BY <1>1 DEF QuietStep, LookupGroup, LookupConfig, Snapshot, UpdateInfo, StopSnapshot, StopInfo,
      Starting, FindGroup, BindError, BindFailed, Running, Abandon, Goto, Return, Locals, Idle,
      runtimeVars, heapVars
<1>3. s \in Servers /\ CallKnows(c) /\ NoInfo.status # "running"
  BY <1>1, <1>2 DEF CallerLocals, AdminInv, NoInfo
<1>4. (RegisteredWasBound /\ UsedIsRegistered /\ RoutedWhereRecorded(c))'
  BY <1>2, RoutesKept
<1>5. ASSUME UNCHANGED infos, caller'[c].server = s, caller'[c].at # "idle"
      PROVE  StatusIsRecord(c)' /\ StatusOf(s)' = StatusOf(s)
  BY <1>2, <1>5, ReportsKept DEF StatusOf, SnapshotOf
<1>6. SUFFICES (StatusIsRecord(c) /\ CallKnows(c))'
  BY <1>4 DEF AdminInv
<1>7. CASE LookupGroup(c)
  <2>1. /\ l.at = "lookup_group" /\ caller'[c].server = s /\ caller'[c].addr = l.addr
        /\ caller'[c].at \in {"unlisten", "lookup_config"} /\ UNCHANGED infos
    BY <1>1, <1>7 DEF LookupGroup, Locals, runtimeVars
  <2> QED
    BY <1>2, <1>3, <1>5, <2>1 DEF CallKnows
<1>8. CASE LookupConfig(c)
  <2>1. /\ l.at = "lookup_config" /\ caller'[c].server = s /\ caller'[c].addr = l.addr
        /\ caller'[c].at \in {"unlisten", "snapshot"} /\ UNCHANGED infos
    BY <1>1, <1>8 DEF LookupConfig, Locals, runtimeVars
  <2> QED
    BY <1>2, <1>3, <1>5, <2>1 DEF CallKnows
<1>9. CASE Snapshot(c)
  <2>1. /\ l.at = "snapshot" /\ caller'[c].server = s /\ caller'[c].addr = l.addr
        /\ caller'[c].at = "update_info" /\ UNCHANGED infos
    BY <1>1, <1>9 DEF Snapshot, Locals, runtimeVars
  <2> QED
    BY <1>2, <1>3, <1>5, <2>1 DEF CallKnows
<1>10. CASE UpdateInfo(c)
  <2>1. /\ l.at = "update_info" /\ caller'[c].at = "idle" /\ SetInfo(c, "running", l.count)
        /\ l.count \in Nat
    BY <1>1, <1>10 DEF UpdateInfo, Return, Idle, Locals
  <2>2. serverListens[s] # None
    BY <1>1, <1>3, <2>1, NoneAssumption DEF CallKnows, CallerLocals
  <2>3. /\ infos'[s] = [status |-> "running", count |-> l.count] /\ infos'[s] # None
        /\ \A t \in Servers \ {s} : infos'[t] = infos[t]
    BY <2>1, InfoWritten DEF Statuses
  <2>4. StatusIsRecord(c)'
    BY <1>2, <2>1, <2>2, <2>3, ReportsClosed
  <2> QED
    BY <2>1, <2>4 DEF CallKnows
<1>11. CASE StopSnapshot(c)
  <2>1. /\ l.at = "stop_snapshot" /\ caller'[c].server = s /\ caller'[c].at = "stop_info"
        /\ UNCHANGED infos
    BY <1>1, <1>11 DEF StopSnapshot, Locals, runtimeVars
  <2> QED
    BY <1>2, <1>3, <1>5, <2>1 DEF CallKnows
<1>12. CASE StopInfo(c)
  <2>1. l.at = "stop_info" /\ l.count \in Nat /\ serverListens[s] = None
    BY <1>1, <1>3, <1>12 DEF StopInfo, Locals, CallKnows
  <2>2. PICK status \in {"stopping", "stopped"} : SetInfo(c, status, l.count)
    BY <1>12 DEF StopInfo
  <2>3. /\ infos'[s] = [status |-> status, count |-> l.count] /\ infos'[s] # None
        /\ \A t \in Servers \ {s} : infos'[t] = infos[t]
    BY <2>1, <2>2, InfoWritten DEF Statuses
  <2>4. CASE l.addr = None
    <3>1. caller'[c].at = "idle"
      BY <1>1, <1>12, <2>4 DEF StopInfo, Return, Idle
    <3>2. StatusIsRecord(c)'
      BY <1>2, <2>1, <2>3, ReportsClosed
    <3> QED
      BY <3>1, <3>2 DEF CallKnows
  <2>5. CASE l.addr # None
    <3>1. caller'[c].at = "starting" /\ caller'[c].server = s
      BY <1>1, <1>12, <2>5 DEF StopInfo, Goto, Locals
    <3>2. StatusIsRecord(c)'
      BY <1>2, <2>3, <3>1, ReportsKept
    <3> QED
      BY <1>2, <2>1, <3>1, <3>2 DEF CallKnows
  <2> QED
    BY <2>4, <2>5
<1>13. CASE Starting(c)
  <2>1. /\ l.at = "starting" /\ caller'[c].at = "find_group" /\ caller'[c].server = s
        /\ serverListens[s] = None /\ SetInfo(c, "starting", 0)
    BY <1>1, <1>3, <1>13 DEF Starting, Goto, Locals, CallKnows
  <2>2. /\ infos'[s] = [status |-> "starting", count |-> 0] /\ infos'[s] # None
        /\ \A t \in Servers \ {s} : infos'[t] = infos[t]
    BY <2>1, InfoWritten DEF Statuses
  <2>3. StatusIsRecord(c)'
    BY <1>2, <2>1, <2>2, ReportsKept
  <2>4. StatusOf(s)' # "running"
    BY <2>1, <2>2 DEF StatusOf, SnapshotOf
  <2> QED
    BY <1>2, <2>1, <2>3, <2>4 DEF CallKnows
<1>14. CASE FindGroup(c)
  <2>1. /\ l.at = "find_group" /\ caller'[c].server = s /\ caller'[c].addr = l.addr
        /\ caller'[c].at = IF listeners[l.addr] = None THEN "bind" ELSE "insert_config"
        /\ caller'[c].group = listeners[l.addr] /\ UNCHANGED infos
    BY <1>1, <1>14 DEF FindGroup, Locals, runtimeVars
  <2> QED
    BY <1>2, <1>3, <1>5, <2>1 DEF CallKnows
<1>15. CASE BindError(c)
  <2>1. /\ l.at = "bind" /\ caller'[c].server = s /\ caller'[c].at = "bind_failed"
        /\ UNCHANGED infos
    BY <1>1, <1>15 DEF BindError, Goto, Locals, runtimeVars
  <2> QED
    BY <1>2, <1>3, <1>5, <2>1 DEF CallKnows
<1>16. CASE BindFailed(c)
  <2>1. /\ l.at = "bind_failed" /\ caller'[c].at = "idle" /\ SetInfo(c, "failed", 0)
        /\ serverListens[s] = None
    BY <1>1, <1>3, <1>16 DEF BindFailed, Return, Idle, CallKnows
  <2>2. /\ infos'[s] = [status |-> "failed", count |-> 0] /\ infos'[s] # None
        /\ \A t \in Servers \ {s} : infos'[t] = infos[t]
    BY <2>1, InfoWritten DEF Statuses
  <2>3. StatusIsRecord(c)'
    BY <1>2, <2>1, <2>2, ReportsClosed
  <2> QED
    BY <2>1, <2>3 DEF CallKnows
<1>17. CASE Running(c)
  <2>1. /\ l.at = "running" /\ caller'[c].at = "idle" /\ SetInfo(c, "running", 0)
    BY <1>1, <1>17 DEF Running, Return, Idle
  <2>2. serverListens[s] # None
    BY <1>1, <1>3, <2>1, NoneAssumption DEF CallKnows, CallerLocals
  <2>3. /\ infos'[s] = [status |-> "running", count |-> 0] /\ infos'[s] # None
        /\ \A t \in Servers \ {s} : infos'[t] = infos[t]
    BY <2>1, InfoWritten DEF Statuses
  <2>4. StatusIsRecord(c)'
    BY <1>2, <2>1, <2>2, <2>3, ReportsClosed
  <2> QED
    BY <2>1, <2>4 DEF CallKnows
<1>18. CASE Abandon(c)
  <2>1. l.at \in {"snapshot", "bind"} /\ caller'[c].at = "idle" /\ UNCHANGED infos
    BY <1>1, <1>18 DEF Abandon, Return, Idle, runtimeVars
  <2>2. StatusOf(s) = "running" <=> serverListens[s] # None
    BY <1>1, <1>3, <2>1, NoneAssumption DEF CallKnows, CallerLocals
  <2>3. StatusIsRecord(c)'
    BY <1>2, <2>1, <2>2, ReportsClosed DEF StatusOf, SnapshotOf
  <2> QED
    BY <2>1, <2>3 DEF CallKnows
<1> QED
  BY <1>7, <1>8, <1>9, <1>10, <1>11, <1>12, <1>13, <1>14, <1>15, <1>16, <1>17, <1>18 DEF QuietStep
\* The call forgets where its server listens, and remembers it itself.
LEMMA UnlistenKept ==
    ASSUME IInv, NEW c \in Callers, AdminInv(c), Unlisten(c)
    PROVE  AdminInv(c)'
<1> DEFINE l == caller[c]
           s == caller[c].server
<1>1. /\ caller \in [Callers -> Locals] /\ l.at = "unlisten" /\ s \in Servers
      /\ serverListens \in [Servers -> Addrs \cup {None}]
      /\ UNCHANGED <<listeners, groups, sockets, infos>>
  BY DEF IInv, TypeOK, LocalsOK, CallerLocals, Unlisten, heapVars
<1>2. /\ serverListens'[s] = None /\ \A t \in Servers \ {s} : serverListens'[t] = serverListens[t]
      /\ caller'[c].server = s /\ caller'[c].old = serverListens[s]
      /\ caller'[c].at = IF serverListens[s] = None THEN "stop_snapshot" ELSE "remove_config"
  BY <1>1 DEF Unlisten, Locals
<1>3. (RegisteredWasBound /\ UsedIsRegistered)'
  BY <1>1 DEF AdminInv, RegisteredWasBound, UsedIsRegistered
<1>4. RoutedWhereRecorded(c)'
  <2> SUFFICES ASSUME NEW t \in Servers, NEW b \in Addrs
               PROVE  Routes(t, b)' <=> serverListens'[t] = b
                                        \/ (caller'[c].server = t /\ Moving(c, b)')
    BY DEF RoutedWhereRecorded
  <2>1. (Routes(t, b)' <=> Routes(t, b)) /\ (Routes(t, b) <=> serverListens[t] = b) /\ b # None
    BY <1>1, NoneAssumption DEF Routes, AdminInv, RoutedWhereRecorded, Moving
  <2>2. Moving(c, b)' <=> serverListens[s] = b
    BY <1>2, <2>1 DEF Moving
  <2> QED
    BY <1>1, <1>2, <2>1, <2>2
<1>5. StatusIsRecord(c)'
  BY <1>1, <1>2, ReportsKept
<1>6. CallKnows(c)'
  BY <1>2 DEF CallKnows
<1> QED
  BY <1>3, <1>4, <1>5, <1>6 DEF AdminInv

\* The server leaves the group of the listener it was recorded at.
LEMMA RemoveConfigKept ==
    ASSUME IInv, NEW c \in Callers, AdminInv(c), RemoveConfig(c)
    PROVE  /\ AdminInv(c)'
           /\ UNCHANGED <<listeners, sockets>>
           /\ listeners[caller[c].old] # None
           /\ \A g \in GroupIds : groups'[g].servers = groups[g].servers \ {caller[c].server}
<1> DEFINE l == caller[c]
           s == caller[c].server
           a == caller[c].old
           g == listeners[a]
<1>1. /\ caller \in [Callers -> Locals] /\ l.at = "remove_config" /\ s \in Servers /\ a \in Addrs
      /\ listeners \in [Addrs -> GroupIds \cup {None}] /\ groups \in [GroupIds -> Group]
      /\ UNCHANGED <<listeners, serverListens, sockets, infos>>
  BY DEF IInv, TypeOK, LocalsOK, CallerLocals, RemoveConfig, runtimeVars
<1>2. serverListens[s] = None
  BY <1>1 DEF AdminInv, CallKnows
<1>3. \A b \in Addrs : Routes(s, b) <=> b = a
  BY <1>1, <1>2, NoneAssumption DEF AdminInv, RoutedWhereRecorded, Moving
<1>4. g # None /\ g \in GroupIds
  BY <1>1, <1>3 DEF Routes
<1>5. /\ groups' = [groups EXCEPT ![g] = RemoveServer(groups[g], s)]
      /\ Goto(c, IF RemoveServer(groups[g], s).servers = {} THEN "drop_listener"
                 ELSE "stop_snapshot")
  BY <1>4 DEF RemoveConfig
<1>6. RemoveServer(groups[g], s).servers = groups[g].servers \ {s}
  BY DEF RemoveServer
<1>7. /\ groups'[g].servers = groups[g].servers \ {s}
      /\ \A h \in GroupIds \ {g} : groups'[h] = groups[h]
      /\ caller'[c].server = s /\ caller'[c].old = a
      /\ caller'[c].at = IF groups[g].servers \ {s} = {} THEN "drop_listener" ELSE "stop_snapshot"
  BY <1>1, <1>4, <1>5, <1>6 DEF Goto, Locals
<1>8. \A h \in GroupIds \ {g} : s \notin groups[h].servers
  <2> SUFFICES ASSUME NEW h \in GroupIds \ {g}, s \in groups[h].servers PROVE FALSE
    OBVIOUS
  <2>1. sockets[h].addr \in Addrs /\ listeners[sockets[h].addr] = h
    BY DEF AdminInv, UsedIsRegistered
  <2>2. Routes(s, sockets[h].addr)
    BY <2>1, NoneAssumption DEF Routes
  <2> QED
    BY <1>3, <2>1, <2>2
<1>9. \A h \in GroupIds : groups'[h].servers = groups[h].servers \ {s}
  BY <1>7, <1>8
<1>10. (RegisteredWasBound /\ UsedIsRegistered)'
  BY <1>1, <1>9 DEF AdminInv, RegisteredWasBound, UsedIsRegistered
<1>11. RoutedWhereRecorded(c)'
  <2> SUFFICES ASSUME NEW t \in Servers, NEW b \in Addrs
               PROVE  Routes(t, b)' <=> serverListens'[t] = b
                                        \/ (caller'[c].server = t /\ Moving(c, b)')
    BY DEF RoutedWhereRecorded
  <2>1. Routes(t, b)' <=> Routes(t, b) /\ t # s
    BY <1>1, <1>9 DEF Routes
  <2>2. ~Moving(c, b)' /\ b # None
    BY <1>7, NoneAssumption DEF Moving
  <2>3. t # s => (Routes(t, b) <=> serverListens[t] = b)
    BY DEF AdminInv, RoutedWhereRecorded
  <2> QED
    BY <1>1, <1>2, <2>1, <2>2, <2>3
<1>12. StatusIsRecord(c)'
  BY <1>1, <1>7, ReportsKept
<1>13. CallKnows(c)'
  BY <1>1, <1>2, <1>4, <1>7 DEF CallKnows
<1> QED
  BY <1>1, <1>4, <1>9, <1>10, <1>11, <1>12, <1>13 DEF AdminInv

\* The listener that lost its last server is dropped: nobody was routed there.
LEMMA DropListenerKept ==
    ASSUME IInv, NEW c \in Callers, AdminInv(c), DropListener(c)
    PROVE  /\ AdminInv(c)'
           /\ \A t \in Servers, b \in Addrs : Routes(t, b)' <=> Routes(t, b)
<1> DEFINE l == caller[c]
           s == caller[c].server
           a == caller[c].old
           g == listeners[a]
<1>1. /\ caller \in [Callers -> Locals] /\ l.at = "drop_listener" /\ s \in Servers /\ a \in Addrs
      /\ listeners \in [Addrs -> GroupIds \cup {None}] /\ sockets \in [GroupIds -> Socket]
      /\ UNCHANGED <<serverListens, groups, infos>> /\ listeners' = [listeners EXCEPT ![a] = None]
  BY DEF IInv, TypeOK, LocalsOK, CallerLocals, DropListener
<1>2. serverListens[s] = None /\ g # None /\ g \in GroupIds /\ groups[g].servers = {}
  BY <1>1 DEF AdminInv, CallKnows
<1>3. caller'[c].server = s /\ caller'[c].at = "stop_snapshot"
  BY <1>1 DEF DropListener, Goto, Locals
<1>4. \A h \in GroupIds : /\ sockets'[h].addr = sockets[h].addr
                          /\ sockets[h].task # "none" => sockets'[h].task # "none"
  BY <1>1, <1>2 DEF DropListener, Socket
<1>5. listeners'[a] = None /\ \A b \in Addrs \ {a} : listeners'[b] = listeners[b]
  BY <1>1
<1>6. RegisteredWasBound'
  BY <1>1, <1>4, <1>5 DEF AdminInv, RegisteredWasBound
<1>7. UsedIsRegistered'
  <2> SUFFICES ASSUME NEW h \in GroupIds, groups[h].servers # {}
               PROVE  sockets'[h].addr \in Addrs /\ listeners'[sockets'[h].addr] = h
    BY <1>1 DEF UsedIsRegistered
  <2>1. sockets[h].addr \in Addrs /\ listeners[sockets[h].addr] = h
    BY DEF AdminInv, UsedIsRegistered
  <2>2. sockets[h].addr # a
    BY <1>2, <2>1
  <2> QED
    BY <1>4, <1>5, <2>1, <2>2
<1>8. \A t \in Servers, b \in Addrs : Routes(t, b)' <=> Routes(t, b)
  BY <1>1, <1>2, <1>5 DEF Routes
<1>9. RoutedWhereRecorded(c)'
  BY <1>1, <1>3, <1>8 DEF AdminInv, RoutedWhereRecorded, Moving
<1>10. StatusIsRecord(c)'
  BY <1>1, <1>3, ReportsKept
<1>11. CallKnows(c)'
  BY <1>1, <1>2, <1>3 DEF CallKnows
<1> QED
  BY <1>1, <1>6, <1>7, <1>8, <1>9, <1>10, <1>11 DEF AdminInv

\* A new group is bound: it was never used, so no server was in it.
LEMMA BindKept ==
    ASSUME IInv, NEW c \in Callers, AdminInv(c), Bind(c)
    PROVE  AdminInv(c)'
<1> DEFINE l == caller[c]
           s == caller[c].server
           a == caller[c].addr
<1>1. /\ caller \in [Callers -> Locals] /\ l.at = "bind" /\ s \in Servers /\ a \in Addrs
      /\ listeners \in [Addrs -> GroupIds \cup {None}] /\ sockets \in [GroupIds -> Socket]
      /\ UNCHANGED <<listeners, serverListens, infos, groups>>
  BY DEF IInv, TypeOK, LocalsOK, CallerLocals, Bind, runtimeVars
<1>2. PICK g \in GroupIds :
        /\ sockets[g].task = "none"
        /\ sockets' = [sockets EXCEPT ![g] = [addr |-> a, task |-> "running"]]
        /\ caller' = [caller EXCEPT ![c].at = "register", ![c].group = g]
  BY DEF Bind
<1>3. /\ sockets'[g] = [addr |-> a, task |-> "running"]
      /\ \A h \in GroupIds \ {g} : sockets'[h] = sockets[h]
      /\ caller'[c].at = "register" /\ caller'[c].group = g /\ caller'[c].addr = a
      /\ caller'[c].server = s
  BY <1>1, <1>2 DEF Locals
<1>4. sockets'[g].addr = a /\ sockets'[g].task = "running"
  BY <1>3
<1>5. \A b \in Addrs : listeners[b] # g
  BY <1>2, NoneAssumption DEF AdminInv, RegisteredWasBound
<1>6. groups[g].servers = {}
  BY <1>5 DEF AdminInv, UsedIsRegistered
<1>7. RegisteredWasBound'
  BY <1>1, <1>3, <1>5 DEF AdminInv, RegisteredWasBound
<1>8. UsedIsRegistered'
  BY <1>1, <1>3, <1>6 DEF AdminInv, UsedIsRegistered
<1>9. RoutedWhereRecorded(c)'
  BY <1>1, <1>3 DEF AdminInv, RoutedWhereRecorded, Routes, Moving
<1>10. StatusIsRecord(c)'
  BY <1>1, <1>3, ReportsKept
<1>11. serverListens[s] = None /\ listeners[a] = None
  BY <1>1 DEF AdminInv, CallKnows
<1>12. CallKnows(c)'
  BY <1>1, <1>3, <1>4, <1>6, <1>11 DEF CallKnows
<1> QED
  BY <1>7, <1>8, <1>9, <1>10, <1>12 DEF AdminInv

\* The bound listener is registered, empty, at an address that had none.
LEMMA RegisterKept ==
    ASSUME IInv, NEW c \in Callers, AdminInv(c), Register(c)
    PROVE  /\ AdminInv(c)'
           /\ \A t \in Servers, b \in Addrs : Routes(t, b)' <=> Routes(t, b)
<1> DEFINE l == caller[c]
           s == caller[c].server
           a == caller[c].addr
           g == caller[c].group
<1>1. /\ caller \in [Callers -> Locals] /\ l.at = "register" /\ s \in Servers /\ a \in Addrs
      /\ listeners \in [Addrs -> GroupIds \cup {None}] /\ g \in GroupIds
      /\ UNCHANGED <<serverListens, infos, groups, sockets>>
      /\ listeners' = [listeners EXCEPT ![a] = g]
  BY DEF IInv, TypeOK, LocalsOK, CallerLocals, Register, heapVars
<1>2. /\ serverListens[s] = None /\ listeners[a] = None /\ groups[g].servers = {}
      /\ sockets[g].addr = a /\ sockets[g].task # "none"
  BY <1>1 DEF AdminInv, CallKnows
<1>3. /\ caller'[c].server = s /\ caller'[c].addr = a /\ caller'[c].group = g
      /\ caller'[c].at = "insert_config"
  BY <1>1 DEF Register, Goto, Locals
<1>4. listeners'[a] = g /\ \A b \in Addrs \ {a} : listeners'[b] = listeners[b]
  BY <1>1
<1>5. RegisteredWasBound'
  BY <1>1, <1>2, <1>4 DEF AdminInv, RegisteredWasBound
<1>6. UsedIsRegistered'
  BY <1>1, <1>2, <1>4, NoneAssumption DEF AdminInv, UsedIsRegistered
<1>7. \A t \in Servers, b \in Addrs : Routes(t, b)' <=> Routes(t, b)
  BY <1>1, <1>2, <1>4 DEF Routes
<1>8. RoutedWhereRecorded(c)'
  BY <1>1, <1>3, <1>7 DEF AdminInv, RoutedWhereRecorded, Moving
<1>9. StatusIsRecord(c)'
  BY <1>1, <1>3, ReportsKept
<1>10. CallKnows(c)'
  BY <1>1, <1>2, <1>3, <1>4 DEF CallKnows
<1> QED
  BY <1>1, <1>5, <1>6, <1>7, <1>8, <1>9, <1>10 DEF AdminInv

\* The server, in no group until then, joins that of the listener.
LEMMA InsertConfigKept ==
    ASSUME IInv, NEW c \in Callers, AdminInv(c), InsertConfig(c)
    PROVE  /\ AdminInv(c)'
           /\ caller[c].addr \in Addrs
           /\ \A b \in Addrs : ~Routes(caller[c].server, b)
           /\ \A t \in Servers, b \in Addrs :
                Routes(t, b)' <=> Routes(t, b) \/ (t = caller[c].server /\ b = caller[c].addr)
<1> DEFINE l == caller[c]
           s == caller[c].server
           a == caller[c].addr
           g == caller[c].group
<1>1. /\ caller \in [Callers -> Locals] /\ l.at = "insert_config" /\ s \in Servers /\ a \in Addrs
      /\ listeners \in [Addrs -> GroupIds \cup {None}] /\ g \in GroupIds
      /\ groups \in [GroupIds -> Group] /\ UNCHANGED <<listeners, serverListens, infos, sockets>>
  BY DEF IInv, TypeOK, LocalsOK, CallerLocals, InsertConfig, runtimeVars
<1>2. serverListens[s] = None /\ listeners[a] = g /\ g # None
  BY <1>1, NoneAssumption DEF AdminInv, CallKnows
<1>3. \A b \in Addrs : listeners[b] = g <=> b = a
  BY <1>1, <1>2 DEF AdminInv, RegisteredWasBound
<1>4. /\ caller'[c].server = s /\ caller'[c].addr = a /\ caller'[c].at = "record_listen"
      /\ groups'[g].servers = groups[g].servers \cup {s}
      /\ \A h \in GroupIds \ {g} : groups'[h] = groups[h]
  BY <1>1 DEF InsertConfig, InsertServer, Locals
<1>5. RegisteredWasBound'
  BY <1>1 DEF AdminInv, RegisteredWasBound
<1>6. sockets[g].addr = a
  BY <1>1, <1>2 DEF AdminInv, RegisteredWasBound
<1>7. UsedIsRegistered'
  BY <1>1, <1>2, <1>4, <1>6 DEF AdminInv, UsedIsRegistered
<1>8. \A b \in Addrs : ~Routes(s, b)
  BY <1>1, <1>2, NoneAssumption DEF AdminInv, RoutedWhereRecorded, Moving
<1>9. ASSUME NEW t \in Servers, NEW b \in Addrs
      PROVE  Routes(t, b)' <=> Routes(t, b) \/ (t = s /\ b = a)
  BY <1>1, <1>2, <1>3, <1>4 DEF Routes
<1>10. RoutedWhereRecorded(c)'
  <2> SUFFICES ASSUME NEW t \in Servers, NEW b \in Addrs
               PROVE  Routes(t, b)' <=> serverListens'[t] = b
                                        \/ (caller'[c].server = t /\ Moving(c, b)')
    BY DEF RoutedWhereRecorded
  <2>1. Moving(c, b)' <=> b = a
    BY <1>4 DEF Moving
  <2>2. Routes(t, b) <=> serverListens[t] = b
    BY <1>1 DEF AdminInv, RoutedWhereRecorded, Moving
  <2> QED
    BY <1>1, <1>4, <1>9, <2>1, <2>2
<1>11. StatusIsRecord(c)'
  BY <1>1, <1>4, ReportsKept
<1>12. CallKnows(c)'
  BY <1>1, <1>2, <1>4 DEF CallKnows
<1> QED
  BY <1>1, <1>5, <1>7, <1>8, <1>9, <1>10, <1>11, <1>12 DEF AdminInv

\* And is recorded where it is now routed to.
LEMMA RecordListenKept ==
    ASSUME IInv, NEW c \in Callers, AdminInv(c), RecordListen(c)
    PROVE  AdminInv(c)'
<1> DEFINE l == caller[c]
           s == caller[c].server
           a == caller[c].addr
<1>1. /\ caller \in [Callers -> Locals] /\ l.at = "record_listen" /\ s \in Servers /\ a \in Addrs
      /\ serverListens \in [Servers -> Addrs \cup {None}]
      /\ UNCHANGED <<listeners, infos, groups, sockets>>
  BY DEF IInv, TypeOK, LocalsOK, CallerLocals, RecordListen, heapVars
<1>2. /\ serverListens'[s] = a /\ \A t \in Servers \ {s} : serverListens'[t] = serverListens[t]
      /\ caller'[c].server = s /\ caller'[c].addr = a /\ caller'[c].at = "running"
  BY <1>1 DEF RecordListen, Goto, Locals
<1>3. (RegisteredWasBound /\ UsedIsRegistered)'
  BY <1>1 DEF AdminInv, RegisteredWasBound, UsedIsRegistered
<1>4. serverListens[s] = None
  BY <1>1 DEF AdminInv, CallKnows
<1>5. RoutedWhereRecorded(c)'
  <2> SUFFICES ASSUME NEW t \in Servers, NEW b \in Addrs
               PROVE  Routes(t, b)' <=> serverListens'[t] = b
                                        \/ (caller'[c].server = t /\ Moving(c, b)')
    BY DEF RoutedWhereRecorded
  <2>1. ~Moving(c, b)' /\ b # None /\ (Routes(t, b)' <=> Routes(t, b))
    BY <1>1, <1>2, NoneAssumption DEF Moving, Routes
  <2>2. Routes(t, b) <=> serverListens[t] = b \/ (s = t /\ a = b)
    BY <1>1 DEF AdminInv, RoutedWhereRecorded, Moving
  <2> QED
    BY <1>2, <1>4, <2>1, <2>2
<1>6. StatusIsRecord(c)'
  BY <1>1, <1>2, ReportsKept
<1>7. CallKnows(c)'
  BY <1>2 DEF CallKnows
<1> QED
  BY <1>3, <1>5, <1>6, <1>7 DEF AdminInv
\* The connections change the counts, and a status from stopping to stopped.
LEMMA ConnStepKept ==
    ASSUME IInv, NEW c \in Callers, AdminInv(c), NEW k \in Conns, Accept(k) \/ ConnStep(k)
    PROVE  AdminInv(c)' /\ UNCHANGED <<listeners, groups, caller>>
<1>1. UNCHANGED <<listeners, serverListens, groups, sockets, caller>>
  BY DEF Accept, ConnStep, DefaultServerId, Count, CountInfo, Finish, Uncount, UncountInfo,
      runtimeVars, heapVars
<1>2. \A s \in Servers : (StatusOf(s) = "running")' <=> StatusOf(s) = "running"
  <2>1. CASE UNCHANGED infos
    BY <2>1 DEF StatusOf, SnapshotOf
  <2>2. CASE CountInfo(k) /\ infos[conn[k].server] # None
    <3> DEFINE t == conn[k].server
               new == [infos[t] EXCEPT !.count = @ + 1]
    <3>1. /\ t \in Servers /\ infos \in [Servers -> Info \cup {None}] /\ infos[t] \in Info
          /\ infos' = [infos EXCEPT ![t] = new]
      BY <2>2 DEF CountInfo, IInv, TypeOK, LocalsOK, ConnLocals
    <3>2. new \in Info /\ new.status = infos[t].status
      BY <3>1 DEF Info
    <3> QED
      BY <3>1, <3>2, InfoAssumption DEF StatusOf, SnapshotOf
  <2>3. CASE UncountInfo(k) /\ infos[conn[k].server] # None
    <3> DEFINE t == conn[k].server
               new == DecrementedInfo(infos[t])
    <3>1. /\ t \in Servers /\ infos \in [Servers -> Info \cup {None}] /\ infos[t] \in Info
          /\ infos' = [infos EXCEPT ![t] = new]
      BY <2>3 DEF UncountInfo, IInv, TypeOK, LocalsOK, ConnLocals
    <3>2. new \in Info /\ (new.status = "running" <=> infos[t].status = "running")
      BY <3>1 DEF Info, Statuses, DecrementedInfo
    <3> HIDE DEF new
    <3> QED
      BY <3>1, <3>2, InfoAssumption DEF StatusOf, SnapshotOf
  <2>4. UNCHANGED infos \/ (CountInfo(k) /\ infos[conn[k].server] # None)
                        \/ (UncountInfo(k) /\ infos[conn[k].server] # None)
    BY DEF Accept, ConnStep, DefaultServerId, Count, CountInfo, Finish, Uncount, UncountInfo,
        runtimeVars
  <2> QED
    BY <2>1, <2>2, <2>3, <2>4
<1>3. (RegisteredWasBound /\ UsedIsRegistered /\ RoutedWhereRecorded(c))'
  BY <1>1 DEF AdminInv, RegisteredWasBound, UsedIsRegistered, RoutedWhereRecorded, Routes, Moving
<1>4. StatusIsRecord(c)'
  BY <1>1, <1>2 DEF AdminInv, StatusIsRecord
<1>5. CallKnows(c)'
  <2>1. caller[c].at # "idle" => caller[c].server \in Servers
    BY DEF IInv, LocalsOK, CallerLocals
  <2>2. CallKnows(c)
    BY DEF AdminInv
  <2>3. caller[c].at # "idle" =>
          ((StatusOf(caller[c].server) = "running")' <=> StatusOf(caller[c].server) = "running")
    BY <1>1, <1>2, <2>1
  <2> QED
    BY <1>1, <2>2, <2>3 DEF CallKnows
<1> QED
  BY <1>1, <1>3, <1>4, <1>5 DEF AdminInv

\* A loop that ends, by an abort or by an error, was bound all the same.
LEMMA LoopEndKept ==
    ASSUME IInv, NEW c \in Callers, AdminInv(c), NEW g \in GroupIds,
           AcceptError(g) \/ AbortTakesEffect(g)
    PROVE  AdminInv(c)' /\ UNCHANGED <<listeners, groups, caller>>
<1>1. /\ sockets \in [GroupIds -> Socket] /\ sockets' = [sockets EXCEPT ![g].task = "gone"]
      /\ UNCHANGED <<listeners, serverListens, infos, groups, caller>>
      /\ listeners \in [Addrs -> GroupIds \cup {None}]
  BY DEF AcceptError, AbortTakesEffect, runtimeVars, IInv, TypeOK
<1>2. \A h \in GroupIds : /\ sockets'[h].addr = sockets[h].addr
                          /\ sockets[h].task # "none" => sockets'[h].task # "none"
  BY <1>1 DEF Socket
<1>3. RegisteredWasBound'
  BY <1>1, <1>2 DEF AdminInv, RegisteredWasBound
<1>4. UsedIsRegistered'
  BY <1>1, <1>2 DEF AdminInv, UsedIsRegistered
<1>5. (RoutedWhereRecorded(c) /\ StatusIsRecord(c))'
  BY <1>1 DEF AdminInv, RoutedWhereRecorded, StatusIsRecord, Routes, Moving, StatusOf, SnapshotOf
<1>6. CallKnows(c)'
  <2>1. caller[c].at = "register" => caller[c].group \in GroupIds
    BY DEF IInv, LocalsOK, CallerLocals
  <2> QED
    BY <1>1, <1>2, <2>1 DEF AdminInv, CallKnows, StatusOf, SnapshotOf
<1> QED
  BY <1>1, <1>3, <1>4, <1>5, <1>6 DEF AdminInv

\* Every step keeps what one handler at a time relies on.
LEMMA AdminStep ==
    ASSUME NEW c, Callers = {c}, IInv, AdminInv(c), [Next]_vars
    PROVE  AdminInv(c)'
<1>1. CASE CallStep(c) \/ Abandon(c)
  BY <1>1, QuietStepKept, UnlistenKept, RemoveConfigKept, DropListenerKept, BindKept,
     RegisterKept, InsertConfigKept, RecordListenKept DEF CallStep, QuietStep
<1>2. CASE \E s \in Servers : Stop(c, s) \/ \E a \in Addrs : Apply(c, s, a)
  BY <1>2, CallBegins
<1>3. CASE \E k \in Conns : Accept(k) \/ ConnStep(k)
  BY <1>3, ConnStepKept
<1>4. CASE \E g \in GroupIds : AcceptError(g) \/ AbortTakesEffect(g)
  BY <1>4, LoopEndKept
<1>5. CASE UNCHANGED vars
  BY <1>5 DEF vars, runtimeVars, heapVars, AdminInv, RegisteredWasBound, UsedIsRegistered,
      RoutedWhereRecorded, StatusIsRecord, CallKnows, Routes, Moving, StatusOf, SnapshotOf
<1> QED
  BY <1>1, <1>2, <1>3, <1>4, <1>5 DEF Next

\* With one admin handler, it holds in every behaviour.
LEMMA AdminInvariant ==
    ASSUME NEW c, Callers = {c}
    PROVE  Spec => []AdminInv(c)
<1>1. Init => AdminInv(c)
  BY NoneAssumption DEF Init, AdminInv, RegisteredWasBound, UsedIsRegistered, RoutedWhereRecorded,
      StatusIsRecord, CallKnows, Routes, Moving, StatusOf, SnapshotOf, NoInfo, Idle, EmptyGroup
<1>2. IInv /\ AdminInv(c) /\ [Next]_vars => AdminInv(c)'
  BY AdminStep
<1> QED
  BY <1>1, <1>2, Invariant, PTL DEF Spec

\* With one admin handler, a server reported "running" between two calls is in
\* the group of the listener registered where the server is recorded (the end
\* of apply: register, insert_server_config, server_listens, set_info).
THEOREM RunningIsRegistered ==
    ASSUME NEW c, Callers = {c}
    PROVE  Spec => []RunningMeansRegistered
<1>1. IInv /\ AdminInv(c) => RunningMeansRegistered
  <2> SUFFICES ASSUME IInv, AdminInv(c), caller[c].at = "idle",
                      NEW s \in Servers, StatusOf(s) = "running"
               PROVE  /\ serverListens[s] # None
                      /\ listeners[serverListens[s]] # None
                      /\ s \in groups[listeners[serverListens[s]]].servers
    BY DEF RunningMeansRegistered, Quiet
  <2>1. serverListens[s] \in Addrs
    BY DEF AdminInv, StatusIsRecord, IInv, TypeOK
  <2>2. Routes(s, serverListens[s])
    BY <2>1 DEF AdminInv, RoutedWhereRecorded
  <2> QED
    BY <2>1, <2>2, NoneAssumption DEF Routes
<1> QED
  BY <1>1, Invariant, AdminInvariant, PTL

\* With one admin handler, a server reported anything else between two calls
\* is in no group that an accept loop serves (remove_server_from_listener,
\* however stop, a failed bind or an abandoned handler ended).
THEOREM StoppedIsNotServed ==
    ASSUME NEW c, Callers = {c}
    PROVE  Spec => []StoppedMeansNotServed
<1>1. IInv /\ AdminInv(c) => StoppedMeansNotServed
  <2> SUFFICES ASSUME IInv, AdminInv(c), caller[c].at = "idle",
                      NEW s \in Servers, StatusOf(s) # "running",
                      NEW g \in GroupIds, s \in groups[g].servers
               PROVE  FALSE
    BY DEF StoppedMeansNotServed, Quiet
  <2>1. sockets[g].addr \in Addrs /\ listeners[sockets[g].addr] = g
    BY DEF AdminInv, UsedIsRegistered
  <2>2. Routes(s, sockets[g].addr)
    BY <2>1, NoneAssumption DEF Routes
  <2>3. serverListens[s] = sockets[g].addr
    BY <2>1, <2>2 DEF AdminInv, RoutedWhereRecorded, Moving
  <2> QED
    BY <2>1, <2>3, NoneAssumption DEF AdminInv, StatusIsRecord
<1> QED
  BY <1>1, Invariant, AdminInvariant, PTL
----------------------------------------------------------------------------
(* One admin handler at a time implements ServedAddress, step by step.      *)

\* The mapping, in the terms of the invariant.
LEMMA Mapping ==
    ASSUME NEW c, Callers = {c}
    PROVE  /\ servedAddrs = [s \in Servers |-> {a \in Addrs : Routes(s, a)}]
           /\ administered = IF caller[c].at = "idle" THEN {} ELSE {caller[c].server}
           /\ administered' = IF caller'[c].at = "idle" THEN {} ELSE {caller'[c].server}
<1>1. /\ administered = IF caller[c].at = "idle" THEN {} ELSE {caller[c].server}
      /\ administered' = IF caller'[c].at = "idle" THEN {} ELSE {caller'[c].server}
  BY DEF administered
<1> QED
  BY <1>1 DEF servedAddrs, Routes

\* The same routes are the same addresses.
LEMMA SameRoutes ==
    ASSUME \A s \in Servers, a \in Addrs : Routes(s, a)' <=> Routes(s, a)
    PROVE  UNCHANGED servedAddrs
<1>1. \A s \in Servers : {a \in Addrs : Routes(s, a)}' = {a \in Addrs : Routes(s, a)}
  OBVIOUS
<1> QED
  BY <1>1 DEF servedAddrs, Routes

\* A step that changes no route is an End when the call returns, a stutter otherwise.
LEMMA SameRoutesImplement ==
    ASSUME NEW c, Callers = {c}, UNCHANGED servedAddrs,
           caller'[c].at = "idle" \/ (caller[c].at # "idle" /\ caller'[c].server = caller[c].server)
    PROVE  [Placement!Next]_(Placement!vars)
<1>1. administered' = {} \/ administered' = administered
  BY Mapping
<1> QED
  BY <1>1 DEF Placement!Next, Placement!End, Placement!vars

\* The steps of a call: only RemoveConfig and InsertConfig change a route, each
\* of the server the call is for.
LEMMA CallStepImplements ==
    ASSUME NEW c, Callers = {c}, IInv, AdminInv(c), CallStep(c) \/ Abandon(c)
    PROVE  [Placement!Next]_(Placement!vars)
<1> DEFINE s == caller[c].server
<1>1. /\ caller \in [Callers -> Locals] /\ c \in Callers /\ caller[c].at # "idle" /\ s \in Servers
      /\ caller'[c].at = "idle" \/ caller'[c].server = s
  <2>1. caller \in [Callers -> Locals] /\ c \in Callers
    BY DEF IInv, TypeOK
  <2>2. /\ caller[c].at # "idle"
        /\ caller'[c].at = "idle" \/ caller'[c].server = s
    BY <2>1 DEF CallStep, LookupGroup, LookupConfig, Snapshot, UpdateInfo, Unlisten,
        RemoveConfig, DropListener, StopSnapshot, StopInfo, Starting, FindGroup, Bind,
        BindError, BindFailed, Register, InsertConfig, RecordListen, Running, Abandon, Goto,
        Return, Locals, Idle
  <2> QED
    BY <2>1, <2>2 DEF IInv, LocalsOK, CallerLocals
<1>2. servedAddrs = [t \in Servers |-> {a \in Addrs : Routes(t, a)}]
      /\ servedAddrs' = [t \in Servers |-> {a \in Addrs : Routes(t, a)'}]
  BY Mapping DEF servedAddrs, Routes
<1>3. CASE RemoveConfig(c)
  <2>1. /\ UNCHANGED listeners /\ listeners[caller[c].old] # None
        /\ \A g \in GroupIds : groups'[g].servers = groups[g].servers \ {s}
    BY <1>1, <1>3, RemoveConfigKept
  <2>2. \A t \in Servers, a \in Addrs : Routes(t, a)' <=> Routes(t, a) /\ t # s
    BY <2>1 DEF Routes, IInv, TypeOK
  <2>3. caller[c].old \in Addrs /\ Routes(s, caller[c].old)
    BY <1>1, <1>3 DEF RemoveConfig, IInv, LocalsOK, CallerLocals, AdminInv, RoutedWhereRecorded,
        Moving
  <2>4. servedAddrs[s] # {} /\ servedAddrs' = [servedAddrs EXCEPT ![s] = {}]
    BY <1>1, <1>2, <2>2, <2>3
  <2>5. caller'[c].at # "idle" /\ caller'[c].server = s
    BY <1>1, <1>3 DEF RemoveConfig, Goto, Locals
  <2>6. administered = {s} /\ administered' = {s}
    BY <1>1, <2>5, Mapping
  <2> QED
    BY <2>4, <2>6 DEF Placement!Next, Placement!Withdraw
<1>4. CASE InsertConfig(c)
  <2> DEFINE b == caller[c].addr
  <2>1. /\ b \in Addrs
        /\ \A a \in Addrs : ~Routes(s, a)
        /\ \A t \in Servers, a \in Addrs :
             Routes(t, a)' <=> Routes(t, a) \/ (t = s /\ a = b)
    BY <1>1, <1>4, InsertConfigKept
  <2>2. servedAddrs[s] = {} /\ servedAddrs' = [servedAddrs EXCEPT ![s] = {b}]
    <3>1. \A t \in Servers : {a \in Addrs : Routes(t, a)'}
                              = IF t = s THEN {b} ELSE {a \in Addrs : Routes(t, a)}
      BY <2>1
    <3> QED
      BY <1>1, <1>2, <2>1, <3>1
  <2>3. caller'[c].at # "idle" /\ caller'[c].server = s
    BY <1>1, <1>4 DEF InsertConfig, Locals
  <2>4. administered = {s} /\ administered' = {s}
    BY <1>1, <2>3, Mapping
  <2> QED
    BY <2>1, <2>2, <2>4 DEF Placement!Next, Placement!Serve
<1>5. CASE DropListener(c) \/ Register(c)
  BY <1>1, <1>5, DropListenerKept, RegisterKept, SameRoutes, SameRoutesImplement
<1>6. CASE ~(RemoveConfig(c) \/ InsertConfig(c) \/ DropListener(c) \/ Register(c))
  <2>1. UNCHANGED <<listeners, groups>>
    BY <1>6 DEF CallStep, LookupGroup, LookupConfig, Snapshot, UpdateInfo, Unlisten,
        StopSnapshot, StopInfo, Starting, FindGroup, Bind, BindError, BindFailed,
        RecordListen, Running, Abandon, runtimeVars, heapVars
  <2>2. UNCHANGED servedAddrs
    BY <2>1 DEF servedAddrs
  <2> QED
    BY <1>1, <2>2, SameRoutesImplement
<1> QED
  BY <1>3, <1>4, <1>5, <1>6

\* With one admin handler, every behaviour of the listeners and groups is one of
\* ServedAddress: a server is served at one address at most, changes address
\* only by being served nowhere in between, and only by a call made for it.
THEOREM RuntimeImplementsServedAddress ==
    ASSUME NEW c, Callers = {c}
    PROVE  Spec => ImplementsServedAddress
<1>1. Init => Placement!Init
  <2> SUFFICES ASSUME Init PROVE Placement!Init
    OBVIOUS
  <2>1. administered = {}
    BY Mapping DEF Init, Idle
  <2>2. servedAddrs = [s \in Servers |-> {}]
    BY DEF servedAddrs, Init
  <2> QED
    BY <2>1, <2>2 DEF Placement!Init
<1>2. IInv /\ AdminInv(c) /\ [Next]_vars => [Placement!Next]_(Placement!vars)
  <2> SUFFICES ASSUME IInv, AdminInv(c), [Next]_vars
               PROVE  [Placement!Next]_(Placement!vars)
    OBVIOUS
  <2>1. CASE CallStep(c) \/ Abandon(c)
    BY <2>1, CallStepImplements
  <2>2. ASSUME NEW s \in Servers, Stop(c, s) \/ \E a \in Addrs : Apply(c, s, a)
        PROVE  Placement!Next
    <3>1. caller[c].at = "idle" /\ caller'[c].at # "idle" /\ caller'[c].server = s
      <4>1. caller \in [Callers -> Locals] /\ c \in Callers
        BY DEF IInv, TypeOK
      <4>2. CASE Stop(c, s)
        BY <4>1, <4>2 DEF Stop, Idle
      <4>3. ASSUME NEW a \in Addrs, Apply(c, s, a)
            PROVE  caller[c].at = "idle" /\ caller'[c].at # "idle" /\ caller'[c].server = s
        BY <4>1, <4>3 DEF Apply, Idle
      <4> QED
        BY <2>2, <4>2, <4>3
    <3>2. UNCHANGED servedAddrs
      BY <2>2 DEF Stop, Apply, servedAddrs, runtimeVars, heapVars
    <3>3. administered = {} /\ administered' = {s}
      BY <3>1, Mapping
    <3> QED
      BY <3>2, <3>3 DEF Placement!Next, Placement!Begin
  <2>3. ASSUME UNCHANGED <<listeners, groups, caller>>
        PROVE  UNCHANGED Placement!vars
    BY <2>3 DEF Placement!vars, servedAddrs, administered
  <2>4. CASE \E k \in Conns : Accept(k) \/ ConnStep(k)
    BY <2>3, <2>4, ConnStepKept
  <2>5. CASE \E g \in GroupIds : AcceptError(g) \/ AbortTakesEffect(g)
    BY <2>3, <2>5, LoopEndKept
  <2>6. CASE UNCHANGED vars
    BY <2>3, <2>6 DEF vars, runtimeVars, heapVars
  <2> QED
    BY <2>1, <2>2, <2>4, <2>5, <2>6 DEF Next
<1> QED
  BY <1>1, <1>2, Invariant, AdminInvariant, PTL DEF Spec, ImplementsServedAddress, Placement!Spec
=============================================================================
