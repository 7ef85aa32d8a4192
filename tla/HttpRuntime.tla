---------------------------- MODULE HttpRuntime ----------------------------
(***************************************************************************)
(* The listener side of HttpRuntime (src/src/runtime.rs): the calls apply  *)
(* and stop that the admin handlers make, the accept loops they start and  *)
(* abort, and the connections that are counted against a server.           *)
(*                                                                         *)
(* Several admin handlers call the runtime at once and nothing serialises  *)
(* them: each of the maps listeners, server_listens and infos has a mutex  *)
(* that is held for one read or one write, so every lock acquisition is a  *)
(* step of its own here.  The content of a server's configuration is left  *)
(* out: the upstreams are in UpstreamDrain.                                *)
(***************************************************************************)
EXTENDS Naturals, Sequences, FiniteSets

CONSTANTS
    Servers,        \* ids of the configured HTTP servers
    Addrs,          \* "host:port" listen addresses
    Callers,        \* admin handlers that call the runtime
    Conns,          \* client connections open at the same time
    GroupIds,       \* heap identities of ListenGroups, one per successful bind
    None,           \* Rust's Option::None
    AcceptMayFail,  \* whether listener.accept() may return an error
    MaxCalls        \* bound: how many calls to apply and stop are made

ASSUME NoneAssumption == None \notin Servers \cup Addrs \cup GroupIds
ASSUME ConnsAssumption == IsFiniteSet(Conns)
ASSUME BoundAssumption == MaxCalls \in Nat
ASSUME AcceptAssumption == AcceptMayFail \in BOOLEAN

VARIABLES
    listeners,        \* addr -> the group of the registered ListenerHandle
    serverListens,    \* server -> the address it was last recorded at
    infos,            \* server -> RuntimeInfo
    groups,           \* heap of ListenGroups
    sockets,          \* per group, its accept_loop task and the socket it owns
    activeConnections,\* the AtomicUsize of all connections
    calls,            \* calls made so far (bounded by MaxCalls)
    caller,           \* per admin handler, where its call is and its locals
    conn              \* per connection, where its task is and its locals

runtimeVars == <<listeners, serverListens, infos>>
heapVars == <<groups, sockets>>
vars == <<runtimeVars, heapVars, activeConnections, calls, caller, conn>>

Statuses == {"starting", "running", "stopping", "stopped", "failed"}

\* RuntimeInfo: active_request_count moves with active_connection_count in
\* every function, and last_error is set exactly when status is "failed".
Info == [status : Statuses, count : Nat]
ASSUME InfoAssumption == None \notin Info
NoInfo == [status |-> "stopped", count |-> 0]
SnapshotOf(s) == IF infos[s] = None THEN NoInfo ELSE infos[s]

Group == [default : Servers \cup {None}, order : Seq(Servers), servers : SUBSET Servers]
EmptyGroup == [default |-> None, order |-> <<>>, servers |-> {}]

\* The accept_loop of a group: never bound, accepting, told to abort but not
\* yet dropped by the executor, or gone.  The socket is open while it lives.
Socket == [addr : Addrs \cup {None}, task : {"none", "running", "aborting", "gone"}]
Open(g) == sockets[g].task \in {"running", "aborting"}

CallerSteps == {"idle", "lookup_group", "lookup_config", "snapshot", "update_info",
    "unlisten", "remove_config", "drop_listener", "stop_snapshot", "stop_info",
    "starting", "find_group", "bind", "bind_failed", "register", "insert_config",
    "record_listen", "running"}
\* addr is the address to apply, None when the call is stop.
Locals == [at : CallerSteps, server : Servers \cup {None}, addr : Addrs \cup {None},
           old : Addrs \cup {None}, group : GroupIds \cup {None}, count : Nat]
Idle == [at |-> "idle", server |-> None, addr |-> None, old |-> None, group |-> None,
         count |-> 0]

ConnSteps == {"idle", "accepted", "count", "count_info", "serving", "uncount", "uncount_info"}
Connection == [at : ConnSteps, group : GroupIds \cup {None}, server : Servers \cup {None}]
NoConn == [at |-> "idle", group |-> None, server |-> None]

Init ==
    /\ listeners = [a \in Addrs |-> None]
    /\ serverListens = [s \in Servers |-> None]
    /\ infos = [s \in Servers |-> None]
    /\ groups = [g \in GroupIds |-> EmptyGroup]
    /\ sockets = [g \in GroupIds |-> [addr |-> None, task |-> "none"]]
    /\ activeConnections = 0
    /\ calls = 0
    /\ caller = [c \in Callers |-> Idle]
    /\ conn = [k \in Conns |-> NoConn]

----------------------------------------------------------------------------
(* insert_server_config and remove_server_config, on one ListenGroup.      *)

\* Vec::retain of the other ids.  An id is in the Vec at most once
\* (GroupsWellFormed), so at most one position goes.
Without(order, s) ==
    IF \E i \in DOMAIN order : order[i] = s
    THEN LET i == CHOOSE j \in DOMAIN order : order[j] = s
         IN  [j \in 1..(Len(order) - 1) |-> IF j < i THEN order[j] ELSE order[j + 1]]
    ELSE order

InsertServer(grp, s) ==
    [default |-> IF grp.default = None THEN s ELSE grp.default,
     order   |-> IF s \in grp.servers THEN grp.order ELSE Append(grp.order, s),
     servers |-> grp.servers \cup {s}]

\* Faulty variant: the default is not moved to the next server.
RemoveServerKeepingDefault(grp, s) ==
    [default |-> grp.default, order |-> Without(grp.order, s), servers |-> grp.servers \ {s}]

RemoveServer(grp, s) ==
    LET rest == Without(grp.order, s)
    IN  [default |-> IF grp.default # s THEN grp.default
                     ELSE IF rest = <<>> THEN None ELSE Head(rest),
         order   |-> rest,
         servers |-> grp.servers \ {s}]

----------------------------------------------------------------------------
(* Calls of apply and stop, one step per lock acquisition.                 *)

Goto(c, step) == caller' = [caller EXCEPT ![c].at = step]
Return(c) == caller' = [caller EXCEPT ![c] = Idle]
SetInfo(c, status, count) ==
    infos' = [infos EXCEPT ![caller[c].server] = [status |-> status, count |-> count]]

\* Faulty variant: apply to another address does not stop the server first.
ApplyWithoutStop(c, s, a) ==
    /\ caller[c].at = "idle"
    /\ calls < MaxCalls
    /\ calls' = calls + 1
    /\ caller' = [caller EXCEPT ![c] =
         [Idle EXCEPT !.server = s, !.addr = a,
                      !.at = IF serverListens[s] = a THEN "lookup_group" ELSE "starting"]]
    /\ UNCHANGED <<runtimeVars, heapVars, activeConnections, conn>>

\* apply(server): format the address and read server_listens.
Apply(c, s, a) ==
    /\ caller[c].at = "idle"
    /\ calls < MaxCalls
    /\ calls' = calls + 1
    /\ caller' = [caller EXCEPT ![c] =
         [Idle EXCEPT !.server = s, !.addr = a,
                      !.at = IF serverListens[s] = a THEN "lookup_group"
                             ELSE IF serverListens[s] # None THEN "unlisten"
                             ELSE "starting"]]
    /\ UNCHANGED <<runtimeVars, heapVars, activeConnections, conn>>

\* server_config takes two locks: the listeners map, then the group.
LookupGroup(c) ==
    /\ caller[c].at = "lookup_group"
    /\ LET g == listeners[caller[c].addr]
       IN  caller' = [caller EXCEPT
             ![c].at = IF g = None THEN "unlisten" ELSE "lookup_config",
             ![c].group = g]
    /\ UNCHANGED <<runtimeVars, heapVars, activeConnections, calls, conn>>

LookupConfig(c) ==
    /\ caller[c].at = "lookup_config"
    /\ caller' = [caller EXCEPT
         ![c].at = IF caller[c].server \in groups[caller[c].group].servers
                   THEN "snapshot" ELSE "unlisten",
         ![c].group = None]
    /\ UNCHANGED <<runtimeVars, heapVars, activeConnections, calls, conn>>

\* The same address: the configuration is replaced in place (not modelled
\* here) and the counts are read and written back under two acquisitions.
Snapshot(c) ==
    /\ caller[c].at = "snapshot"
    /\ caller' = [caller EXCEPT ![c].at = "update_info",
                                ![c].count = SnapshotOf(caller[c].server).count]
    /\ UNCHANGED <<runtimeVars, heapVars, activeConnections, calls, conn>>

UpdateInfo(c) ==
    /\ caller[c].at = "update_info"
    /\ SetInfo(c, "running", caller[c].count)
    /\ Return(c)
    /\ UNCHANGED <<listeners, serverListens, heapVars, activeConnections, calls, conn>>

\* stop(id) begins in remove_server_from_listener; apply calls it too.
Stop(c, s) ==
    /\ caller[c].at = "idle"
    /\ calls < MaxCalls
    /\ calls' = calls + 1
    /\ caller' = [caller EXCEPT ![c] = [Idle EXCEPT !.server = s, !.at = "unlisten"]]
    /\ UNCHANGED <<runtimeVars, heapVars, activeConnections, conn>>

Unlisten(c) ==
    /\ caller[c].at = "unlisten"
    /\ LET s == caller[c].server
       IN  /\ serverListens' = [serverListens EXCEPT ![s] = None]
           /\ caller' = [caller EXCEPT
                ![c].at = IF serverListens[s] = None THEN "stop_snapshot" ELSE "remove_config",
                ![c].old = serverListens[s]]
    /\ UNCHANGED <<listeners, infos, heapVars, activeConnections, calls, conn>>

\* Faulty variant: emptiness is tested before the server is taken out.
RemoveConfigTestedFirst(c) ==
    /\ caller[c].at = "remove_config"
    /\ LET g == listeners[caller[c].old]
       IN  IF g = None
           THEN Goto(c, "stop_snapshot") /\ UNCHANGED groups
           ELSE /\ groups' = [groups EXCEPT ![g] = RemoveServer(@, caller[c].server)]
                /\ Goto(c, IF groups[g].servers = {} THEN "drop_listener" ELSE "stop_snapshot")
    /\ UNCHANGED <<runtimeVars, sockets, activeConnections, calls, conn>>

\* Under the listeners lock and the group's write lock; whether the group is
\* now empty is decided here and acted on after both are released.
RemoveConfig(c) ==
    /\ caller[c].at = "remove_config"
    /\ LET g == listeners[caller[c].old]
           rest == RemoveServer(groups[g], caller[c].server)
       IN  IF g = None
           THEN Goto(c, "stop_snapshot") /\ UNCHANGED groups
           ELSE /\ groups' = [groups EXCEPT ![g] = rest]
                /\ Goto(c, IF rest.servers = {} THEN "drop_listener" ELSE "stop_snapshot")
    /\ UNCHANGED <<runtimeVars, sockets, activeConnections, calls, conn>>

\* Faulty variant: the handle is dropped without abort(), which detaches the task.
DropListenerDetached(c) ==
    /\ caller[c].at = "drop_listener"
    /\ listeners' = [listeners EXCEPT ![caller[c].old] = None]
    /\ Goto(c, "stop_snapshot")
    /\ UNCHANGED <<serverListens, infos, heapVars, activeConnections, calls, conn>>

\* Whatever listener is registered at the address now is removed and aborted.
DropListener(c) ==
    /\ caller[c].at = "drop_listener"
    /\ LET g == listeners[caller[c].old]
       IN  /\ listeners' = [listeners EXCEPT ![caller[c].old] = None]
           /\ sockets' = IF g # None /\ sockets[g].task = "running"
                         THEN [sockets EXCEPT ![g].task = "aborting"] ELSE sockets
    /\ Goto(c, "stop_snapshot")
    /\ UNCHANGED <<serverListens, infos, groups, activeConnections, calls, conn>>

StopSnapshot(c) ==
    /\ caller[c].at = "stop_snapshot"
    /\ caller' = [caller EXCEPT ![c].at = "stop_info",
                                ![c].old = None,
                                ![c].count = SnapshotOf(caller[c].server).count]
    /\ UNCHANGED <<runtimeVars, heapVars, activeConnections, calls, conn>>

\* Faulty variant: stop returns without writing the status.
StopInfoUnwritten(c) ==
    /\ caller[c].at = "stop_info"
    /\ IF caller[c].addr # None THEN Goto(c, "starting") ELSE Return(c)
    /\ UNCHANGED <<runtimeVars, heapVars, activeConnections, calls, conn>>

StopInfo(c) ==
    /\ caller[c].at = "stop_info"
    /\ SetInfo(c, IF caller[c].count > 0 THEN "stopping" ELSE "stopped", caller[c].count)
    /\ IF caller[c].addr # None THEN Goto(c, "starting") ELSE Return(c)
    /\ UNCHANGED <<listeners, serverListens, heapVars, activeConnections, calls, conn>>

Starting(c) ==
    /\ caller[c].at = "starting"
    /\ SetInfo(c, "starting", 0)
    /\ Goto(c, "find_group")
    /\ UNCHANGED <<listeners, serverListens, heapVars, activeConnections, calls, conn>>

FindGroup(c) ==
    /\ caller[c].at = "find_group"
    /\ LET g == listeners[caller[c].addr]
       IN  caller' = [caller EXCEPT ![c].at = IF g = None THEN "bind" ELSE "insert_config",
                                    ![c].group = g]
    /\ UNCHANGED <<runtimeVars, heapVars, activeConnections, calls, conn>>

\* TcpListener::bind, then a new group and its accept_loop task.  The address
\* is free once the socket of an earlier listener is closed.
Bind(c) ==
    /\ caller[c].at = "bind"
    /\ \A h \in GroupIds : sockets[h].addr = caller[c].addr => ~Open(h)
    /\ \E g \in GroupIds :
         /\ sockets[g].task = "none"
         /\ sockets' = [sockets EXCEPT ![g] = [addr |-> caller[c].addr, task |-> "running"]]
         /\ caller' = [caller EXCEPT ![c].at = "register", ![c].group = g]
    /\ UNCHANGED <<runtimeVars, groups, activeConnections, calls, conn>>

\* The address is in use, by this process or by another one.
BindError(c) ==
    /\ caller[c].at = "bind"
    /\ Goto(c, "bind_failed")
    /\ UNCHANGED <<runtimeVars, heapVars, activeConnections, calls, conn>>

BindFailed(c) ==
    /\ caller[c].at = "bind_failed"
    /\ SetInfo(c, "failed", 0)
    /\ Return(c)
    /\ UNCHANGED <<listeners, serverListens, heapVars, activeConnections, calls, conn>>

\* The client of the admin API has left and the handler is dropped where it
\* waits: for the lock of the configuration, or for the name of the address to
\* be resolved, with the old listener stopped and the status "starting".
Abandon(c) ==
    /\ caller[c].at \in {"snapshot", "bind"}
    /\ Return(c)
    /\ UNCHANGED <<runtimeVars, heapVars, activeConnections, calls, conn>>

\* HashMap::insert: a handle already there is dropped, its task detached.
Register(c) ==
    /\ caller[c].at = "register"
    /\ listeners' = [listeners EXCEPT ![caller[c].addr] = caller[c].group]
    /\ Goto(c, "insert_config")
    /\ UNCHANGED <<serverListens, infos, heapVars, activeConnections, calls, conn>>

InsertConfig(c) ==
    /\ caller[c].at = "insert_config"
    /\ groups' = [groups EXCEPT ![caller[c].group] = InsertServer(@, caller[c].server)]
    /\ caller' = [caller EXCEPT ![c].at = "record_listen", ![c].group = None]
    /\ UNCHANGED <<runtimeVars, sockets, activeConnections, calls, conn>>

RecordListen(c) ==
    /\ caller[c].at = "record_listen"
    /\ serverListens' = [serverListens EXCEPT ![caller[c].server] = caller[c].addr]
    /\ Goto(c, "running")
    /\ UNCHANGED <<listeners, infos, heapVars, activeConnections, calls, conn>>

Running(c) ==
    /\ caller[c].at = "running"
    /\ SetInfo(c, "running", 0)
    /\ Return(c)
    /\ UNCHANGED <<listeners, serverListens, heapVars, activeConnections, calls, conn>>

----------------------------------------------------------------------------
(* The accept loops and the connection tasks they spawn.                   *)

\* abort() takes effect when the task next yields; until then it accepts.
Accept(k) ==
    /\ conn[k].at = "idle"
    /\ \E g \in GroupIds :
         /\ Open(g)
         /\ conn' = [conn EXCEPT ![k] = [at |-> "accepted", group |-> g, server |-> None]]
    /\ UNCHANGED <<runtimeVars, heapVars, activeConnections, calls, caller>>

\* The while-let ends on the first error and the task with it.
AcceptError(g) ==
    /\ AcceptMayFail
    /\ Open(g)
    /\ sockets' = [sockets EXCEPT ![g].task = "gone"]
    /\ UNCHANGED <<runtimeVars, groups, activeConnections, calls, caller, conn>>

AbortTakesEffect(g) ==
    /\ sockets[g].task = "aborting"
    /\ sockets' = [sockets EXCEPT ![g].task = "gone"]
    /\ UNCHANGED <<runtimeVars, groups, activeConnections, calls, caller, conn>>

\* The connection is attributed to the group's default server, or to none.
DefaultServerId(k) ==
    /\ conn[k].at = "accepted"
    /\ LET s == groups[conn[k].group].default
       IN  conn' = [conn EXCEPT ![k].at = IF s = None THEN "serving" ELSE "count",
                                ![k].server = s]
    /\ UNCHANGED <<runtimeVars, heapVars, activeConnections, calls, caller>>

\* increment_connection: the atomic, then the info if there is one.
Count(k) ==
    /\ conn[k].at = "count"
    /\ activeConnections' = activeConnections + 1
    /\ conn' = [conn EXCEPT ![k].at = "count_info"]
    /\ UNCHANGED <<runtimeVars, heapVars, calls, caller>>

CountInfo(k) ==
    /\ conn[k].at = "count_info"
    /\ LET s == conn[k].server
       IN  infos' = IF infos[s] = None THEN infos ELSE [infos EXCEPT ![s].count = @ + 1]
    /\ conn' = [conn EXCEPT ![k].at = "serving"]
    /\ UNCHANGED <<listeners, serverListens, heapVars, activeConnections, calls, caller>>

\* Faulty variant: an early return skips decrement_connection.
FinishUncounted(k) ==
    /\ conn[k].at = "serving"
    /\ conn' = [conn EXCEPT ![k] = NoConn]
    /\ UNCHANGED <<runtimeVars, heapVars, activeConnections, calls, caller>>

\* handle_connection_group returns, with outcomes or with an error.
Finish(k) ==
    /\ conn[k].at = "serving"
    /\ conn' = [conn EXCEPT ![k] = IF conn[k].server = None THEN NoConn
                                   ELSE [@ EXCEPT !.at = "uncount", !.group = None]]
    /\ UNCHANGED <<runtimeVars, heapVars, activeConnections, calls, caller>>

\* decrement_connection.
Uncount(k) ==
    /\ conn[k].at = "uncount"
    /\ activeConnections' = activeConnections - 1
    /\ conn' = [conn EXCEPT ![k].at = "uncount_info"]
    /\ UNCHANGED <<runtimeVars, heapVars, calls, caller>>

\* Faulty variant: a plain subtraction instead of saturating_sub.
DecrementedInfoPlain(info) ==
    [status |-> IF info.status = "stopping" /\ info.count = 1 THEN "stopped" ELSE info.status,
     count  |-> info.count - 1]

DecrementedInfo(info) ==
    LET left == IF info.count = 0 THEN 0 ELSE info.count - 1
    IN  [status |-> IF info.status = "stopping" /\ left = 0 THEN "stopped" ELSE info.status,
         count  |-> left]

UncountInfo(k) ==
    /\ conn[k].at = "uncount_info"
    /\ LET s == conn[k].server
       IN  infos' = IF infos[s] = None THEN infos
                    ELSE [infos EXCEPT ![s] = DecrementedInfo(@)]
    /\ conn' = [conn EXCEPT ![k] = NoConn]
    /\ UNCHANGED <<listeners, serverListens, heapVars, activeConnections, calls, caller>>

----------------------------------------------------------------------------
CallStep(c) ==
    \/ LookupGroup(c) \/ LookupConfig(c) \/ Snapshot(c) \/ UpdateInfo(c)
    \/ Unlisten(c) \/ RemoveConfig(c) \/ DropListener(c) \/ StopSnapshot(c) \/ StopInfo(c)
    \/ Starting(c) \/ FindGroup(c) \/ Bind(c) \/ BindError(c) \/ BindFailed(c)
    \/ Register(c) \/ InsertConfig(c) \/ RecordListen(c) \/ Running(c)

ConnStep(k) ==
    \/ DefaultServerId(k) \/ Count(k) \/ CountInfo(k)
    \/ Finish(k) \/ Uncount(k) \/ UncountInfo(k)

Next ==
    \/ \E c \in Callers, s \in Servers : Stop(c, s) \/ \E a \in Addrs : Apply(c, s, a)
    \/ \E c \in Callers : CallStep(c) \/ Abandon(c)
    \/ \E k \in Conns : Accept(k) \/ ConnStep(k)
    \/ \E g \in GroupIds : AcceptError(g) \/ AbortTakesEffect(g)

Spec == Init /\ [][Next]_vars

\* A call that was made and a connection that was accepted are driven by the
\* executor until they end, and so is an aborted task.  Nobody has to make a
\* call or open a connection.
Fairness ==
    /\ \A c \in Callers : WF_vars(CallStep(c))
    /\ \A k \in Conns : WF_vars(ConnStep(k))
    /\ \A g \in GroupIds : WF_vars(AbortTakesEffect(g))

FairSpec == Spec /\ Fairness
----------------------------------------------------------------------------
TypeOK ==
    /\ listeners \in [Addrs -> GroupIds \cup {None}]
    /\ serverListens \in [Servers -> Addrs \cup {None}]
    /\ infos \in [Servers -> Info \cup {None}]
    /\ groups \in [GroupIds -> Group]
    /\ sockets \in [GroupIds -> Socket]
    /\ activeConnections \in Nat
    /\ calls \in 0..MaxCalls
    /\ caller \in [Callers -> Locals]
    /\ conn \in [Conns -> Connection]

\* The connections between increment_connection and decrement_connection.
Counted == {k \in Conns : \/ conn[k].at \in {"count_info", "uncount"}
                          \/ conn[k].at = "serving" /\ conn[k].server # None}

\* The global counter that the runtime status reports is exact at every step:
\* whatever the calls do to groups and infos meanwhile, a connection that was
\* counted is uncounted once, and the atomic never wraps below zero.
CounterExact == activeConnections = Cardinality(Counted)

\* A group's Vec and HashMap list the same servers, none twice, and the default
\* is the first of the Vec: insert_server_config and remove_server_config keep
\* three redundant fields in step under every interleaving of calls.
WellFormed(grp) ==
    /\ grp.servers = {grp.order[i] : i \in DOMAIN grp.order}
    /\ \A i, j \in DOMAIN grp.order : grp.order[i] = grp.order[j] => i = j
    /\ grp.default = IF grp.order = <<>> THEN None ELSE Head(grp.order)
GroupsWellFormed == \A g \in GroupIds : WellFormed(groups[g])

\* While accept never fails, the registered listeners and the live sockets are
\* the same: no registered listener is dead, and no accept loop runs that
\* neither the map nor the call that has just bound it can reach to abort.
ListenersOwnSockets ==
    /\ \A a \in Addrs : listeners[a] # None =>
         sockets[listeners[a]] = [addr |-> a, task |-> "running"]
    /\ \A g \in GroupIds : sockets[g].task = "running" =>
         \/ listeners[sockets[g].addr] = g
         \/ \E c \in Callers : caller[c].at = "register" /\ caller[c].group = g

\* A listener that serves nobody is not kept: however the calls interleave, an
\* open socket whose group is empty is given a server or closed, so no address
\* stays taken after the last server has left it.
IdleListenerReleased ==
    \A g \in GroupIds : Open(g) /\ groups[g].servers = {}
                           ~> ~(Open(g) /\ groups[g].servers = {})

----------------------------------------------------------------------------
\* No call of apply or stop is in progress.
Quiet == \A c \in Callers : caller[c].at = "idle"
StatusOf(s) == SnapshotOf(s).status

\* With no call in progress, a server reported "running" is in the group of the
\* listener that is registered at its recorded address.  (Whether that listener
\* still accepts is ListenersOwnSockets: an accept error ends it unnoticed.)
RunningMeansRegistered ==
    Quiet => \A s \in Servers : StatusOf(s) = "running" =>
        /\ serverListens[s] # None
        /\ listeners[serverListens[s]] # None
        /\ s \in groups[listeners[serverListens[s]]].servers

\* With no call in progress, a server reported stopped, stopping or failed is
\* in no group that an accept loop serves.
StoppedMeansNotServed ==
    Quiet => \A s \in Servers : StatusOf(s) # "running" =>
        \A g \in GroupIds : sockets[g].task = "running" => s \notin groups[g].servers

\* A server that was left with connections to drain does not stay "stopping":
\* when they have ended it becomes "stopped" (or is started again).
StoppingEnds == \A s \in Servers : StatusOf(s) = "stopping" ~> StatusOf(s) # "stopping"

----------------------------------------------------------------------------
\* What one admin handler at a time sees: each server is served at no address
\* or at one, moves only through not being served, and only while a call for
\* that very server is in progress.
servedAddrs == [s \in Servers |->
    {a \in Addrs : listeners[a] # None /\ s \in groups[listeners[a]].servers}]
administered == {caller[c].server : c \in {d \in Callers : caller[d].at # "idle"}}
Placement == INSTANCE ServedAddress WITH served <- servedAddrs, busy <- administered
ImplementsServedAddress == Placement!Spec
=============================================================================
