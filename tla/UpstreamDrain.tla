--------------------------- MODULE UpstreamDrain ---------------------------
(***************************************************************************)
(* Upstreams of one HTTP server while they are added, replaced and deleted *)
(* under traffic: the admin handlers (src/src/admin.rs) that change the    *)
(* stored configuration and then apply it, ProxyState                      *)
(* (src/src/runtime.rs), which counts the requests of each upstream and    *)
(* keeps the removed ones as retired until they drain, and the proxied     *)
(* requests, which work on a copy of the configuration they started with.  *)
(*                                                                         *)
(* The stored configuration changes under one mutex, the runtime copy      *)
(* under another, and a handler holds neither between the two.  A save may *)
(* fail after the stored configuration has changed in memory, and a bind   *)
(* may fail: the handler then returns an error and applies nothing more.   *)
(***************************************************************************)
EXTENDS Naturals, FiniteSets

CONSTANTS
    Upstreams,   \* upstream ids; a deleted id is never handed out again
    Requests,    \* proxied requests in flight at the same time
    Admins,      \* admin handlers running at the same time
    None,
    MayFail,     \* whether a save or a bind may fail and a handler be dropped
    MaxStarts    \* bound: how often the server is started

ASSUME NoneAssumption == None \notin Upstreams
ASSUME RequestsAssumption == IsFiniteSet(Requests)
ASSUME FailAssumption == MayFail \in BOOLEAN
ASSUME StartsAssumption == MaxStarts \in Nat

VARIABLES
    stored,     \* ids of the upstreams in the stored configuration
    used,       \* ids handed out so far (new_id never repeats one)
    enabled,    \* the stored "enabled" flag
    serving,    \* whether the server is in its listener's group
    running,    \* ids in the configuration it has there; {} when it is not
    starts,     \* identity of the Arc<RwLock<..>> cell that holds running
    active,     \* ProxyState.active_upstream_requests; no entry is 0
    retired,    \* ids in ProxyState.retired_upstreams
    failed,     \* history: whether a save or a bind has failed or a handler was
                \* dropped since a call last brought the runtime up to date
    admin,      \* per handler, its step and its locals
    request     \* per request, its step and its locals

config == <<stored, used, enabled>>
served == <<serving, running, starts>>
vars == <<config, served, active, retired, failed, admin, request>>

AdminSteps == {"idle", "get", "move", "apply", "reconcile", "write", "stop"}
NoAdmin == [at |-> "idle", new |-> {}, old |-> {}, cell |-> 0]
AdminState == [at : AdminSteps, new : SUBSET Upstreams, old : SUBSET Upstreams, cell : Nat]

RequestSteps == {"idle", "connecting", "connected", "active"}
NoRequest == [at |-> "idle", candidates |-> {}, upstream |-> None]
RequestState == [at : RequestSteps, candidates : SUBSET Upstreams,
                 upstream : Upstreams \cup {None}]

\* main.rs applies the stored servers that are enabled before it serves the
\* admin API; one whose address cannot be bound is reported and left out.
Init ==
    /\ stored \in SUBSET Upstreams
    /\ used = stored
    /\ enabled \in BOOLEAN
    /\ serving \in BOOLEAN /\ (serving => enabled)
    /\ running = IF serving THEN stored ELSE {}
    /\ enabled /\ ~MayFail => serving
    /\ failed = (serving # enabled)
    /\ starts = 0
    /\ active = [u \in Upstreams |-> 0]
    /\ retired = {}
    /\ admin = [a \in Admins |-> NoAdmin]
    /\ request = [r \in Requests |-> NoRequest]

----------------------------------------------------------------------------
(* Admin handlers.                                                         *)

\* The storage call saves what it has changed: the handler goes on, or the save
\* fails and it returns the error, the change left in memory.
SaveThen(a, locals) ==
    \/ admin' = [admin EXCEPT ![a] = locals] /\ UNCHANGED failed
    \/ MayFail /\ failed' = TRUE /\ UNCHANGED admin

\* Faulty variant: the handler returns without applying what it stored.
AddUpstreamNotApplied(a, new, old) ==
    /\ admin[a].at = "idle"
    /\ new \notin used
    /\ old \in stored \cup {None}
    /\ stored' = (stored \ {old}) \cup {new}
    /\ used' = used \cup {new}
    /\ UNCHANGED <<enabled, served, active, retired, failed, admin, request>>

\* add_upstream: the new upstream takes the place of the one with the same
\* group and name, if there is one (old is its id, or None).
AddUpstream(a, new, old) ==
    /\ admin[a].at = "idle"
    /\ new \notin used
    /\ old \in stored \cup {None}
    /\ stored' = (stored \ {old}) \cup {new}
    /\ used' = used \cup {new}
    /\ SaveThen(a, [admin[a] EXCEPT !.at = "get"])
    /\ UNCHANGED <<enabled, served, active, retired, request>>

DeleteUpstream(a, u) ==
    /\ admin[a].at = "idle"
    /\ u \in stored
    /\ stored' = stored \ {u}
    /\ SaveThen(a, [admin[a] EXCEPT !.at = "get"])
    /\ UNCHANGED <<used, enabled, served, active, retired, request>>

\* reload_http_server; the route handlers, once their change is saved, read and
\* apply the upstreams in the same way.
Reload(a) ==
    /\ admin[a].at = "idle"
    /\ admin' = [admin EXCEPT ![a].at = "get"]
    /\ UNCHANGED <<config, served, active, retired, failed, request>>

\* The second, separate read of the stored configuration.
Get(a) ==
    /\ admin[a].at = "get"
    /\ admin' = [admin EXCEPT ![a] = IF enabled THEN [@ EXCEPT !.at = "apply", !.new = stored]
                                                ELSE NoAdmin]
    /\ UNCHANGED <<config, served, active, retired, failed, request>>

\* update_http_server and set_http_server_enabled work on the copy that their
\* storage call returns.  An update may change the listen address.
Update(a, moved) ==
    /\ admin[a].at = "idle"
    /\ SaveThen(a, IF enabled
                   THEN [admin[a] EXCEPT !.at = IF moved THEN "move" ELSE "apply", !.new = stored]
                   ELSE NoAdmin)
    /\ UNCHANGED <<config, served, active, retired, request>>

SetEnabled(a, on) ==
    /\ admin[a].at = "idle"
    /\ enabled' = on
    /\ SaveThen(a, [admin[a] EXCEPT !.at = IF on THEN "apply" ELSE "stop", !.new = stored])
    /\ UNCHANGED <<stored, used, served, active, retired, request>>

\* apply at another address: the server is first stopped where it is served.
Move(a) ==
    /\ admin[a].at = "move"
    /\ serving' = FALSE
    /\ running' = {}
    /\ admin' = [admin EXCEPT ![a].at = "apply"]
    /\ UNCHANGED <<config, starts, active, retired, failed, request>>

\* apply, the server being served already: copy the old configuration.
ReadOld(a) ==
    /\ admin[a].at = "apply"
    /\ serving
    /\ admin' = [admin EXCEPT ![a].at = "reconcile", ![a].old = running, ![a].cell = starts]
    /\ UNCHANGED <<config, served, active, retired, failed, request>>

\* Faulty variant: an upstream kept by the new configuration is retired as well.
ReconciledKeepingAll(old, new) == (retired \ (old \cap new)) \cup {u \in old : active[u] > 0}

\* Faulty variant: the map of retired upstreams is rebuilt by each apply.
ReconciledAnew(old, new) == {u \in old \ new : active[u] > 0}

\* reconcile_upstreams holds the lock of the retired map throughout and that
\* of the counts once per upstream; what it does to one upstream depends on
\* the count of that upstream only.
Reconciled(old, new) ==
    (retired \ (old \cap new)) \cup {u \in old \ new : active[u] > 0}

Reconcile(a) ==
    /\ admin[a].at = "reconcile"
    /\ retired' = Reconciled(admin[a].old, admin[a].new)
    /\ admin' = [admin EXCEPT ![a].at = "write"]
    /\ UNCHANGED <<config, served, active, failed, request>>

\* *config.write() = server: lost if the server was stopped meanwhile, since
\* the cell is then no longer in the listener's group.
Write(a) ==
    /\ admin[a].at = "write"
    /\ running' = IF serving /\ starts = admin[a].cell THEN admin[a].new ELSE running
    /\ admin' = [admin EXCEPT ![a] = NoAdmin]
    /\ failed' = FALSE
    /\ UNCHANGED <<config, serving, starts, active, retired, request>>

\* apply, the server not being served: a new cell, and no reconciliation.
Start(a) ==
    /\ admin[a].at = "apply"
    /\ ~serving
    /\ starts < MaxStarts
    /\ starts' = starts + 1
    /\ serving' = TRUE
    /\ running' = admin[a].new
    /\ admin' = [admin EXCEPT ![a] = NoAdmin]
    /\ failed' = FALSE
    /\ UNCHANGED <<config, active, retired, request>>

BindFails(a) ==
    /\ MayFail
    /\ admin[a].at = "apply"
    /\ ~serving
    /\ failed' = TRUE
    /\ admin' = [admin EXCEPT ![a] = NoAdmin]
    /\ UNCHANGED <<config, served, active, retired, request>>

\* The client of the admin API has left and the handler is dropped where it
\* waits: for a lock of the configuration, or in the bind.
Abandon(a) ==
    /\ MayFail
    /\ admin[a].at \in {"apply", "write"}
    /\ failed' = TRUE
    /\ admin' = [admin EXCEPT ![a] = NoAdmin]
    /\ UNCHANGED <<config, served, active, retired, request>>

\* Faulty variant: the configuration stays in the group.
StopKeepingConfig(a) ==
    /\ admin[a].at = "stop"
    /\ serving' = FALSE
    /\ admin' = [admin EXCEPT ![a] = NoAdmin]
    /\ failed' = FALSE
    /\ UNCHANGED <<config, running, starts, active, retired, request>>

Stop(a) ==
    /\ admin[a].at = "stop"
    /\ serving' = FALSE
    /\ running' = {}
    /\ admin' = [admin EXCEPT ![a] = NoAdmin]
    /\ failed' = FALSE
    /\ UNCHANGED <<config, starts, active, retired, request>>

----------------------------------------------------------------------------
(* Proxied requests (serve_proxy, build_h2_proxy_response).                *)

\* The request copies the configuration; its candidates come from the copy.
SelectCandidates(r) ==
    /\ request[r].at = "idle"
    /\ running # {}
    /\ request' = [request EXCEPT ![r] = [@ EXCEPT !.at = "connecting", !.candidates = running]]
    /\ UNCHANGED <<config, served, active, retired, failed, admin>>

\* Some candidate accepts the connection: any one, the others having failed.
Connect(r) ==
    /\ request[r].at = "connecting"
    /\ \E u \in request[r].candidates :
         request' = [request EXCEPT ![r] = [at |-> "connected", candidates |-> {}, upstream |-> u]]
    /\ UNCHANGED <<config, served, active, retired, failed, admin>>

\* Every candidate refuses or times out: 502 or 504 is answered.
ConnectFails(r) ==
    /\ request[r].at = "connecting"
    /\ request' = [request EXCEPT ![r] = NoRequest]
    /\ UNCHANGED <<config, served, active, retired, failed, admin>>

\* Faulty variant: the entry is inserted but not added to.
IncrementOnce(r) ==
    /\ request[r].at = "connected"
    /\ active' = [active EXCEPT ![request[r].upstream] = 1]
    /\ request' = [request EXCEPT ![r].at = "active"]
    /\ UNCHANGED <<config, served, retired, failed, admin>>

\* increment_upstream_request, only now that the upstream is connected.
Increment(r) ==
    /\ request[r].at = "connected"
    /\ active' = [active EXCEPT ![request[r].upstream] = @ + 1]
    /\ request' = [request EXCEPT ![r].at = "active"]
    /\ UNCHANGED <<config, served, retired, failed, admin>>

\* Faulty variant: a request that ends early does not give its count back.
DropUncounted(r) ==
    /\ request[r].at = "active"
    /\ request' = [request EXCEPT ![r] = NoRequest]
    /\ UNCHANGED <<config, served, active, retired, failed, admin>>

\* UpstreamRequestGuard::drop, however the request ends.
Drop(r) ==
    /\ request[r].at = "active"
    /\ active' = [active EXCEPT ![request[r].upstream] = IF @ = 0 THEN 0 ELSE @ - 1]
    /\ request' = [request EXCEPT ![r] = NoRequest]
    /\ UNCHANGED <<config, served, retired, failed, admin>>

----------------------------------------------------------------------------
Handler(a) ==
    \/ Get(a) \/ Move(a) \/ ReadOld(a) \/ Reconcile(a) \/ Write(a)
    \/ Start(a) \/ BindFails(a) \/ Stop(a)

Proxy(r) == Connect(r) \/ ConnectFails(r) \/ Increment(r) \/ Drop(r)

Call(a) ==
    \/ \E new \in Upstreams, old \in Upstreams \cup {None} : AddUpstream(a, new, old)
    \/ \E u \in Upstreams : DeleteUpstream(a, u)
    \/ \E flag \in BOOLEAN : SetEnabled(a, flag) \/ Update(a, flag)
    \/ Reload(a)

Next ==
    \/ \E a \in Admins : Call(a) \/ Handler(a) \/ Abandon(a)
    \/ \E r \in Requests : SelectCandidates(r) \/ Proxy(r)

Spec == Init /\ [][Next]_vars

\* The executor drives the handlers and the requests that have begun.  That a
\* request which is being served also ends is up to its peers: each read and
\* write has a timeout, but a websocket or an endless stream has no limit.
FairSpec ==
    /\ Spec
    /\ \A a \in Admins : WF_vars(Handler(a))
    /\ \A r \in Requests : WF_vars(Proxy(r))

----------------------------------------------------------------------------
TypeOK ==
    /\ stored \in SUBSET Upstreams
    /\ used \in SUBSET Upstreams
    /\ enabled \in BOOLEAN
    /\ serving \in BOOLEAN
    /\ running \in SUBSET Upstreams
    /\ serving \/ running = {}
    /\ starts \in 0..MaxStarts
    /\ active \in [Upstreams -> Nat]
    /\ retired \in SUBSET Upstreams
    /\ failed \in BOOLEAN
    /\ admin \in [Admins -> AdminState]
    /\ request \in [Requests -> RequestState]

\* The requests that hold an UpstreamRequestGuard for u.
Guards(u) == {r \in Requests : request[r].at = "active" /\ request[r].upstream = u}

\* The count of an upstream is the number of guards alive for it, whatever the
\* handlers do meanwhile: the saturating subtraction never saturates, so
\* "dead" is never reported while a guard is held.
ActiveCountExact == \A u \in Upstreams : active[u] = Cardinality(Guards(u))

Quiet == \A a \in Admins : admin[a].at = "idle"

\* Between calls the listener serves what is stored, the upstreams of an enabled
\* server and nothing of a disabled one, unless a save or a bind has failed or a
\* handler was dropped, and no later call has brought the runtime up to date.
RuntimeFollowsStorage ==
    Quiet /\ ~failed => serving = enabled /\ running = IF enabled THEN stored ELSE {}

\* Once the call that retired it has returned, an upstream shown as deading or
\* dead is not in the configuration that new requests copy, with the exception
\* of RuntimeFollowsStorage: a handler may be dropped behind the reconciliation.
RetiredGetsNoNewRequests == Quiet /\ ~failed => retired \cap running = {}

\* An upstream that was retired stays observable: no later call drops it from
\* the map, so an operator who saw "deading" can wait for "dead".
RetiredStaysVisible == [][retired \subseteq retired']_vars

\* If requests end, a retired upstream drains: once it has left the running
\* configuration it is dead for good from some point on, although requests that
\* had copied the old one may still connect to it.
RetiredDrains ==
    \A u \in Upstreams :
      u \in retired /\ u \notin running ~> [](u \in retired /\ active[u] = 0)

\* After the call that removed it has returned without an error, an upstream
\* that still serves requests is shown as deading.
RemovedActiveIsDeading ==
    Quiet /\ ~failed => \A u \in used \ stored : active[u] > 0 => u \in retired
=============================================================================
