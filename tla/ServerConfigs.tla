--------------------------- MODULE ServerConfigs ---------------------------
(***************************************************************************)
(* The configurations of the HTTP servers as data: what each storage       *)
(* operation of src/src/storage.rs makes of them and when it refuses.      *)
(*                                                                         *)
(* Kept of a server: the enabled and graceful.enabled flags, the id, group *)
(* and name of its upstreams, and the id, match rule (type and path) and   *)
(* proxied group of its routes.  The Vecs are sets: no operation here      *)
(* depends on their order.                                                 *)
(***************************************************************************)
EXTENDS FiniteSets

CONSTANTS
    Servers, UpstreamIds, RouteIds,   \* ids that new_id may return
    Groups, Names,                    \* upstream.group and upstream.name
    Matches,                          \* match.type with match.path
    None                              \* no server under an id; no proxied group

ASSUME NoneIsNothing == None \notin Groups

Upstream == [id : UpstreamIds, group : Groups, name : Names]
Route == [id : RouteIds, match : Matches, group : Groups \cup {None}]
Server == [enabled : BOOLEAN, graceful : BOOLEAN,
           upstreams : SUBSET Upstream, routes : SUBSET Route]

\* HttpServerFile: the servers present are those whose entry is not None.
Empty == [s \in Servers |-> None]
Present(d) == {s \in Servers : d[s] # None}
NewServer(graceful) ==
    [enabled |-> TRUE, graceful |-> graceful, upstreams |-> {}, routes |-> {}]

\* new_id never repeats an id.  An id nobody has any more stands for a new one.
FreshUpstream(d, u) == \A s \in Present(d) : \A x \in d[s].upstreams : x.id # u
FreshRoute(d, r) == \A s \in Present(d) : \A x \in d[s].routes : x.id # r

\* validate_loaded_file, of the fields kept: ids and match rules are unique.
\* It does not look at upstream groups and names, nor at the groups of routes.
UniqueIds(set) == \A x, y \in set : x.id = y.id => x = y
UniqueMatches(routes) == \A x, y \in routes : x.match = y.match => x = y
ValidServer(server) ==
    UniqueIds(server.upstreams) /\ UniqueIds(server.routes) /\ UniqueMatches(server.routes)
Valid(d) == \A s \in Present(d) : ValidServer(d[s])

----------------------------------------------------------------------------
(* The operations: new is what the call makes of d when it is not refused. *)

Create(d, new, s, graceful) ==
    d[s] = None /\ new = [d EXCEPT ![s] = NewServer(graceful)]

\* update replaces alias, listen, conf and graceful; the last matters here.
Update(d, new, s, graceful) ==
    s \in Present(d) /\ new = [d EXCEPT ![s].graceful = graceful]

SetEnabled(d, new, s, on) ==
    s \in Present(d) /\ new = [d EXCEPT ![s].enabled = on]

Delete(d, new, s) ==
    s \in Present(d) /\ ~d[s].enabled /\ new = [d EXCEPT ![s] = None]

\* An upstream of the same group and name is replaced, if graceful allows it.
SameTarget(x, up) == x.group = up.group /\ x.name = up.name

\* Faulty variant: the upstream that is replaced is not taken out.
AddUpstreamKeepingOld(d, new, s, up) ==
    /\ s \in Present(d)
    /\ FreshUpstream(d, up.id)
    /\ d[s].graceful \/ \A x \in d[s].upstreams : ~SameTarget(x, up)
    /\ new = [d EXCEPT ![s].upstreams = @ \cup {up}]

AddUpstream(d, new, s, up) ==
    /\ s \in Present(d)
    /\ FreshUpstream(d, up.id)
    /\ d[s].graceful \/ \A x \in d[s].upstreams : ~SameTarget(x, up)
    /\ new = [d EXCEPT ![s].upstreams = {x \in @ : ~SameTarget(x, up)} \cup {up}]

DeleteUpstream(d, new, s, up) ==
    s \in Present(d) /\ up \in d[s].upstreams /\ new = [d EXCEPT ![s].upstreams = @ \ {up}]

\* Faulty variant: a route that repeats a match rule is accepted.
AddRouteRepeating(d, new, s, route) ==
    /\ s \in Present(d)
    /\ FreshRoute(d, route.id)
    /\ route.group = None \/ \E x \in d[s].upstreams : x.group = route.group
    /\ new = [d EXCEPT ![s].routes = @ \cup {route}]

\* A proxied group must exist when the route is added, not later.
AddRoute(d, new, s, route) ==
    /\ s \in Present(d)
    /\ FreshRoute(d, route.id)
    /\ route.group = None \/ \E x \in d[s].upstreams : x.group = route.group
    /\ \A x \in d[s].routes : x.match # route.match
    /\ new = [d EXCEPT ![s].routes = @ \cup {route}]

DeleteRoute(d, new, s, route) ==
    s \in Present(d) /\ route \in d[s].routes /\ new = [d EXCEPT ![s].routes = @ \ {route}]
=============================================================================
