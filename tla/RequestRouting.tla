--------------------------- MODULE RequestRouting ---------------------------
(***************************************************************************)
(* Where a request goes (src/src/runtime.rs): the server configuration of  *)
(* its Host among those of the listener group (select_server_config), the  *)
(* route of its path (select_route), and the order in which the upstreams  *)
(* of the route's group are tried (select_upstream_candidates), which      *)
(* rotates with a cursor that all requests share.                          *)
(*                                                                         *)
(* The configurations are cells that a concurrent apply overwrites; the    *)
(* selection only tries to read them and takes a cell that is being        *)
(* written for one that does not match.                                    *)
(***************************************************************************)
EXTENDS Naturals, Sequences, FiniteSets

CONSTANTS
    Order,          \* the servers of the listener group, in its order
    Hosts,          \* host names
    Paths,          \* paths, as sequences of characters
    Configurations, \* what a server may be configured to be
    Upstreams,      \* upstream ids
    Groups,         \* upstream groups
    Requests,       \* requests handled at the same time
    None,
    Wrap,           \* the cursors count modulo this (2^64 in the code)
    MaxPicks        \* bound: how often the cursors are advanced

Servers == {Order[i] : i \in DOMAIN Order}

\* A route's type is "full" (0) or "prefix" (1); a group of None is a file route.
Route == [type : {"full", "prefix"}, path : Paths, group : Groups \cup {None}]
Upstream == [id : Upstreams, group : Groups, priority : Nat]
Configuration == [names : SUBSET Hosts, routes : Seq(Route), upstreams : Seq(Upstream)]

\* add_route and validate_loaded_file admit a match rule once, and an id once.
UniqueMatches(routes) == \A i, j \in DOMAIN routes :
    routes[i].type = routes[j].type /\ routes[i].path = routes[j].path => i = j
UniqueIds(upstreams) == \A i, j \in DOMAIN upstreams : upstreams[i].id = upstreams[j].id => i = j

ASSUME OrderAssumption == Order \in Seq(Servers) /\ Order # <<>>
ASSUME PathsAssumption == \A p \in Paths : p \in Seq({p[i] : i \in DOMAIN p})
ASSUME ConfigurationsAssumption == \A c \in Configurations :
    c \in Configuration /\ UniqueMatches(c.routes) /\ UniqueIds(c.upstreams)
ASSUME BoundsAssumption == Wrap \in Nat \ {0} /\ MaxPicks \in Nat
ASSUME NoneAssumption == None \notin Servers \cup Groups \cup Hosts \cup Nat

VARIABLES
    config,    \* server -> its configuration
    writing,   \* servers whose cell an apply has or waits for the write lock of
    cursor,    \* ProxyState.round_robin: key -> cursor
    picks,     \* how often the cursors have been advanced
    firsts,    \* history: key -> upstream -> how often it was to be tried first
    rewritten, \* history: whether a configuration has been overwritten
    request    \* per request, its step and its locals

vars == <<config, writing, cursor, picks, firsts, rewritten, request>>

Key == Servers \X Groups \X {u.priority : u \in
         UNION {{c.upstreams[i] : i \in DOMAIN c.upstreams} : c \in Configurations}}

RequestSteps == {"idle", "by_host", "default", "read", "route", "candidates", "done"}
\* next is the position in Order; quiet, a history flag, says that no cell was
\* locked since the selection began; copy is the configuration cloned.
Blank == [at |-> "idle", host |-> None, path |-> <<>>, next |-> 1, quiet |-> TRUE,
          server |-> None, copy |-> None, group |-> None, left |-> {}, candidates |-> <<>>]

Init ==
    /\ config \in [Servers -> Configurations]
    /\ writing = {}
    /\ cursor = [k \in Key |-> 0]
    /\ picks = 0
    /\ firsts = [k \in Key |-> [u \in Upstreams |-> 0]]
    /\ rewritten = FALSE
    /\ request = [r \in Requests |-> Blank]

----------------------------------------------------------------------------
(* apply at the same address: *config.write().await = server.              *)

BeginWrite(s) ==
    /\ s \notin writing
    /\ writing' = writing \cup {s}
    /\ request' = [r \in Requests |-> [request[r] EXCEPT !.quiet = FALSE]]
    /\ UNCHANGED <<config, cursor, picks, firsts, rewritten>>

EndWrite(s) ==
    /\ s \in writing
    /\ \E c \in Configurations : config' = [config EXCEPT ![s] = c]
    /\ writing' = writing \ {s}
    /\ rewritten' = TRUE
    /\ UNCHANGED <<cursor, picks, firsts, request>>

----------------------------------------------------------------------------
(* select_server_config.                                                   *)

StepTo(r, locals) ==
    /\ request' = [request EXCEPT ![r] = locals]
    /\ UNCHANGED <<config, writing, cursor, picks, firsts, rewritten>>

\* A request with a Host (that normalize_host accepts), or without one.
Arrive(r, host, path) ==
    /\ request[r].at \in {"idle", "done"}
    /\ StepTo(r, [Blank EXCEPT !.at = IF host = None THEN "default" ELSE "by_host",
                               !.host = host, !.path = path, !.quiet = writing = {}])

\* Faulty variant: a cell that is locked is taken for a match.
MatchesLocked(q, s) == s \in writing \/ q.host \in config[s].names

\* try_read: a locked cell is taken for one that does not match.
MatchesHost(q, s) == s \notin writing /\ q.host \in config[s].names

\* Faulty variants: one cell too many, and one cell only.
NoneLeft(q) == q.next > Len(Order)
OneOnly(q) == TRUE

LastTried(q) == q.next = Len(Order)

\* The cells one after the other, each tried in a step of its own.
TryHost(r) ==
    /\ request[r].at = "by_host"
    /\ LET q == request[r]
           s == Order[q.next]
       IN  StepTo(r, IF MatchesHost(q, s) THEN [q EXCEPT !.at = "read", !.server = s]
                     ELSE IF LastTried(q) THEN [q EXCEPT !.at = "default"]
                     ELSE [q EXCEPT !.next = @ + 1])

\* The group's default: its first server.  If its cell is locked, the one that
\* the connection began with is taken: the same server, while the group stays.
TakeDefault(r) ==
    /\ request[r].at = "default"
    /\ StepTo(r, [request[r] EXCEPT !.at = "read", !.server = Order[1]])

\* read().await.clone() waits for a writer.
ReadConfig(r) ==
    /\ request[r].at = "read"
    /\ request[r].server \notin writing
    /\ StepTo(r, [request[r] EXCEPT !.at = "route", !.copy = config[request[r].server]])

----------------------------------------------------------------------------
(* select_route.                                                           *)

StartsWith(path, prefix) ==
    Len(prefix) <= Len(path) /\ SubSeq(path, 1, Len(prefix)) = prefix

Matches(route, path) == IF route.type = "full" THEN route.path = path
                                               ELSE StartsWith(path, route.path)
Matching(routes, path, type) ==
    {i \in DOMAIN routes : routes[i].type = type /\ Matches(routes[i], path)}
Longest(routes, set) ==
    CHOOSE i \in set : \A j \in set :
        Len(routes[i].path) > Len(routes[j].path)
          \/ (Len(routes[i].path) = Len(routes[j].path) /\ i >= j)

\* Faulty variant: full matches only count when no prefix matches.
SelectRoutePrefixFirst(routes, path) ==
    LET full == Matching(routes, path, "full")
        prefix == Matching(routes, path, "prefix")
    IN  IF prefix # {} THEN Longest(routes, prefix) ELSE IF full # {} THEN Longest(routes, full)
        ELSE None

\* The first full match, or else the last of the longest prefixes.
SelectRoute(routes, path) ==
    LET full == Matching(routes, path, "full")
        prefix == Matching(routes, path, "prefix")
    IN  IF full # {} THEN CHOOSE i \in full : \A j \in full : i <= j
        ELSE IF prefix # {} THEN Longest(routes, prefix) ELSE None

\* No route (404) and a file route end the selection.
ChooseRoute(r) ==
    /\ request[r].at = "route"
    /\ LET q == request[r]
           i == SelectRoute(q.copy.routes, q.path)
           group == IF i = None THEN None ELSE q.copy.routes[i].group
       IN  StepTo(r, [q EXCEPT
             !.at = IF group = None THEN "done" ELSE "candidates",
             !.group = group,
             !.left = {j \in DOMAIN q.copy.upstreams : q.copy.upstreams[j].group = group}])

----------------------------------------------------------------------------
(* select_upstream_candidates, one priority after the other; the cursor of *)
(* each is read and advanced under the lock of the map.                    *)

\* The positions of a set in ascending order (the sort is stable).
InOrder(set) ==
    [n \in 1..Cardinality(set) |->
        CHOOSE i \in set : Cardinality({j \in set : j < i}) = n - 1]

\* Faulty variant: as many are skipped, but none are taken from the beginning.
RotatedWithoutCycle(seq, offset) == SubSeq(seq, offset + 1, Len(seq))

\* cycle().skip(offset).take(len).
Rotated(seq, offset) ==
    [n \in 1..Len(seq) |-> seq[((n - 1 + offset) % Len(seq)) + 1]]

Lowest(r) == LET priority(j) == request[r].copy.upstreams[j].priority
             IN  {j \in request[r].left : \A i \in request[r].left : priority(j) <= priority(i)}
KeyOf(r, class) == <<request[r].server, request[r].group,
                     request[r].copy.upstreams[CHOOSE j \in class : TRUE].priority>>

\* Faulty variant: the cursor is advanced by the number of candidates.
AdvancedByAll(n, size) == (n + size) % Wrap

\* wrapping_add(1).
Advanced(n, size) == (n + 1) % Wrap

SelectRotated(r) ==
    /\ request[r].at = "candidates"
    /\ Cardinality(Lowest(r)) > 1
    /\ picks < MaxPicks
    /\ LET class == Lowest(r)
           k == KeyOf(r, class)
           chosen == Rotated(InOrder(class), cursor[k] % Cardinality(class))
       IN  /\ cursor' = [cursor EXCEPT ![k] = Advanced(@, Cardinality(class))]
           /\ firsts' = [firsts EXCEPT ![k][request[r].copy.upstreams[chosen[1]].id] = @ + 1]
           /\ request' = [request EXCEPT ![r].left = @ \ class,
                                         ![r].candidates = @ \o chosen]
    /\ picks' = picks + 1
    /\ UNCHANGED <<config, writing, rewritten>>

\* The only one of its priority: no cursor.
SelectSingle(r) ==
    /\ request[r].at = "candidates"
    /\ Cardinality(Lowest(r)) = 1
    /\ StepTo(r, [request[r] EXCEPT !.left = @ \ Lowest(r),
                                    !.candidates = @ \o InOrder(Lowest(r))])

Selected(r) ==
    /\ request[r].at = "candidates"
    /\ request[r].left = {}
    /\ StepTo(r, [request[r] EXCEPT !.at = "done"])

----------------------------------------------------------------------------
Next ==
    \/ \E s \in Servers : BeginWrite(s) \/ EndWrite(s)
    \/ \E r \in Requests :
         \/ \E host \in Hosts \cup {None}, path \in Paths : Arrive(r, host, path)
         \/ TryHost(r) \/ TakeDefault(r) \/ ReadConfig(r) \/ ChooseRoute(r)
         \/ SelectRotated(r) \/ SelectSingle(r) \/ Selected(r)

Spec == Init /\ [][Next]_vars

----------------------------------------------------------------------------
TypeOK ==
    /\ config \in [Servers -> Configurations]
    /\ writing \subseteq Servers
    /\ cursor \in [Key -> 0..(Wrap - 1)]
    /\ picks \in 0..MaxPicks
    /\ rewritten \in BOOLEAN
    /\ firsts \in [Key -> [Upstreams -> 0..MaxPicks]]
    /\ \A r \in Requests :
         /\ request[r].at \in RequestSteps
         /\ request[r].next \in DOMAIN Order
         /\ request[r].server \in Servers \cup {None}

\* A request goes to the first server of the listener that has its host, and
\* to the default one only if none has, unless an apply got in the way; and even
\* then another server than the default one has its host.
HostHonoured ==
    [][\A r \in Requests :
         LET q == request[r]
             server == request'[r].server
             having == {i \in DOMAIN Order : q.host \in config[Order[i]].names}
             first == IF having = {} THEN 1 ELSE CHOOSE i \in having : \A j \in having : i <= j
         IN  request'[r].at = "read" /\ q.at # "read" =>
               /\ q.quiet => server = Order[first]
               /\ server # Order[1] => q.host \in config[server].names]_vars

\* The route chosen beats every other route that matches: a full match, or
\* else the longest prefix; and a request without one matches none.
BestRoute ==
    \A r \in Requests : request[r].at = "route" =>
        LET routes == request[r].copy.routes
            path == request[r].path
            i == SelectRoute(routes, path)
            matching == {j \in DOMAIN routes : Matches(routes[j], path)}
        IN  IF i = None THEN matching = {}
            ELSE /\ i \in matching
                 /\ \A j \in matching \ {i} :
                      routes[j].type = "prefix" /\ Len(routes[j].path) <= Len(routes[i].path)

\* When the selection has ended, each upstream of the route's group in the
\* configuration the request copied is a candidate exactly once, and none comes
\* before one of a lower priority number, whatever the shared cursors were.
CandidatesComplete ==
    \A r \in Requests : request[r].at = "done" /\ request[r].group # None =>
        LET ups == request[r].copy.upstreams
            list == request[r].candidates
            members == {j \in DOMAIN ups : ups[j].group = request[r].group}
        IN  /\ {list[n] : n \in DOMAIN list} = members
            /\ Len(list) = Cardinality(members)
            /\ \A m, n \in DOMAIN list :
                 m < n => ups[list[m]].priority <= ups[list[n]].priority

\* While the configuration stays, the upstreams of one group and priority are
\* tried first equally often, up to one, whichever requests interleave.
RotationIsEven ==
    ~rewritten => \A s \in Servers :
        LET ups == config[s].upstreams
        IN  \A i, j \in DOMAIN ups :
              ups[i].group = ups[j].group /\ ups[i].priority = ups[j].priority =>
                LET count == firsts[<<s, ups[i].group, ups[i].priority>>]
                IN  count[ups[i].id] <= count[ups[j].id] + 1
=============================================================================
