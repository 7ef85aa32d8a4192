----------------------- MODULE RequestRouting_proofs -----------------------
(***************************************************************************)
(* Proofs about RequestRouting: the lemmas about its operators (InOrder    *)
(* enumerates, Rotated permutes, SelectRoute picks the best), the          *)
(* inductive invariant (RequestInv about the locals of each request,       *)
(* CountInv about the cursors, EvenInv about the rotation), and the        *)
(* theorems that follow: every property that the Routing run checks.       *)
(***************************************************************************)
EXTENDS RequestRouting, NatLemmas, FiniteSetTheorems, SequenceTheorems

----------------------------------------------------------------------------
(* Lemmas about the operators.                                             *)

\* What is left over when a number is written as a multiple is its remainder.
LEMMA RemainderUnique ==
    ASSUME NEW size \in Nat \ {0}, NEW times \in Nat, NEW rest \in 0..(size - 1)
    PROVE  (size * times + rest) % size = rest
<1> DEFINE x == size * times + rest
<1>0. x \in Nat
  OBVIOUS
<1>1. PICK q \in Nat, r \in 0..(size - 1) : x = size * q + r /\ x % size = r
  BY <1>0, Division
<1>2. PICK d \in Int : d = q - times
  OBVIOUS
<1>3. size * d = rest - r
  BY <1>1, <1>2
<1>4. ~(d >= 1)
  <2> SUFFICES ASSUME d >= 1 PROVE FALSE
    OBVIOUS
  <2>1. size * d >= size
    OBVIOUS
  <2> QED
    BY <2>1, <1>3
<1>5. ~(d <= -1)
  <2> SUFFICES ASSUME d <= -1 PROVE FALSE
    OBVIOUS
  <2>1. size * d <= -size
    OBVIOUS
  <2> QED
    BY <2>1, <1>3
<1>6. d = 0
  BY <1>4, <1>5
<1> QED
  BY <1>1, <1>3, <1>6

\* The remainder of a number, and of its successor.
LEMMA Remainder ==
    ASSUME NEW n \in Nat, NEW size \in Nat \ {0}
    PROVE  /\ n % size \in 0..(size - 1)
           /\ n < size => n % size = n
           /\ n >= size /\ n < 2 * size => n % size = n - size
           /\ (n + 1) % size = IF (n % size) + 1 = size THEN 0 ELSE (n % size) + 1
<1>1. n % size \in 0..(size - 1)
  OBVIOUS
<1>2. n < size => n % size = n
  OBVIOUS
<1>3. n >= size /\ n < 2 * size => n % size = n - size
  OBVIOUS
<1>4. (n + 1) % size = IF (n % size) + 1 = size THEN 0 ELSE (n % size) + 1
  <2>1. PICK q \in Nat, r \in 0..(size - 1) : n = size * q + r /\ n % size = r
    BY Division
  <2>2. CASE r + 1 = size
    <3>1. n + 1 = size * (q + 1) + 0
      BY <2>1, <2>2
    <3> QED
      BY <3>1, <2>1, <2>2, RemainderUnique
  <2>3. CASE r + 1 # size
    <3>1. n + 1 = size * q + (r + 1) /\ r + 1 \in 0..(size - 1)
      BY <2>1, <2>3
    <3> QED
      BY <3>1, <2>1, <2>3, RemainderUnique
  <2> QED
    BY <2>2, <2>3
<1> QED
  BY <1>1, <1>2, <1>3, <1>4

\* InOrder enumerates a set of positions, each once.
LEMMA InOrderEnumerates ==
    ASSUME NEW N \in Nat, NEW set \in SUBSET (1..N)
    PROVE  /\ Cardinality(set) \in Nat
           /\ InOrder(set) \in Seq(set)
           /\ Len(InOrder(set)) = Cardinality(set)
           /\ \A m, n \in 1..Cardinality(set) : InOrder(set)[m] = InOrder(set)[n] => m = n
           /\ \A i \in set : \E n \in 1..Cardinality(set) : InOrder(set)[n] = i
<1> DEFINE size == Cardinality(set)
           order == InOrder(set)
<1>1. size \in Nat
  BY Ranks
<1>2. order = [n \in 1..size |-> CHOOSE i \in set : Cardinality(Below(set, i)) = n - 1]
  BY DEF InOrder, Below
<1>3. \A n \in 1..size : order[n] \in set /\ Cardinality(Below(set, order[n])) = n - 1
  <2> TAKE n \in 1..size
  <2>1. order[n] = CHOOSE i \in set : Cardinality(Below(set, i)) = n - 1
    BY <1>2
  <2>2. \E i \in set : Cardinality(Below(set, i)) = n - 1
    BY Ranks
  <2> QED
    BY <2>1, <2>2
<1>4. order \in [1..size -> set]
  BY <1>2, <1>3
<1>5. order \in Seq(set) /\ Len(order) = size
  <2>1. order \in Seq(set)
    BY <1>1, <1>4, SeqDef
  <2>2. Len(order) \in Nat /\ 1..Len(order) = 1..size
    BY <2>1, <1>4, LenProperties
  <2> QED
    BY <1>1, <2>1, <2>2
<1>6. ASSUME NEW i \in set PROVE \E n \in 1..size : order[n] = i
  <2> DEFINE n == Cardinality(Below(set, i)) + 1
  <2>0. Cardinality(Below(set, i)) \in 0..(size - 1)
    BY Ranks
  <2>1. n \in 1..size /\ n - 1 = Cardinality(Below(set, i))
    BY <1>1, <2>0
  <2> HIDE DEF n
  <2>2. Cardinality(Below(set, order[n])) = Cardinality(Below(set, i)) /\ order[n] \in set
    BY <2>1, <1>3
  <2>3. order[n] = i
    BY <2>2, Ranks
  <2> QED
    BY <2>1, <2>3
<1>7. \A m, n \in 1..size : order[m] = order[n] => m = n
  <2> SUFFICES ASSUME NEW m \in 1..size, NEW n \in 1..size, order[m] = order[n] PROVE m = n
    OBVIOUS
  <2>1. m - 1 = n - 1
    BY <1>3
  <2> QED
    BY <2>1, <1>1
<1> QED
  BY <1>1, <1>5, <1>6, <1>7

\* A sequence that is rotated has the same elements, as often.
LEMMA RotatedKeeps ==
    ASSUME NEW S, NEW seq \in Seq(S), Len(seq) # 0, NEW offset \in 0..(Len(seq) - 1)
    PROVE  /\ Rotated(seq, offset) \in Seq(S)
           /\ Len(Rotated(seq, offset)) = Len(seq)
           /\ \A n \in 1..Len(seq) : \E m \in 1..Len(seq) : Rotated(seq, offset)[n] = seq[m]
           /\ \A m \in 1..Len(seq) : \E n \in 1..Len(seq) : Rotated(seq, offset)[n] = seq[m]
           /\ Rotated(seq, offset)[1] = seq[offset + 1]
<1> DEFINE rotated == Rotated(seq, offset)
           Source(n) == ((n - 1 + offset) % Len(seq)) + 1
<1>0. PICK size \in Nat \ {0} : size = Len(seq)
  BY LenProperties
<1>1. rotated = [n \in 1..size |-> seq[Source(n)]]
  BY <1>0 DEF Rotated
<1>2. \A n \in 1..size : Source(n) = IF n + offset <= size THEN n + offset ELSE n + offset - size
  <2> TAKE n \in 1..size
  <2>1. PICK x \in Nat : x = n - 1 + offset /\ x < 2 * size
    BY <1>0
  <2>2. x < size => x % size = x
    BY Remainder
  <2>3. x >= size => x % size = x - size
    BY <2>1, Remainder
  <2> QED
    BY <1>0, <2>1, <2>2, <2>3
<1> HIDE DEF Source
<1>3. \A n \in 1..size : Source(n) \in 1..size
  BY <1>0, <1>2
<1>4. \A n \in 1..size : rotated[n] = seq[Source(n)] /\ rotated[n] \in S
  BY <1>0, <1>1, <1>3, ElementOfSeq
<1>5. rotated \in [1..size -> S]
  BY <1>1, <1>4
<1>6. rotated \in Seq(S)
  BY <1>0, <1>5, SeqDef
<1>7. Len(rotated) = size
  <2>1. Len(rotated) \in Nat /\ 1..Len(rotated) = 1..size
    BY <1>5, <1>6, LenProperties
  <2> QED
    BY <1>0, <2>1
<1>8. ASSUME NEW m \in 1..size PROVE \E n \in 1..size : rotated[n] = seq[m]
  <2>1. PICK n \in 1..size : n + offset = m \/ n + offset = m + size
    <3>1. CASE m > offset
      <4>1. m - offset \in 1..size /\ (m - offset) + offset = m
        BY <1>0, <3>1
      <4> QED
        BY <4>1
    <3>2. CASE m <= offset
      <4>1. m + size - offset \in 1..size /\ (m + size - offset) + offset = m + size
        BY <1>0, <3>2
      <4> QED
        BY <4>1
    <3> QED
      BY <1>0, <3>1, <3>2
  <2>2. Source(n) = IF n + offset <= size THEN n + offset ELSE n + offset - size
    BY <1>2
  <2>3. Source(n) = m
    BY <1>0, <2>1, <2>2
  <2> QED
    BY <1>4, <2>3
<1>9. rotated[1] = seq[offset + 1]
  <2>1. Source(1) = offset + 1
    BY <1>0, <1>2
  <2> QED
    BY <1>0, <1>4, <2>1
<1> QED
  BY <1>0, <1>3, <1>4, <1>6, <1>7, <1>8, <1>9

\* The facts about the constants.
LEMMA Constants ==
    /\ Order \in Seq(Servers) /\ Len(Order) \in Nat \ {0} /\ DOMAIN Order = 1..Len(Order)
    /\ Order[1] \in Servers
    /\ \A p \in Paths : Len(p) \in Nat
    /\ \A c \in Configurations :
         /\ c.names \subseteq Hosts
         /\ c.routes \in Seq(Route) /\ c.upstreams \in Seq(Upstream)
         /\ UniqueMatches(c.routes) /\ UniqueIds(c.upstreams)
    /\ None \notin Servers /\ None \notin Groups /\ None \notin Hosts /\ None \notin Nat
<1>1. Order \in Seq(Servers) /\ Len(Order) \in Nat \ {0} /\ DOMAIN Order = 1..Len(Order)
  BY OrderAssumption, LenProperties, EmptySeq
<1>2. Order[1] \in Servers
  BY <1>1 DEF Servers
<1>3. \A p \in Paths : Len(p) \in Nat
  BY PathsAssumption, LenProperties
<1>4. ASSUME NEW c \in Configurations
      PROVE  /\ c.names \subseteq Hosts
             /\ c.routes \in Seq(Route) /\ c.upstreams \in Seq(Upstream)
             /\ UniqueMatches(c.routes) /\ UniqueIds(c.upstreams)
  BY ConfigurationsAssumption DEF Configuration
<1> QED
  BY <1>1, <1>2, <1>3, <1>4, NoneAssumption

\* Among some of a list's routes, there is a last one of the longest.
LEMMA LongestIsOne ==
    ASSUME NEW routes \in Seq(Route), NEW set \in SUBSET DOMAIN routes, set # {}
    PROVE  /\ Longest(routes, set) \in set
           /\ \A j \in set : Len(routes[j].path) <= Len(routes[Longest(routes, set)].path)
<1> DEFINE Size(i) == Len(routes[i].path)
           Beats(i, j) == Size(i) > Size(j) \/ (Size(i) = Size(j) /\ i >= j)
           count == Len(routes)
           Found == {k \in 0..count : (\E j \in set : j <= k) =>
                       \E i \in set : i <= k /\ \A j \in set : j <= k => Beats(i, j)}
<1>1. count \in Nat /\ set \subseteq 1..count
  BY LenProperties
<1>2. \A i \in set : Size(i) \in Nat
  <2> TAKE i \in set
  <2>1. routes[i] \in Route
    BY <1>1, ElementOfSeq
  <2> QED
    BY <2>1, Constants DEF Route
<1> HIDE DEF Size
<1>3. 0 \in Found
  BY <1>1
<1>4. \A k \in 0..count : k \in Found /\ k < count => k + 1 \in Found
  <2> SUFFICES ASSUME NEW k \in 0..count, k \in Found, k < count PROVE k + 1 \in Found
    OBVIOUS
  <2>1. CASE k + 1 \notin set
    <3>1. \A j \in set : j <= k + 1 => j <= k
      BY <1>1, <2>1
    <3> QED
      BY <1>1, <3>1
  <2>2. CASE k + 1 \in set
    <3>1. CASE \E j \in set : j <= k
      <4>1. PICK i \in set : i <= k /\ \A j \in set : j <= k => Beats(i, j)
        BY <3>1
      <4>2. CASE Size(i) > Size(k + 1)
        <5>1. \A j \in set : j <= k + 1 => Beats(i, j)
          BY <1>1, <1>2, <4>1, <4>2, <2>2
        <5> QED
          BY <5>1, <4>1, <1>1
      <4>3. CASE Size(i) <= Size(k + 1)
        <5>1. \A j \in set : j <= k + 1 => Beats(k + 1, j)
          BY <1>1, <1>2, <4>1, <4>3, <2>2
        <5> QED
          BY <5>1, <2>2, <1>1
      <4> QED
        BY <4>2, <4>3, <1>2, <2>2
    <3>2. CASE ~\E j \in set : j <= k
      <4>1. \A j \in set : j <= k + 1 => j = k + 1
        BY <1>1, <3>2
      <4>2. Beats(k + 1, k + 1)
        BY <1>1, <1>2, <2>2
      <4> QED
        BY <4>1, <4>2, <2>2, <1>1
    <3> QED
      BY <3>1, <3>2
  <2> QED
    BY <2>1, <2>2
<1> HIDE DEF Found
<1>5. 0..count \subseteq Found
  BY <1>1, <1>3, <1>4, IntervalInduction
<1>6. \E i \in set : \A j \in set : Beats(i, j)
  <2>1. count \in Found
    BY <1>1, <1>5
  <2>2. \A j \in set : j <= count
    BY <1>1
  <2> QED
    BY <2>1, <2>2 DEF Found
<1>7. Longest(routes, set) = CHOOSE i \in set : \A j \in set : Beats(i, j)
  BY DEF Longest, Size
<1>8. Longest(routes, set) \in set /\ \A j \in set : Beats(Longest(routes, set), j)
  BY <1>6, <1>7
<1>9. \A j \in set : Size(j) <= Size(Longest(routes, set))
  BY <1>2, <1>8
<1> QED
  BY <1>8, <1>9 DEF Size

\* SelectRoute picks a full match, or else one of the longest prefixes.
LEMMA RouteSelected ==
    ASSUME NEW c \in Configurations, NEW path \in Paths
    PROVE  LET routes == c.routes
               i == SelectRoute(routes, path)
               matching == {j \in DOMAIN routes : Matches(routes[j], path)}
           IN  \/ i = None /\ matching = {}
               \/ /\ i \in matching /\ i \in Nat
                  /\ \A j \in matching \ {i} :
                       routes[j].type = "prefix" /\ Len(routes[j].path) <= Len(routes[i].path)
<1> DEFINE routes == c.routes
           i == SelectRoute(routes, path)
           matching == {j \in DOMAIN routes : Matches(routes[j], path)}
           full == Matching(routes, path, "full")
           prefix == Matching(routes, path, "prefix")
<1>1. routes \in Seq(Route) /\ UniqueMatches(routes) /\ DOMAIN routes = 1..Len(routes) /\ Len(routes) \in Nat
  BY Constants, LenProperties
<1>2. \A j \in DOMAIN routes : routes[j] \in Route
  BY <1>1, ElementOfSeq
<1>3. matching = full \cup prefix
  BY <1>2 DEF Matching, Route
<1>4. \A j \in prefix : routes[j].type = "prefix" /\ Len(routes[j].path) <= Len(path)
  BY DEF Matching, Matches, StartsWith
<1>5. \A j \in full : routes[j].type = "full" /\ routes[j].path = path
  BY DEF Matching, Matches
<1>6. full \subseteq DOMAIN routes /\ prefix \subseteq DOMAIN routes
  BY DEF Matching
<1>7. \A j, k \in full : j = k
  BY <1>1, <1>5, <1>6 DEF UniqueMatches
<1>8. i = IF full # {} THEN CHOOSE k \in full : \A j \in full : k <= j
          ELSE IF prefix # {} THEN Longest(routes, prefix) ELSE None
  BY DEF SelectRoute
<1>9. CASE full # {}
  <2>1. PICK k \in full : full = {k}
    BY <1>9, <1>7
  <2>2. k \in Nat
    BY <1>1, <1>6
  <2>3. i = k
    BY <1>8, <1>9, <2>1, <2>2
  <2> QED
    BY <1>3, <1>4, <1>5, <2>1, <2>2, <2>3
<1>10. CASE full = {} /\ prefix # {}
  <2>1. i = Longest(routes, prefix)
    BY <1>8, <1>10
  <2>2. i \in prefix /\ \A j \in prefix : Len(routes[j].path) <= Len(routes[i].path)
    BY <1>1, <1>6, <1>10, <2>1, LongestIsOne
  <2>3. i \in Nat
    BY <1>1, <1>6, <2>2
  <2> QED
    BY <1>3, <1>4, <1>10, <2>2, <2>3
<1>11. CASE full = {} /\ prefix = {}
  BY <1>3, <1>8, <1>11
<1> QED
  BY <1>9, <1>10, <1>11

----------------------------------------------------------------------------
(* The inductive invariant.                                                *)

\* The locals of a request.
Locals == [at : RequestSteps, host : Hosts \cup {None}, path : Paths \cup {<<>>},
           next : DOMAIN Order, quiet : BOOLEAN, server : Servers \cup {None},
           copy : Configurations \cup {None}, group : Groups \cup {None},
           left : SUBSET Nat, candidates : Seq(Nat)]

\* While no apply has interfered, no cell that was tried has the host.
HostInv(q) ==
    /\ q.at \in {"by_host", "default"} /\ q.quiet => writing = {}
    /\ q.at = "by_host" => q.host \in Hosts
    /\ q.at = "by_host" /\ q.quiet =>
         \A i \in 1..(q.next - 1) : q.host \notin config[Order[i]].names
    /\ q.at = "default" /\ q.quiet =>
         \A i \in DOMAIN Order : q.host \notin config[Order[i]].names

\* The upstreams of the route's group, by their position.
Members(q) == {j \in DOMAIN q.copy.upstreams : q.copy.upstreams[j].group = q.group}
Priority(q, j) == q.copy.upstreams[j].priority

\* The candidates are the members that are no longer left, in the order of their
\* priorities, and all of them come before any that is left.
Split(q) ==
    LET taken == Members(q) \ q.left
        list == q.candidates
    IN  /\ q.left \subseteq Members(q)
        /\ \A n \in DOMAIN list : list[n] \in taken
        /\ \A j \in taken : \E n \in DOMAIN list : list[n] = j
        /\ Len(list) = Cardinality(taken)
        /\ \A m, n \in DOMAIN list : m < n => Priority(q, list[m]) <= Priority(q, list[n])
        /\ \A i \in taken, j \in q.left : Priority(q, i) < Priority(q, j)

Listed(q) == q.at = "candidates" \/ (q.at = "done" /\ q.group # None)

\* What the steps before leave to the later ones.
SelectInv(q) ==
    /\ q.at \in {"by_host", "default", "read", "route"} =>
         q.path \in Paths /\ q.candidates = <<>>
    /\ q.at \in {"read", "route", "candidates"} => q.server \in Servers
    /\ q.at = "route" \/ Listed(q) => q.copy \in Configurations
    /\ q.at = "candidates" => q.group \in Groups
    /\ q.at = "done" /\ q.group # None => q.left = {}
    /\ Listed(q) => Split(q)

\* While no configuration was overwritten, the copy is the server's own.
CopyInv(q) == ~rewritten /\ q.at \in {"route", "candidates"} => q.copy = config[q.server]

RequestInv ==
    /\ config \in [Servers -> Configurations]
    /\ writing \subseteq Servers
    /\ rewritten \in BOOLEAN
    /\ request \in [Requests -> Locals]
    /\ \A r \in Requests :
         HostInv(request[r]) /\ SelectInv(request[r]) /\ CopyInv(request[r])

\* The cursors, and what was tried first, are bounded by the number of picks.
CountInv ==
    /\ cursor \in [Key -> 0..(Wrap - 1)]
    /\ picks \in 0..MaxPicks
    /\ firsts \in [Key -> [Upstreams -> 0..MaxPicks]]
    /\ \A k \in Key : cursor[k] <= picks /\ \A u \in Upstreams : firsts[k][u] <= picks

\* A step of a request that leaves the configurations.
LEMMA RequestChanged ==
    ASSUME RequestInv, NEW r \in Requests, NEW q \in Locals,
           request' = [request EXCEPT ![r] = q], UNCHANGED <<config, writing, rewritten>>,
           HostInv(q), SelectInv(q), CopyInv(q)
    PROVE  RequestInv'
<1>1. request' = [request EXCEPT ![r] = q] /\ UNCHANGED <<config, writing, rewritten>>
  OBVIOUS
<1>2. request' \in [Requests -> Locals]
  BY <1>1 DEF RequestInv
<1>3. ASSUME NEW o \in Requests
      PROVE  (HostInv(request[o]) /\ SelectInv(request[o]) /\ CopyInv(request[o]))'
  <2>1. PICK p \in Locals : p = request'[o]
    BY <1>2
  <2>2. HostInv(p) /\ SelectInv(p) /\ CopyInv(p)
    BY <1>1, <2>1 DEF RequestInv
  <2>3. HostInv(p)'
    BY <1>1, <2>2 DEF HostInv
  <2>4. CopyInv(p)'
    BY <1>1, <2>2 DEF CopyInv
  <2>5. HostInv(request[o])'
    BY <2>1, <2>3 DEF HostInv
  <2>6. CopyInv(request[o])'
    BY <2>1, <2>4 DEF CopyInv
  <2>7. SelectInv(request'[o])
    BY <2>1, <2>2
  <2> QED
    BY <2>5, <2>6, <2>7
<1> QED
  BY <1>1, <1>2, <1>3 DEF RequestInv

LEMMA LocalStep ==
    ASSUME RequestInv, NEW r \in Requests, NEW q \in Locals, StepTo(r, q),
           HostInv(q), SelectInv(q), CopyInv(q)
    PROVE  RequestInv'
BY RequestChanged DEF StepTo

LEMMA RequestInvInit == Init => RequestInv
<1> SUFFICES ASSUME Init PROVE RequestInv
  OBVIOUS
<1>1. Blank \in Locals
  BY Constants, EmptySeq DEF Blank, Locals, RequestSteps
<1>2. HostInv(Blank) /\ SelectInv(Blank) /\ CopyInv(Blank)
  BY DEF Blank, HostInv, SelectInv, CopyInv, Listed
<1> QED
  BY <1>1, <1>2 DEF Init, RequestInv

\* select_server_config keeps the invariant.
LEMMA HostSteps ==
    ASSUME RequestInv, NEW r \in Requests,
           \/ \E host \in Hosts \cup {None}, path \in Paths : Arrive(r, host, path)
           \/ TryHost(r) \/ TakeDefault(r)
    PROVE  RequestInv'
<1>0. PICK q \in Locals : q = request[r] /\ HostInv(q) /\ SelectInv(q) /\ CopyInv(q)
  BY DEF RequestInv
<1>1. ASSUME NEW host \in Hosts \cup {None}, NEW path \in Paths, Arrive(r, host, path)
      PROVE  RequestInv'
  <2>a. PICK at \in RequestSteps : at = IF host = None THEN "default" ELSE "by_host"
    BY DEF RequestSteps
  <2>b. PICK quiet \in BOOLEAN : quiet = (writing = {})
    OBVIOUS
  <2>1. PICK new : new = [Blank EXCEPT !.at = at, !.host = host, !.path = path, !.quiet = quiet]
    OBVIOUS
  <2>2. new \in Locals
    <3>1. 1 \in DOMAIN Order /\ <<>> \in Seq(Nat)
      BY Constants, EmptySeq
    <3> QED
      BY <2>1, <3>1 DEF Blank, Locals
  <2>3. HostInv(new)
    <3>1. \A s \in Servers : config[s].names \subseteq Hosts
      BY Constants DEF RequestInv
    <3>2. \A i \in DOMAIN Order : Order[i] \in Servers
      BY DEF Servers
    <3>3. new.at = at /\ new.host = host /\ new.quiet = quiet /\ new.next = 1
      BY <2>1 DEF Blank
    <3>4. at = "default" => \A i \in DOMAIN Order : host \notin config[Order[i]].names
      BY <2>a, <3>1, <3>2, Constants
    <3>5. at = "by_host" => host \in Hosts
      BY <2>a
    <3>6. 1..(new.next - 1) = {}
      BY <3>3
    <3>7. quiet => writing = {}
      BY <2>b
    <3> QED
      BY <3>3, <3>4, <3>5, <3>6, <3>7 DEF HostInv
  <2>4. SelectInv(new) /\ CopyInv(new)
    BY <2>a, <2>1 DEF Blank, SelectInv, CopyInv, Listed
  <2>5. StepTo(r, new)
    BY <1>1, <2>a, <2>b, <2>1 DEF Arrive
  <2> QED
    BY <2>2, <2>3, <2>4, <2>5, LocalStep
<1>2. ASSUME TryHost(r) PROVE RequestInv'
  <2> DEFINE s == Order[q.next]
  <2>0. q.at = "by_host" /\ q.next \in 1..Len(Order) /\ s \in Servers
    BY <1>0, <1>2, Constants DEF TryHost, Locals, Servers
  <2>1. CASE MatchesHost(q, s)
    <3>1. PICK new : new = [q EXCEPT !.at = "read", !.server = s]
      OBVIOUS
    <3>2. new \in Locals
      BY <3>1, <2>0 DEF Locals, RequestSteps
    <3>3. HostInv(new) /\ SelectInv(new) /\ CopyInv(new)
      BY <3>1, <1>0, <2>0 DEF HostInv, SelectInv, CopyInv, Listed, Locals
    <3>4. StepTo(r, new)
      BY <1>0, <1>2, <2>1, <3>1 DEF TryHost
    <3> QED
      BY <3>2, <3>3, <3>4, LocalStep
  <2>2. ASSUME ~MatchesHost(q, s), q.quiet
        PROVE  \A i \in 1..q.next : q.host \notin config[Order[i]].names
    <3>1. writing = {}
      BY <1>0, <2>0, <2>2 DEF HostInv
    <3>2. q.host \notin config[s].names
      BY <2>2, <3>1 DEF MatchesHost
    <3>3. \A i \in 1..(q.next - 1) : q.host \notin config[Order[i]].names
      BY <1>0, <2>0, <2>2 DEF HostInv
    <3> QED
      BY <2>0, <3>2, <3>3
  <2>3. CASE ~MatchesHost(q, s) /\ LastTried(q)
    <3>1. PICK new : new = [q EXCEPT !.at = "default"]
      OBVIOUS
    <3>2. new \in Locals
      BY <3>1, <2>0 DEF Locals, RequestSteps
    <3>3. HostInv(new)
      BY <3>1, <1>0, <2>0, <2>2, <2>3, Constants DEF HostInv, Locals, LastTried
    <3>4. SelectInv(new) /\ CopyInv(new)
      BY <3>1, <1>0, <2>0 DEF SelectInv, CopyInv, Listed, Locals
    <3>5. StepTo(r, new)
      BY <1>0, <1>2, <2>3, <3>1 DEF TryHost
    <3> QED
      BY <3>2, <3>3, <3>4, <3>5, LocalStep
  <2>4. CASE ~MatchesHost(q, s) /\ ~LastTried(q)
    <3>1. PICK new : new = [q EXCEPT !.next = @ + 1]
      OBVIOUS
    <3>0. q.next + 1 \in DOMAIN Order /\ (q.next + 1) - 1 = q.next
      BY <2>0, <2>4, Constants DEF LastTried
    <3>2. new \in Locals /\ new.next = q.next + 1
      BY <3>1, <2>0, <3>0 DEF Locals, RequestSteps
    <3>3. HostInv(new)
      BY <3>0, <3>1, <3>2, <1>0, <2>0, <2>2, <2>4 DEF HostInv, Locals
    <3>4. SelectInv(new) /\ CopyInv(new)
      BY <3>1, <1>0, <2>0 DEF SelectInv, CopyInv, Listed, Locals
    <3>5. StepTo(r, new)
      BY <1>0, <1>2, <2>4, <3>1 DEF TryHost
    <3> QED
      BY <3>2, <3>3, <3>4, <3>5, LocalStep
  <2> QED
    BY <2>1, <2>3, <2>4
<1>3. ASSUME TakeDefault(r) PROVE RequestInv'
  <2>1. PICK new : new = [q EXCEPT !.at = "read", !.server = Order[1]]
    OBVIOUS
  <2>2. new \in Locals
    BY <2>1, Constants DEF Locals, RequestSteps
  <2>3. HostInv(new) /\ SelectInv(new) /\ CopyInv(new)
    BY <2>1, <1>0, <1>3, Constants DEF HostInv, SelectInv, CopyInv, Listed, Locals, TakeDefault
  <2>4. StepTo(r, new)
    BY <1>0, <1>3, <2>1 DEF TakeDefault
  <2> QED
    BY <2>2, <2>3, <2>4, LocalStep
<1> QED
  BY <1>1, <1>2, <1>3

\* The configuration read and the route chosen keep the invariant.
LEMMA RouteSteps ==
    ASSUME RequestInv, NEW r \in Requests, ReadConfig(r) \/ ChooseRoute(r)
    PROVE  RequestInv'
<1>0. PICK q \in Locals : q = request[r] /\ HostInv(q) /\ SelectInv(q) /\ CopyInv(q)
  BY DEF RequestInv
<1>1. ASSUME ReadConfig(r) PROVE RequestInv'
  <2>1. q.at = "read" /\ q.server \in Servers
    BY <1>0, <1>1 DEF ReadConfig, SelectInv
  <2>2. PICK c \in Configurations : c = config[q.server]
    BY <2>1 DEF RequestInv
  <2>3. PICK new : new = [q EXCEPT !.at = "route", !.copy = c]
    OBVIOUS
  <2>4. new \in Locals
    BY <2>3 DEF Locals, RequestSteps
  <2>5. HostInv(new) /\ SelectInv(new) /\ CopyInv(new)
    BY <1>0, <2>1, <2>2, <2>3 DEF HostInv, SelectInv, CopyInv, Listed, Locals
  <2>6. StepTo(r, new)
    BY <1>0, <1>1, <2>2, <2>3 DEF ReadConfig
  <2> QED
    BY <2>4, <2>5, <2>6, LocalStep
<1>2. ASSUME ChooseRoute(r) PROVE RequestInv'
  <2>1. /\ q.at = "route" /\ q.copy \in Configurations /\ q.path \in Paths
        /\ q.candidates = <<>> /\ q.server \in Servers
    BY <1>0, <1>2 DEF ChooseRoute, SelectInv
  <2>2. PICK i : i = SelectRoute(q.copy.routes, q.path)
    OBVIOUS
  <2>3. i = None \/ i \in DOMAIN q.copy.routes
    BY <2>1, <2>2, RouteSelected
  <2>4. PICK group \in Groups \cup {None} :
          group = IF i = None THEN None ELSE q.copy.routes[i].group
    <3>1. i # None => q.copy.routes[i] \in Route
      BY <2>1, <2>3, Constants, ElementOfSeq, LenProperties
    <3> QED
      BY <3>1 DEF Route
  <2>5. PICK left : left = {j \in DOMAIN q.copy.upstreams : q.copy.upstreams[j].group = group}
    OBVIOUS
  <2>6. left \in SUBSET Nat
    <3>1. DOMAIN q.copy.upstreams \subseteq Nat
      BY <2>1, Constants, LenProperties
    <3> QED
      BY <2>5, <3>1
  <2>7. PICK new : new = [q EXCEPT !.at = IF group = None THEN "done" ELSE "candidates",
                                   !.group = group, !.left = left]
    OBVIOUS
  <2>8. new \in Locals
    BY <2>6, <2>7 DEF Locals, RequestSteps
  <2>9. HostInv(new) /\ CopyInv(new)
    BY <1>0, <2>1, <2>7 DEF HostInv, CopyInv, Locals
  <2>10. SelectInv(new)
    <3>1. /\ \/ new.at = "candidates" /\ new.group \in Groups
             \/ new.at = "done" /\ new.group = None
          /\ new.copy \in Configurations /\ new.server \in Servers
      BY <2>1, <2>4, <2>7, Constants DEF Locals
    <3>2. Split(new)
      <4>1. Members(new) = left /\ new.left = left /\ new.candidates = <<>>
        BY <2>1, <2>5, <2>7 DEF Members, Locals
      <4>2. Members(new) \ new.left = {}
        BY <4>1
      <4>3. DOMAIN new.candidates = {} /\ Len(new.candidates) = 0
        BY <4>1, EmptySeq
      <4> QED
        BY <4>1, <4>2, <4>3, FS_EmptySet DEF Split
    <3> QED
      BY <3>1, <3>2 DEF SelectInv, Listed
  <2>11. StepTo(r, new)
    BY <1>0, <1>2, <2>2, <2>4, <2>5, <2>7 DEF ChooseRoute
  <2> QED
    BY <2>8, <2>9, <2>10, <2>11, LocalStep
<1> QED
  BY <1>1, <1>2

\* The class of upstreams that is selected next.
LowestOf(q) == {j \in q.left : \A i \in q.left : Priority(q, j) <= Priority(q, i)}

\* The members of the group are positions, with numbers as priorities.
LEMMA MembersAre ==
    ASSUME NEW q \in Locals, q.copy \in Configurations
    PROVE  /\ Len(q.copy.upstreams) \in Nat
           /\ Members(q) \in SUBSET (1..Len(q.copy.upstreams))
           /\ \A j \in Members(q) : Priority(q, j) \in Nat /\ q.copy.upstreams[j].id \in Upstreams
<1>1. q.copy.upstreams \in Seq(Upstream)
  BY Constants
<1>2. /\ Len(q.copy.upstreams) \in Nat
      /\ Members(q) \in SUBSET (1..Len(q.copy.upstreams))
  BY <1>1, LenProperties DEF Members
<1>3. ASSUME NEW j \in Members(q)
      PROVE  Priority(q, j) \in Nat /\ q.copy.upstreams[j].id \in Upstreams
  <2>1. q.copy.upstreams[j] \in Upstream
    BY <1>1, <1>2, ElementOfSeq
  <2> QED
    BY <2>1 DEF Priority, Upstream
<1> QED
  BY <1>2, <1>3

\* The elements of two sequences of positions that are joined.
LEMMA Joined ==
    \A s, t \in Seq(Nat) : \A both : both = s \o t =>
        /\ both \in Seq(Nat) /\ DOMAIN both = 1..Len(both) /\ Len(both) = Len(s) + Len(t)
        /\ \A n \in 1..Len(s) : n \in 1..Len(both) /\ both[n] = s[n]
        /\ \A n \in 1..Len(t) : n + Len(s) \in 1..Len(both) /\ both[n + Len(s)] = t[n]
        /\ \A n \in 1..Len(both) : n \in 1..Len(s) \/ n - Len(s) \in 1..Len(t)
<1> TAKE s, t \in Seq(Nat)
<1> TAKE both
<1> HAVE both = s \o t
<1>1. PICK a \in Nat, b \in Nat : a = Len(s) /\ b = Len(t)
  BY LenProperties
<1>2. both \in Seq(Nat) /\ Len(both) = a + b
  BY <1>1, ConcatProperties
<1>3. \A n \in 1..(a + b) : both[n] = IF n <= a THEN s[n] ELSE t[n - a]
  BY <1>1, ConcatProperties
<1>4. DOMAIN both = 1..Len(both)
  BY <1>2, LenProperties
<1>5. \A n \in 1..b : n + a \in 1..(a + b) /\ both[n + a] = t[n]
  <2> TAKE n \in 1..b
  <2>1. n + a \in 1..(a + b) /\ ~(n + a <= a) /\ (n + a) - a = n
    BY <1>1
  <2> QED
    BY <1>3, <2>1
<1>6. \A n \in 1..a : n \in 1..(a + b) /\ both[n] = s[n]
  BY <1>1, <1>3
<1>7. \A n \in 1..(a + b) : n \in 1..a \/ n - a \in 1..b
  BY <1>1
<1> QED
  BY <1>1, <1>2, <1>4, <1>5, <1>6, <1>7

\* A class taken from what is left is appended to the candidates.
LEMMA ClassTaken ==
    ASSUME NEW q \in Locals, q.at = "candidates", SelectInv(q),
           NEW class, class = LowestOf(q),
           NEW seq \in Seq(class), Len(seq) = Cardinality(class),
           \A i \in class : \E n \in 1..Len(seq) : seq[n] = i,
           NEW both, both = q.candidates \o seq,
           NEW new, new.at = "candidates", new.copy = q.copy, new.group = q.group,
           new.server = q.server, new.left = q.left \ class, new.candidates = both
    PROVE  SelectInv(new)
<1> DEFINE members == Members(q)
           taken == members \ q.left
           list == q.candidates
           Prio(j) == Priority(q, j)
<1>1. q.copy \in Configurations /\ q.server \in Servers /\ q.group \in Groups /\ Split(q)
  BY DEF SelectInv, Listed
<1>2. /\ members \in SUBSET (1..Len(q.copy.upstreams)) /\ Len(q.copy.upstreams) \in Nat
      /\ \A j \in members : Prio(j) \in Nat
  BY <1>1, MembersAre
<1>3. class \subseteq q.left /\ q.left \subseteq members
  BY <1>1 DEF LowestOf, Split
<1>4. seq \in Seq(Nat) /\ list \in Seq(Nat)
  <2>1. class \subseteq Nat
    BY <1>2, <1>3
  <2> QED
    BY <2>1, SeqMonotonic DEF Locals
<1>5. both \in Seq(Nat)
  BY <1>4, ConcatProperties
<1>0. PICK a \in Nat, b \in Nat : a = Len(list) /\ b = Len(seq)
  BY <1>4, LenProperties
<1>6. /\ Len(both) = a + b /\ DOMAIN both = 1..(a + b) /\ DOMAIN list = 1..a
      /\ \A n \in 1..a : n \in 1..(a + b) /\ both[n] = list[n]
      /\ \A n \in 1..b : n + a \in 1..(a + b) /\ both[n + a] = seq[n]
      /\ \A n \in 1..(a + b) : n \in 1..a \/ n - a \in 1..b
  <2>1. /\ DOMAIN both = 1..Len(both) /\ Len(both) = Len(list) + Len(seq)
        /\ \A n \in 1..Len(list) : n \in 1..Len(both) /\ both[n] = list[n]
        /\ \A n \in 1..Len(seq) :
             n + Len(list) \in 1..Len(both) /\ both[n + Len(list)] = seq[n]
        /\ \A n \in 1..Len(both) : n \in 1..Len(list) \/ n - Len(list) \in 1..Len(seq)
    <3>1. PICK s, t : s = list /\ t = seq
      OBVIOUS
    <3>2. s \in Seq(Nat) /\ t \in Seq(Nat) /\ both = s \o t
      BY <1>4, <3>1
    <3>3. /\ DOMAIN both = 1..Len(both) /\ Len(both) = Len(s) + Len(t)
          /\ \A n \in 1..Len(s) : n \in 1..Len(both) /\ both[n] = s[n]
          /\ \A n \in 1..Len(t) : n + Len(s) \in 1..Len(both) /\ both[n + Len(s)] = t[n]
          /\ \A n \in 1..Len(both) : n \in 1..Len(s) \/ n - Len(s) \in 1..Len(t)
      BY <3>2, Joined
    <3> QED
      BY <3>1, <3>3
  <2>2. DOMAIN list = 1..Len(list)
    BY <1>4, LenProperties
  <2> HIDE DEF list
  <2> QED
    BY <1>0, <2>1, <2>2
<1>10. Members(new) = members /\ Members(new) \ new.left = taken \cup class
  BY <1>3 DEF Members
<1>11. \A j : Priority(new, j) = Prio(j)
  BY DEF Priority
<1>12. /\ \A n \in 1..a : list[n] \in taken
       /\ \A j \in taken : \E n \in 1..a : list[n] = j
       /\ a = Cardinality(taken)
       /\ \A m, n \in 1..a : m < n => Prio(list[m]) <= Prio(list[n])
       /\ \A i \in taken, j \in q.left : Prio(i) < Prio(j)
  BY <1>0, <1>1, <1>6 DEF Split
<1>13. \A n \in 1..b : seq[n] \in class
  BY <1>0, ElementOfSeq
<1>14. \A n \in 1..(a + b) : both[n] \in taken \cup class /\ (n > a => both[n] \in class)
  <2> TAKE n \in 1..(a + b)
  <2>1. CASE n \in 1..a
    <3>1. both[n] = list[n] /\ ~(n > a)
      BY <1>6, <2>1
    <3> QED
      BY <1>12, <2>1, <3>1
  <2>2. CASE n - a \in 1..b
    <3>1. PICK k \in 1..b : k + a = n
      BY <1>0, <2>2
    <3>2. both[n] = seq[k]
      BY <1>6, <3>1
    <3> QED
      BY <3>1, <3>2, <1>13
  <2> QED
    BY <2>1, <2>2, <1>6
<1>15. ASSUME NEW j \in taken \cup class PROVE \E n \in 1..(a + b) : both[n] = j
  <2>1. CASE j \in taken
    <3>1. PICK n \in 1..a : list[n] = j
      BY <1>12, <2>1
    <3>2. n \in 1..(a + b) /\ both[n] = j
      BY <1>6, <3>1
    <3> QED
      BY <3>2
  <2>2. CASE j \in class
    <3>1. PICK n \in 1..b : seq[n] = j
      BY <1>0, <2>2
    <3>2. n + a \in 1..(a + b) /\ both[n + a] = j
      BY <1>6, <3>1
    <3> QED
      BY <3>2
  <2> QED
    BY <2>1, <2>2
<1>16. Len(both) = Cardinality(taken \cup class)
  <2>0. PICK last \in Nat : last = Len(q.copy.upstreams)
    BY <1>2
  <2>1. taken \in SUBSET (1..last) /\ class \in SUBSET (1..last)
    BY <1>2, <1>3, <2>0
  <2>2. IsFiniteSet(taken) /\ IsFiniteSet(class)
    BY <2>1, Ranks
  <2>3. taken \cap class = {}
    BY <1>3
  <2>4. /\ Cardinality(taken \cup class) =
              Cardinality(taken) + Cardinality(class) - Cardinality(taken \cap class)
        /\ Cardinality(taken \cap class) = 0
    BY <2>2, <2>3, FS_Union, FS_EmptySet
  <2> QED
    BY <1>0, <1>6, <1>12, <2>4
<1>17. \A i, j \in class : Prio(i) <= Prio(j)
  BY DEF LowestOf
<1>18. \A i \in taken, j \in class : Prio(i) <= Prio(j)
  BY <1>2, <1>3, <1>12
<1>19. ASSUME NEW m \in 1..(a + b), NEW n \in 1..(a + b), m < n
       PROVE  Prio(both[m]) <= Prio(both[n])
  <2>1. CASE n <= a
    <3>1. m \in 1..a /\ n \in 1..a
      BY <1>19, <2>1
    <3>2. both[m] = list[m] /\ both[n] = list[n]
      BY <1>6, <3>1
    <3> QED
      BY <1>12, <1>19, <3>1, <3>2
  <2>2. CASE n > a
    BY <1>14, <1>17, <1>18, <2>2
  <2>3. n <= a \/ n > a
    BY <1>0
  <2> QED
    BY <2>1, <2>2, <2>3
<1>20. ASSUME NEW i \in taken \cup class, NEW j \in q.left \ class PROVE Prio(i) < Prio(j)
  <2>1. CASE i \in taken
    BY <1>12, <2>1
  <2>2. CASE i \in class
    <3>1. PICK l \in q.left : ~(Prio(j) <= Prio(l))
      BY DEF LowestOf
    <3>2. Prio(i) <= Prio(l)
      BY <2>2 DEF LowestOf
    <3>3. Prio(i) \in Nat /\ Prio(j) \in Nat /\ Prio(l) \in Nat
      BY <1>2, <1>3, <2>2
    <3> QED
      BY <3>1, <3>2, <3>3
  <2> QED
    BY <2>1, <2>2
<1>21. Split(new)
  <2>1. new.left \subseteq Members(new)
    BY <1>3, <1>10
  <2>2. \A n \in DOMAIN new.candidates : new.candidates[n] \in Members(new) \ new.left
    BY <1>6, <1>10, <1>14
  <2>3. \A j \in Members(new) \ new.left : \E n \in DOMAIN new.candidates : new.candidates[n] = j
    BY <1>6, <1>10, <1>15
  <2>4. Len(new.candidates) = Cardinality(Members(new) \ new.left)
    BY <1>10, <1>16
  <2>5. \A m, n \in DOMAIN new.candidates : m < n =>
          Priority(new, new.candidates[m]) <= Priority(new, new.candidates[n])
    <3>1. \A m, n \in 1..(a + b) : m < n => Priority(new, both[m]) <= Priority(new, both[n])
      BY <1>11, <1>19
    <3> QED
      BY <3>1, <1>6
  <2>6. \A i \in Members(new) \ new.left, j \in new.left : Priority(new, i) < Priority(new, j)
    BY <1>10, <1>11, <1>20
  <2> QED
    BY <2>1, <2>2, <2>3, <2>4, <2>5, <2>6 DEF Split
<1> QED
  BY <1>1, <1>21 DEF SelectInv, Listed

\* A class is enumerated, in its order or rotated.
LEMMA ClassListed ==
    ASSUME NEW q \in Locals, q.copy \in Configurations, q.left \subseteq Members(q),
           NEW class, class = LowestOf(q), NEW size, size = Cardinality(class), size # 0,
           NEW offset \in 0..(size - 1),
           NEW seq, seq = InOrder(class) \/ seq = Rotated(InOrder(class), offset)
    PROVE  /\ size \in Nat /\ seq \in Seq(class) /\ Len(seq) = size
           /\ \A i \in class : \E n \in 1..size : seq[n] = i
<1>1. PICK last \in Nat : class \in SUBSET (1..last)
  BY MembersAre DEF LowestOf
<1>2. PICK order : order = InOrder(class)
  OBVIOUS
<1>3. /\ size \in Nat /\ order \in Seq(class) /\ Len(order) = size
      /\ \A i \in class : \E n \in 1..size : order[n] = i
  BY <1>1, <1>2, InOrderEnumerates
<1>4. CASE seq = order
  BY <1>3, <1>4
<1>5. CASE seq = Rotated(order, offset)
  <2>1. /\ seq \in Seq(class) /\ Len(seq) = size
        /\ \A m \in 1..size : \E n \in 1..size : seq[n] = order[m]
    <3>1. Len(order) # 0 /\ offset \in 0..(Len(order) - 1)
      BY <1>3
    <3>2. /\ Rotated(order, offset) \in Seq(class)
          /\ Len(Rotated(order, offset)) = Len(order)
          /\ \A m \in 1..Len(order) : \E n \in 1..Len(order) : Rotated(order, offset)[n] = order[m]
      BY <1>3, <3>1, RotatedKeeps
    <3> QED
      BY <1>3, <1>5, <3>2
  <2> QED
    BY <1>3, <2>1
<1> QED
  BY <1>2, <1>4, <1>5

\* The facts about a pick: whose upstreams and which cursor it takes, and that
\* the first of the class is at the cursor.
Priorities == {u.priority : u \in
    UNION {{c.upstreams[i] : i \in DOMAIN c.upstreams} : c \in Configurations}}

LEMMA KeyFound ==
    ASSUME NEW q \in Locals, q.at = "candidates", SelectInv(q), NEW class, class = LowestOf(q),
           NEW l \in class
    PROVE  /\ Priority(q, l) \in Priorities \cap Nat
           /\ \A j \in class : Priority(q, j) = Priority(q, l)
<1>1. q.copy \in Configurations /\ q.left \subseteq Members(q)
  BY DEF SelectInv, Listed, Split
<1>2. class \subseteq q.left
  BY DEF LowestOf
<1>3. \A j \in class : Priority(q, j) \in Nat
  BY <1>1, <1>2, MembersAre
<1>4. \A i, j \in class : Priority(q, i) <= Priority(q, j)
  BY DEF LowestOf
<1>5. \A j \in class : Priority(q, j) = Priority(q, l)
  BY <1>3, <1>4
<1>6. Priority(q, l) \in Priorities
  <2>1. l \in DOMAIN q.copy.upstreams
    BY <1>1, <1>2 DEF Members
  <2> QED
    BY <1>1, <2>1 DEF Priority, Priorities
<1> QED
  BY <1>3, <1>5, <1>6

Pick(r, q, p, class, offset) ==
    LET k == <<q.server, q.group, p>>
        size == Cardinality(class)
        first == InOrder(class)[offset + 1]
    IN  /\ q = request[r] /\ q.at = "candidates" /\ SelectInv(q) /\ CopyInv(q)
        /\ class = LowestOf(q) /\ \A j \in class : Priority(q, j) = p
        /\ k \in Key /\ cursor[k] \in Nat
        /\ size \in Nat /\ size > 1 /\ offset = cursor[k] % size /\ offset < size
        /\ first \in class /\ q.copy.upstreams[first].id \in Upstreams
        /\ KeyOf(r, class) = k
        /\ cursor' = [cursor EXCEPT ![k] = Advanced(cursor[k], size)]
        /\ firsts' = [firsts EXCEPT ![k][q.copy.upstreams[first].id] = @ + 1]

LEMMA Picked ==
    ASSUME RequestInv, CountInv, NEW r \in Requests, SelectRotated(r)
    PROVE  \E q \in Locals, p \in Priorities \cap Nat, class \in SUBSET Nat, offset \in Nat :
             Pick(r, q, p, class, offset)
<1>0. PICK q \in Locals : q = request[r] /\ HostInv(q) /\ SelectInv(q) /\ CopyInv(q)
  BY DEF RequestInv
<1>1. /\ q.at = "candidates" /\ q.copy \in Configurations /\ q.left \subseteq Members(q)
      /\ q.server \in Servers /\ q.group \in Groups
  BY <1>0 DEF SelectRotated, SelectInv, Listed, Split
<1>2. PICK class : class = LowestOf(q)
  OBVIOUS
<1>3. Lowest(r) = class
  BY <1>0, <1>2 DEF Lowest, LowestOf, Priority
<1>4. PICK last \in Nat : class \in SUBSET (1..last)
  BY <1>1, <1>2, MembersAre DEF LowestOf
<1>5. PICK size \in Nat : size = Cardinality(class) /\ size > 1
  <2>1. Cardinality(class) \in Nat
    BY <1>4, Ranks
  <2> QED
    BY <1>3, <2>1 DEF SelectRotated
<1>6. PICK order : order = InOrder(class)
  OBVIOUS
<1>7. order \in Seq(class) /\ Len(order) = size
  BY <1>4, <1>5, <1>6, InOrderEnumerates
<1>8. class # {}
  BY <1>4, <1>5, FS_EmptySet
<1>9. PICK l : l \in class /\ l = CHOOSE j \in class : TRUE
  BY <1>8
<1>10. PICK p \in Priorities \cap Nat : p = Priority(q, l) /\ \A j \in class : Priority(q, j) = p
  BY <1>0, <1>1, <1>2, <1>9, KeyFound
<1>11. PICK k : k = <<q.server, q.group, p>>
  OBVIOUS
<1>12. k \in Key
  BY <1>1, <1>10, <1>11 DEF Key, Priorities
<1>13. KeyOf(r, class) = k
  BY <1>0, <1>9, <1>10, <1>11 DEF KeyOf, Priority
<1>14. PICK c \in Nat : c = cursor[k]
  BY <1>12, BoundsAssumption DEF CountInv
<1>15. PICK offset \in 0..(size - 1) : offset = c % size
  <2>0. size \in Nat \ {0}
    BY <1>5
  <2>1. c % size \in 0..(size - 1)
    BY <2>0, Remainder
  <2> QED
    BY <2>1
<1>16. PICK first : first = order[offset + 1] /\ first \in class
  <2>1. offset + 1 \in 1..size
    BY <1>5, <1>15
  <2> QED
    BY <1>7, <2>1, ElementOfSeq
<1>17. q.copy.upstreams[first].id \in Upstreams
  BY <1>1, <1>2, <1>16, MembersAre DEF LowestOf
<1>18. Rotated(order, offset)[1] = first
  <2>1. Len(order) # 0 /\ offset \in 0..(Len(order) - 1)
    BY <1>5, <1>7, <1>15
  <2> QED
    BY <1>7, <1>16, <2>1, RotatedKeeps
<1>19. cursor' = [cursor EXCEPT ![k] = Advanced(cursor[k], size)]
  BY <1>3, <1>5, <1>13 DEF SelectRotated
<1>20. firsts' = [firsts EXCEPT ![k][q.copy.upstreams[first].id] = @ + 1]
  BY <1>0, <1>3, <1>5, <1>6, <1>13, <1>14, <1>15, <1>18 DEF SelectRotated
<1>21. class \in SUBSET Nat /\ offset \in Nat /\ offset < size
  BY <1>4, <1>5, <1>15
<1>22. Pick(r, q, p, class, offset)
  BY <1>0, <1>1, <1>2, <1>5, <1>6, <1>10, <1>11, <1>12, <1>13, <1>14, <1>15, <1>16, <1>17, <1>19,
     <1>20, <1>21 DEF Pick
<1> QED
  BY <1>21, <1>22

\* select_upstream_candidates keeps the invariant.
LEMMA SelectSteps ==
    ASSUME RequestInv, CountInv, NEW r \in Requests,
           SelectRotated(r) \/ SelectSingle(r) \/ Selected(r)
    PROVE  RequestInv'
<1>0. PICK q \in Locals : q = request[r] /\ HostInv(q) /\ SelectInv(q) /\ CopyInv(q)
  BY DEF RequestInv
<1>1. q.at = "candidates" /\ q.copy \in Configurations /\ q.left \subseteq Members(q) /\ Split(q)
  BY <1>0 DEF SelectRotated, SelectSingle, Selected, SelectInv, Listed, Split
<1>2. PICK class : class = LowestOf(q)
  OBVIOUS
<1>3. Lowest(r) = class
  BY <1>0, <1>2 DEF Lowest, LowestOf, Priority
<1>4. ASSUME NEW seq, seq \in Seq(class), Len(seq) = Cardinality(class),
             \A i \in class : \E n \in 1..Len(seq) : seq[n] = i,
             request' = [request EXCEPT ![r].left = @ \ class, ![r].candidates = @ \o seq],
             UNCHANGED <<config, writing, rewritten>>
      PROVE  RequestInv'
  <2>1. PICK left, both : left = q.left \ class /\ both = q.candidates \o seq
    OBVIOUS
  <2>2. PICK new : new = [q EXCEPT !.left = left, !.candidates = both]
    OBVIOUS
  <2>3. /\ new.at = "candidates" /\ new.copy = q.copy /\ new.group = q.group
        /\ new.server = q.server /\ new.left = left /\ new.candidates = both
        /\ new.quiet = q.quiet
    BY <1>1, <2>2 DEF Locals
  <2>4. class \subseteq Nat /\ left \in SUBSET Nat
    BY <1>2, <2>1 DEF LowestOf, Locals
  <2>5. both \in Seq(Nat)
    <3>1. PICK s, t : s = q.candidates /\ t = seq
      OBVIOUS
    <3>2. t \in Seq(Nat)
      BY <1>4, <2>4, <3>1, SeqMonotonic
    <3>3. s \in Seq(Nat) /\ both = s \o t
      BY <2>1, <3>1 DEF Locals
    <3> QED
      BY <3>2, <3>3, Joined
  <2>6. new \in Locals
    BY <2>2, <2>4, <2>5 DEF Locals
  <2>7. SelectInv(new)
    <3>1. new.left = q.left \ class /\ new.candidates = both /\ both = q.candidates \o seq
      BY <2>1, <2>3
    <3>2. SelectInv(q) /\ q.at = "candidates"
      BY <1>0, <1>1
    <3>3. /\ seq \in Seq(class) /\ Len(seq) = Cardinality(class)
          /\ \A i \in class : \E n \in 1..Len(seq) : seq[n] = i
      BY <1>4
    <3> QED
      BY <1>2, <2>3, <3>1, <3>2, <3>3, ClassTaken
  <2>8. HostInv(new) /\ CopyInv(new)
    BY <1>0, <1>1, <2>3 DEF HostInv, CopyInv
  <2>9. request' = [request EXCEPT ![r] = new]
    BY <1>0, <1>4, <2>1, <2>2
  <2> QED
    BY <1>4, <2>6, <2>7, <2>8, <2>9, RequestChanged
<1>5. ASSUME SelectRotated(r) PROVE RequestInv'
  <2>1. PICK size, offset : /\ size = Cardinality(class) /\ size \in Nat /\ size > 1
                            /\ offset = cursor[KeyOf(r, class)] % Cardinality(class)
                            /\ offset \in 0..(size - 1)
    <3>1. PICK o \in Locals, p \in Priorities \cap Nat, picked \in SUBSET Nat, offset \in Nat :
            Pick(r, o, p, picked, offset)
      BY <1>5, Picked
    <3>2. picked = class
      BY <1>0, <1>2, <3>1 DEF Pick
    <3>3. /\ Cardinality(class) \in Nat /\ Cardinality(class) > 1
          /\ offset = cursor[KeyOf(r, class)] % Cardinality(class) /\ offset < Cardinality(class)
      BY <3>1, <3>2 DEF Pick
    <3> QED
      BY <3>3
  <2>2. PICK seq : seq = Rotated(InOrder(class), offset)
    OBVIOUS
  <2>5. request' = [request EXCEPT ![r].left = @ \ class, ![r].candidates = @ \o seq]
    BY <1>3, <1>5, <2>1, <2>2 DEF SelectRotated
  <2>6. UNCHANGED <<config, writing, rewritten>>
    BY <1>5 DEF SelectRotated
  <2>7. /\ seq \in Seq(class) /\ Len(seq) = size
        /\ \A i \in class : \E n \in 1..size : seq[n] = i
    BY <1>1, <1>2, <2>1, <2>2, ClassListed
  <2> QED
    BY <1>4, <2>1, <2>5, <2>6, <2>7
<1>6. ASSUME SelectSingle(r) PROVE RequestInv'
  <2>1. PICK seq, size : seq = InOrder(class) /\ size = Cardinality(class)
    OBVIOUS
  <2>2. size = 1 /\ 0 \in 0..(size - 1)
    BY <1>3, <1>6, <2>1 DEF SelectSingle
  <2>3. request' = [request EXCEPT ![r].left = @ \ class, ![r].candidates = @ \o seq]
    BY <1>3, <1>6, <2>1 DEF SelectSingle, StepTo
  <2>4. UNCHANGED <<config, writing, rewritten>>
    BY <1>6 DEF SelectSingle, StepTo
  <2>5. /\ seq \in Seq(class) /\ Len(seq) = size
        /\ \A i \in class : \E n \in 1..size : seq[n] = i
    <3>1. PICK offset \in 0..(size - 1) : TRUE
      BY <2>2
    <3>2. size # 0 /\ (seq = InOrder(class) \/ seq = Rotated(InOrder(class), offset))
      BY <2>1, <2>2
    <3> QED
      BY <1>1, <1>2, <2>1, <3>2, ClassListed
  <2> QED
    BY <1>4, <2>1, <2>3, <2>4, <2>5
<1>7. ASSUME Selected(r) PROVE RequestInv'
  <2>1. PICK new : new = [q EXCEPT !.at = "done"]
    OBVIOUS
  <2>2. new \in Locals
    BY <2>1 DEF Locals, RequestSteps
  <2>3. q.left = {}
    BY <1>0, <1>7 DEF Selected
  <2>4. /\ new.at = "done" /\ new.copy = q.copy /\ new.group = q.group /\ new.left = {}
        /\ new.candidates = q.candidates
    BY <2>1, <2>3 DEF Locals
  <2>5. Split(new)
    BY <1>1, <2>3, <2>4 DEF Split, Members, Priority
  <2>6. HostInv(new) /\ SelectInv(new) /\ CopyInv(new)
    BY <1>1, <2>4, <2>5 DEF HostInv, SelectInv, CopyInv, Listed
  <2>7. StepTo(r, new)
    BY <1>0, <1>7, <2>1 DEF Selected
  <2> QED
    BY <2>2, <2>6, <2>7, LocalStep
<1> QED
  BY <1>5, <1>6, <1>7

\* An apply keeps the invariant.
LEMMA WriteSteps ==
    ASSUME RequestInv, NEW s \in Servers, BeginWrite(s) \/ EndWrite(s)
    PROVE  RequestInv'
<1>1. ASSUME BeginWrite(s) PROVE RequestInv'
  <2>1. request' \in [Requests -> Locals]
    BY <1>1 DEF BeginWrite, RequestInv, Locals
  <2>2. ASSUME NEW o \in Requests
        PROVE  (HostInv(request[o]) /\ SelectInv(request[o]) /\ CopyInv(request[o]))'
    <3>1. PICK q \in Locals : q = request[o] /\ HostInv(q) /\ SelectInv(q) /\ CopyInv(q)
      BY DEF RequestInv
    <3>2. PICK new : new = [q EXCEPT !.quiet = FALSE]
      OBVIOUS
    <3>3. request'[o] = new
      BY <1>1, <3>1, <3>2 DEF BeginWrite
    <3>4. /\ new.at = q.at /\ ~new.quiet /\ new.path = q.path /\ new.server = q.server
          /\ new.copy = q.copy /\ new.group = q.group /\ new.left = q.left /\ new.host = q.host
          /\ new.candidates = q.candidates
      BY <3>2 DEF Locals
    <3>5. SelectInv(new)
      BY <3>1, <3>4 DEF SelectInv, Listed, Split, Members, Priority
    <3>6. UNCHANGED <<config, rewritten>>
      BY <1>1 DEF BeginWrite
    <3>7. CopyInv(new)'
      BY <3>1, <3>4, <3>6 DEF CopyInv
    <3>8. HostInv(new)'
      BY <3>1, <3>4 DEF HostInv
    <3> QED
      BY <3>3, <3>5, <3>7, <3>8 DEF HostInv, CopyInv
  <2> QED
    BY <1>1, <2>1, <2>2 DEF BeginWrite, RequestInv
<1>2. ASSUME EndWrite(s) PROVE RequestInv'
  <2>1. request' = request /\ rewritten' = TRUE /\ writing # {}
    BY <1>2 DEF EndWrite
  <2>2. ASSUME NEW o \in Requests
        PROVE  (HostInv(request[o]) /\ SelectInv(request[o]) /\ CopyInv(request[o]))'
    <3>1. PICK q \in Locals : q = request[o] /\ HostInv(q) /\ SelectInv(q)
      BY DEF RequestInv
    <3>2. HostInv(q)'
      BY <2>1, <3>1 DEF HostInv
    <3>3. CopyInv(q)'
      BY <2>1 DEF CopyInv
    <3> QED
      BY <2>1, <3>1, <3>2, <3>3 DEF HostInv, CopyInv
  <2> QED
    BY <1>2, <2>1, <2>2 DEF EndWrite, RequestInv
<1> QED
  BY <1>1, <1>2

\* Every step keeps the invariants.
LEMMA RequestInvStep ==
    ASSUME RequestInv, CountInv, [Next]_vars
    PROVE  RequestInv'
<1>1. CASE Next
  BY <1>1, HostSteps, RouteSteps, SelectSteps, WriteSteps DEF Next
<1>2. CASE UNCHANGED vars
  <2>1. UNCHANGED <<config, writing, rewritten, request>>
    BY <1>2 DEF vars
  <2>2. ASSUME NEW o \in Requests
        PROVE  (HostInv(request[o]) /\ SelectInv(request[o]) /\ CopyInv(request[o]))'
    <3>1. PICK q \in Locals : q = request[o] /\ HostInv(q) /\ SelectInv(q) /\ CopyInv(q)
      BY DEF RequestInv
    <3>2. HostInv(q)' /\ CopyInv(q)'
      BY <2>1, <3>1 DEF HostInv, CopyInv
    <3> QED
      BY <2>1, <3>1, <3>2 DEF HostInv, CopyInv
  <2> QED
    BY <2>1, <2>2 DEF RequestInv
<1> QED
  BY <1>1, <1>2

\* Only a pick changes the counters.
LEMMA OthersKeepCounts ==
    ASSUME [Next]_vars
    PROVE  \/ UNCHANGED <<cursor, picks, firsts>>
           \/ \E r \in Requests : SelectRotated(r)
BY DEF Next, vars, BeginWrite, EndWrite, StepTo, Arrive, TryHost, TakeDefault, ReadConfig,
       ChooseRoute, SelectSingle, Selected

LEMMA CountInvStep ==
    ASSUME RequestInv, CountInv, [Next]_vars
    PROVE  CountInv'
<1>1. CASE UNCHANGED <<cursor, picks, firsts>>
  BY <1>1 DEF CountInv
<1>2. ASSUME NEW r \in Requests, SelectRotated(r) PROVE CountInv'
  <2>1. PICK q \in Locals, p \in Priorities \cap Nat, class \in SUBSET Nat, offset \in Nat :
          Pick(r, q, p, class, offset)
    BY <1>2, Picked
  <2>2. PICK k \in Key, u \in Upstreams, size \in Nat :
          /\ cursor' = [cursor EXCEPT ![k] = Advanced(cursor[k], size)]
          /\ firsts' = [firsts EXCEPT ![k][u] = @ + 1]
    BY <2>1 DEF Pick
  <2>3. PICK n \in Nat : n = picks /\ n < MaxPicks /\ picks' = n + 1
    <3>1. PICK n \in Nat : n = picks
      BY BoundsAssumption DEF CountInv
    <3>2. n < MaxPicks /\ picks' = n + 1
      BY <1>2, <3>1 DEF SelectRotated
    <3> QED
      BY <3>1, <3>2
  <2>4. PICK c \in 0..(Wrap - 1) : c = cursor[k] /\ c <= n
    BY <2>3 DEF CountInv
  <2>5. PICK d \in 0..(Wrap - 1) : d = Advanced(c, size) /\ d <= c + 1
    <3>1. /\ c \in Nat /\ c % Wrap = c
          /\ (c + 1) % Wrap = IF (c % Wrap) + 1 = Wrap THEN 0 ELSE (c % Wrap) + 1
      <4>1. c \in Nat /\ Wrap \in Nat \ {0} /\ c < Wrap
        BY BoundsAssumption
      <4> QED
        BY <4>1, Remainder
    <3> QED
      BY <3>1, BoundsAssumption DEF Advanced
  <2>6. cursor' = [cursor EXCEPT ![k] = d]
    BY <2>2, <2>4, <2>5
  <2>7. cursor' \in [Key -> 0..(Wrap - 1)] /\ \A l \in Key : cursor'[l] <= n + 1
    <3>1. ASSUME NEW l \in Key PROVE cursor'[l] <= n + 1
      <4>1. CASE l = k
        <5>1. cursor'[l] = d
          BY <4>1, <2>6 DEF CountInv
        <5> QED
          BY <5>1, <2>4, <2>5, BoundsAssumption
      <4>2. CASE l # k
        <5>1. cursor'[l] = cursor[l]
          BY <4>2, <2>6 DEF CountInv
        <5>2. cursor[l] \in 0..(Wrap - 1) /\ cursor[l] <= n
          BY <2>3 DEF CountInv
        <5> QED
          BY <5>1, <5>2, BoundsAssumption
      <4> QED
        BY <4>1, <4>2
    <3> QED
      BY <3>1, <2>6 DEF CountInv
  <2>8. PICK f \in 0..MaxPicks : f = firsts[k][u] /\ f <= n
    BY <2>3 DEF CountInv
  <2>9. ASSUME NEW l \in Key
        PROVE  firsts'[l] \in [Upstreams -> 0..MaxPicks] /\ \A v \in Upstreams : firsts'[l][v] <= n + 1
    <3>1. firsts[l] \in [Upstreams -> 0..MaxPicks] /\ \A v \in Upstreams : firsts[l][v] <= n
      BY <2>3 DEF CountInv
    <3>2. f + 1 \in 0..MaxPicks /\ f + 1 <= n + 1
      BY <2>3, <2>8, BoundsAssumption
    <3>3. \A v \in Upstreams : firsts[l][v] <= n + 1
      BY <3>1, BoundsAssumption
    <3>4. CASE l = k
      <4>1. firsts'[l] = [firsts[l] EXCEPT ![u] = f + 1]
        BY <3>4, <2>2, <2>8 DEF CountInv
      <4> QED
        BY <4>1, <3>1, <3>2, <3>3
    <3>5. CASE l # k
      <4>1. firsts'[l] = firsts[l]
        BY <3>5, <2>2 DEF CountInv
      <4> QED
        BY <4>1, <3>1, <3>3
    <3> QED
      BY <3>4, <3>5
  <2>10. firsts' \in [Key -> [Upstreams -> 0..MaxPicks]]
    BY <2>2, <2>9 DEF CountInv
  <2>11. picks' \in 0..MaxPicks
    BY <2>3, BoundsAssumption
  <2> QED
    BY <2>3, <2>7, <2>9, <2>10, <2>11 DEF CountInv
<1> QED
  BY <1>1, <1>2, OthersKeepCounts

LEMMA CountInvInit == Init => CountInv
<1> SUFFICES ASSUME Init PROVE CountInv
  OBVIOUS
<1>1. 0 \in 0..(Wrap - 1) /\ 0 \in 0..MaxPicks
  BY BoundsAssumption
<1> QED
  BY <1>1 DEF Init, CountInv

LEMMA InvariantHolds == Spec => [](RequestInv /\ CountInv)
<1>1. Init => RequestInv /\ CountInv
  BY RequestInvInit, CountInvInit
<1>2. RequestInv /\ CountInv /\ [Next]_vars => (RequestInv /\ CountInv)'
  BY RequestInvStep, CountInvStep
<1> QED
  BY <1>1, <1>2, PTL DEF Spec

----------------------------------------------------------------------------
(* The rotation.  The cursor of a class counts its picks, as long as it does *)
(* not wrap; its members before the cursor's remainder are one ahead.        *)

ClassOf(ups, g, p) == {j \in DOMAIN ups : ups[j].group = g /\ ups[j].priority = p}

\* The counts of a class, in its order, when its cursor is c.
EvenAt(ups, g, p, counts, c) ==
    LET class == ClassOf(ups, g, p)
        size == Cardinality(class)
        count(n) == counts[ups[InOrder(class)[n]].id]
    IN  size > 0 => \E base \in Nat : \A n \in 1..size :
          count(n) = IF n <= c % size THEN base + 1 ELSE base

Even(s, g, p) == EvenAt(config[s].upstreams, g, p, firsts[<<s, g, p>>], cursor[<<s, g, p>>])

EvenInv == ~rewritten =>
    \A s \in Servers, g \in Groups, p \in Priorities \cap Nat : Even(s, g, p)

\* The class of upstreams that a pick takes is the whole class of its key.
LEMMA WholeClass ==
    ASSUME NEW q \in Locals, q.at = "candidates", SelectInv(q), NEW p \in Nat,
           NEW class, class = LowestOf(q), class # {}, \A j \in class : Priority(q, j) = p
    PROVE  class = {j \in DOMAIN q.copy.upstreams :
                      q.copy.upstreams[j].group = q.group /\ q.copy.upstreams[j].priority = p}
<1>1. q.copy \in Configurations /\ Split(q)
  BY DEF SelectInv, Listed
<1>2. \A j \in Members(q) : Priority(q, j) \in Nat
  BY <1>1, MembersAre
<1>3. class \subseteq q.left /\ q.left \subseteq Members(q)
  BY <1>1 DEF LowestOf, Split
<1>4. ASSUME NEW j \in Members(q), Priority(q, j) = p PROVE j \in class
  <2>1. PICK l \in class : Priority(q, l) = p
    OBVIOUS
  <2>2. j \in q.left
    <3>1. j \notin q.left => Priority(q, j) < Priority(q, l)
      BY <1>1, <1>3 DEF Split
    <3> QED
      BY <3>1, <1>4, <2>1
  <2> QED
    BY <2>1, <2>2, <1>4 DEF LowestOf
<1> QED
  BY <1>3, <1>4 DEF Members, Priority

\* A pick advances the cursor of the class, and counts for the member after it.
LEMMA PickIsEven ==
    ASSUME RequestInv, CountInv, EvenInv, MaxPicks < Wrap, ~rewritten,
           NEW r \in Requests, SelectRotated(r)
    PROVE  \A s \in Servers, g \in Groups, p \in Priorities \cap Nat : Even(s, g, p)'
<1>1. PICK q \in Locals, p \in Priorities \cap Nat, class \in SUBSET Nat, offset \in Nat :
        Pick(r, q, p, class, offset)
  BY Picked
<1>2. PICK s, g, k : s = q.server /\ g = q.group /\ k = <<s, g, p>>
  OBVIOUS
<1>3. /\ s \in Servers /\ g \in Groups /\ k \in Key /\ q.copy = config[s]
      /\ q.copy \in Configurations
  BY <1>1, <1>2 DEF Pick, SelectInv, CopyInv, Listed
<1>4. PICK size \in Nat : size = Cardinality(class) /\ size > 1
  BY <1>1 DEF Pick
<1>5. class # {}
  BY <1>4, FS_EmptySet
<1>7. PICK ups, order : ups = config[s].upstreams /\ order = InOrder(class)
  OBVIOUS
<1>6. class = ClassOf(ups, g, p)
  <2>1. /\ q.at = "candidates" /\ SelectInv(q) /\ class = LowestOf(q)
        /\ \A j \in class : Priority(q, j) = p
    BY <1>1 DEF Pick
  <2>2. class = {j \in DOMAIN q.copy.upstreams :
                   q.copy.upstreams[j].group = q.group /\ q.copy.upstreams[j].priority = p}
    BY <2>1, <1>5, WholeClass
  <2> QED
    BY <2>2, <1>2, <1>3, <1>7 DEF ClassOf
<1>8. /\ order \in Seq(class) /\ Len(order) = size
      /\ \A m, n \in 1..size : order[m] = order[n] => m = n
  <2>1. PICK last \in Nat : class \in SUBSET (1..last)
    <3>1. ups \in Seq(Upstream)
      BY <1>3, <1>7, Constants
    <3> QED
      BY <1>6, <3>1, LenProperties DEF ClassOf
  <2> QED
    BY <1>4, <1>7, <2>1, InOrderEnumerates
<1>9. \A n \in 1..size : order[n] \in class /\ order[n] \in DOMAIN ups
  <2>1. \A n \in 1..size : order[n] \in class
    BY <1>8, ElementOfSeq
  <2>2. class \subseteq DOMAIN ups
    BY <1>6 DEF ClassOf
  <2> QED
    BY <2>1, <2>2
<1>10. ups \in Seq(Upstream) /\ UniqueIds(ups)
  BY <1>3, <1>7, Constants
<1> DEFINE Id(n) == ups[order[n]].id
<1>11. \A n \in 1..size : Id(n) \in Upstreams
  <2>1. \A j \in DOMAIN ups : ups[j] \in Upstream
    BY <1>10, ElementOfSeq, LenProperties
  <2>2. \A j \in DOMAIN ups : ups[j].id \in Upstreams
    BY <2>1 DEF Upstream
  <2> QED
    BY <1>9, <2>2
<1>12. \A m, n \in 1..size : Id(m) = Id(n) => m = n
  BY <1>8, <1>9, <1>10 DEF UniqueIds
<1>13. PICK c \in Nat : c = cursor[k] /\ offset = c % size /\ offset < size /\ c + 1 < Wrap
  <2>1. PICK c, n : c = cursor[k] /\ n = picks
    OBVIOUS
  <2>2. c \in Nat /\ n \in Nat /\ c <= n /\ n < MaxPicks
    <3>1. c \in 0..(Wrap - 1) /\ n \in 0..MaxPicks /\ c <= n
      BY <1>3, <2>1 DEF CountInv
    <3>2. n < MaxPicks
      BY <2>1 DEF SelectRotated
    <3> QED
      BY <3>1, <3>2, BoundsAssumption
  <2>3. c + 1 < Wrap
    BY <2>2, BoundsAssumption
  <2> QED
    BY <1>1, <1>2, <1>4, <2>1, <2>2, <2>3 DEF Pick
<1>14. cursor' = [cursor EXCEPT ![k] = c + 1]
  <2>1. Advanced(c, size) = c + 1
    <3>1. c + 1 \in Nat /\ Wrap \in Nat \ {0}
      BY BoundsAssumption
    <3> QED
      BY <1>13, <3>1, Remainder DEF Advanced
  <2> QED
    BY <1>1, <1>2, <1>4, <1>13, <2>1 DEF Pick
<1>15. firsts' = [firsts EXCEPT ![k][Id(offset + 1)] = @ + 1]
  BY <1>1, <1>2, <1>3, <1>7 DEF Pick
<1>16. UNCHANGED config
  BY DEF SelectRotated
<1>17. Even(s, g, p)'
  <2>1. PICK base \in Nat : \A n \in 1..size :
          firsts[k][Id(n)] = IF n <= offset THEN base + 1 ELSE base
    <3>1. EvenAt(ups, g, p, firsts[k], c)
      BY <1>1, <1>2, <1>3, <1>7, <1>13 DEF EvenInv, Even
    <3> QED
      BY <3>1, <1>4, <1>6, <1>7, <1>13 DEF EvenAt
  <2>2. \A n \in 1..size :
          firsts'[k][Id(n)] = IF n <= offset + 1 THEN base + 1 ELSE base
    <3> SUFFICES ASSUME NEW n \in 1..size
                 PROVE  firsts'[k][Id(n)] = IF n <= offset + 1 THEN base + 1 ELSE base
      OBVIOUS
    <3>1. offset + 1 \in 1..size /\ firsts[k][Id(offset + 1)] = base
      BY <1>4, <1>13, <2>1
    <3>2. firsts \in [Key -> [Upstreams -> 0..MaxPicks]]
      BY DEF CountInv
    <3>3. CASE n = offset + 1
      <4>1. firsts'[k][Id(n)] = firsts[k][Id(n)] + 1
        BY <1>3, <1>11, <1>15, <3>2, <3>3
      <4> QED
        BY <4>1, <3>1, <3>3
    <3>4. CASE n # offset + 1
      <4>1. Id(n) # Id(offset + 1)
        BY <1>12, <3>1, <3>4
      <4>2. firsts'[k][Id(n)] = firsts[k][Id(n)]
        BY <1>3, <1>11, <1>15, <3>2, <4>1
      <4>3. n <= offset + 1 <=> n <= offset
        BY <3>4
      <4> QED
        BY <2>1, <4>2, <4>3
    <3> QED
      BY <3>3, <3>4
  <2>3. cursor'[k] = c + 1
    BY <1>3, <1>14 DEF CountInv
  <2>4. PICK next \in Nat : next = (c + 1) % size
                           /\ next = IF offset + 1 = size THEN 0 ELSE offset + 1
    <3>1. size \in Nat \ {0}
      BY <1>4
    <3>2. (c + 1) % size = IF (c % size) + 1 = size THEN 0 ELSE (c % size) + 1
      BY <3>1, Remainder
    <3> QED
      BY <1>13, <3>2
  <2>5. \E other \in Nat : \A n \in 1..size :
          firsts'[k][Id(n)] = IF n <= next THEN other + 1 ELSE other
    <3>1. CASE offset + 1 = size
      <4>1. \A n \in 1..size : firsts'[k][Id(n)] = IF n <= next THEN (base + 1) + 1 ELSE base + 1
        BY <2>2, <2>4, <3>1, <1>4
      <4>2. base + 1 \in Nat
        OBVIOUS
      <4> QED
        BY <4>1, <4>2
    <3>2. CASE offset + 1 # size
      BY <2>2, <2>4, <3>2
    <3> QED
      BY <3>1, <3>2
  <2> QED
    <3>1. PICK counts : counts = firsts'[k]
      OBVIOUS
    <3>2. EvenAt(ups, g, p, counts, c + 1)
      BY <1>4, <1>6, <1>7, <2>4, <2>5, <3>1 DEF EvenAt
    <3> QED
      BY <1>2, <1>7, <1>16, <2>3, <3>1, <3>2 DEF Even
<1>18. ASSUME NEW t \in Servers, NEW h \in Groups, NEW o \in Priorities \cap Nat,
              <<t, h, o>> # k
       PROVE  Even(t, h, o)'
  <2>1. PICK l : l = <<t, h, o>>
    OBVIOUS
  <2>2. l \in Key /\ l # k
    BY <1>18, <2>1 DEF Key, Priorities
  <2>3. cursor'[l] = cursor[l] /\ firsts'[l] = firsts[l]
    BY <1>14, <1>15, <2>2 DEF CountInv
  <2>4. Even(t, h, o)
    BY DEF EvenInv
  <2> QED
    BY <1>16, <2>1, <2>3, <2>4 DEF Even
<1> QED
  BY <1>2, <1>17, <1>18

\* Each member of a set has a place in a sequence.
Covers(order, set) == \A i \in set : \E n \in 1..Cardinality(set) : order[n] = i

\* The members of a class, in its order.
LEMMA ClassMembers ==
    ASSUME NEW conf \in Configurations, NEW ups, ups = conf.upstreams, NEW g, NEW p,
           NEW class, class = ClassOf(ups, g, p), NEW order, order = InOrder(class)
    PROVE  /\ Cardinality(class) \in Nat
           /\ \A n \in 1..Cardinality(class) : order[n] \in class
           /\ Covers(order, class)
           /\ \A i \in class : ups[i].id \in Upstreams
<1>1. PICK last \in Nat : class \in SUBSET (1..last) /\ DOMAIN ups = 1..last /\ last = Len(ups)
  <2>1. ups \in Seq(Upstream)
    BY Constants
  <2> QED
    BY <2>1, LenProperties DEF ClassOf
<1>2. /\ Cardinality(class) \in Nat /\ order \in Seq(class) /\ Len(order) = Cardinality(class)
      /\ \A i \in class : \E n \in 1..Cardinality(class) : order[n] = i
  <2>1. /\ Cardinality(class) \in Nat /\ InOrder(class) \in Seq(class)
        /\ Len(InOrder(class)) = Cardinality(class)
        /\ \A i \in class : \E n \in 1..Cardinality(class) : InOrder(class)[n] = i
    <3>1. PICK set : set = class
      OBVIOUS
    <3>2. set \in SUBSET (1..last)
      BY <1>1, <3>1
    <3>3. /\ Cardinality(set) \in Nat /\ InOrder(set) \in Seq(set)
          /\ Len(InOrder(set)) = Cardinality(set)
          /\ \A i \in set : \E n \in 1..Cardinality(set) : InOrder(set)[n] = i
      BY <3>2, InOrderEnumerates
    <3> QED
      BY <3>1, <3>3
  <2> QED
    BY <2>1
<1>3. \A n \in 1..Cardinality(class) : order[n] \in class
  BY <1>2, ElementOfSeq
<1>4. \A i \in class : ups[i] \in Upstream
  BY <1>1, Constants, ElementOfSeq
<1>5. \A i \in class : ups[i].id \in Upstreams
  BY <1>4 DEF Upstream
<1> QED
  BY <1>2, <1>3, <1>5 DEF Covers

LEMMA EvenInvInit == Init => EvenInv
<1> SUFFICES ASSUME Init, NEW s \in Servers, NEW g \in Groups, NEW p \in Priorities \cap Nat
             PROVE  Even(s, g, p)
  BY DEF EvenInv
<1>1. PICK conf, ups : conf = config[s] /\ conf \in Configurations /\ ups = conf.upstreams
  BY DEF Init
<1>2. PICK class, order, size : /\ class = ClassOf(ups, g, p) /\ order = InOrder(class)
                                /\ size = Cardinality(class)
  OBVIOUS
<1>3. /\ size \in Nat /\ \A n \in 1..size : order[n] \in class
      /\ \A i \in class : ups[i].id \in Upstreams
  BY <1>1, <1>2, ClassMembers
<1>4. PICK k \in Key : k = <<s, g, p>>
  BY DEF Key, Priorities
<1>5. PICK counts : counts = firsts[k] /\ \A u \in Upstreams : counts[u] = 0
  BY DEF Init
<1>6. cursor[k] = 0
  BY DEF Init
<1>7. \A n \in 1..size : counts[ups[order[n]].id] = 0
  BY <1>3, <1>5
<1>8. ASSUME size > 0 PROVE \A n \in 1..size : ~(n <= 0 % size)
  <2>1. size \in Nat \ {0} /\ 0 \in Nat
    BY <1>3, <1>8
  <2>2. 0 % size = 0
    BY <2>1, Remainder
  <2> QED
    BY <2>2
<1>9. EvenAt(ups, g, p, counts, 0)
  BY <1>2, <1>7, <1>8 DEF EvenAt
<1> QED
  BY <1>1, <1>4, <1>5, <1>6, <1>9 DEF Even

LEMMA OthersKeepConfig ==
    ASSUME [Next]_vars
    PROVE  UNCHANGED <<config, rewritten>> \/ rewritten' = TRUE
BY DEF Next, vars, BeginWrite, EndWrite, StepTo, Arrive, TryHost, TakeDefault, ReadConfig,
       ChooseRoute, SelectRotated, SelectSingle, Selected

LEMMA EvenInvStep ==
    ASSUME RequestInv, CountInv, EvenInv, MaxPicks < Wrap, [Next]_vars
    PROVE  EvenInv'
<1> SUFFICES ASSUME ~rewritten'
             PROVE  \A s \in Servers, g \in Groups, p \in Priorities \cap Nat : Even(s, g, p)'
  BY DEF EvenInv
<1>1. UNCHANGED config /\ ~rewritten
  <2>1. UNCHANGED <<config, rewritten>>
    BY OthersKeepConfig
  <2> QED
    BY <2>1
<1>2. CASE UNCHANGED <<cursor, picks, firsts>>
  BY <1>1, <1>2 DEF EvenInv, Even
<1>3. CASE \E r \in Requests : SelectRotated(r)
  BY <1>1, <1>3, PickIsEven
<1> QED
  BY <1>2, <1>3, OthersKeepCounts

----------------------------------------------------------------------------
(* The theorems.                                                           *)

\* Every variable keeps its type: the configurations, the cells being written,
\* the shared cursors and the locals of the requests (TypeOK).
THEOREM RoutingTypes == Spec => []TypeOK
<1>1. RequestInv /\ CountInv => TypeOK
  BY DEF RequestInv, CountInv, TypeOK, Locals
<1> QED
  BY <1>1, InvariantHolds, PTL

\* The route that select_route picks beats every other one that matches, whatever
\* the routes, their order and the path (BestRoute).
THEOREM TheBestRoute == Spec => []BestRoute
<1>1. RequestInv => BestRoute
  <2> SUFFICES ASSUME RequestInv, NEW r \in Requests, request[r].at = "route"
               PROVE  LET routes == request[r].copy.routes
                          path == request[r].path
                          i == SelectRoute(routes, path)
                          matching == {j \in DOMAIN routes : Matches(routes[j], path)}
                      IN  IF i = None THEN matching = {}
                          ELSE /\ i \in matching
                               /\ \A j \in matching \ {i} :
                                    /\ routes[j].type = "prefix"
                                    /\ Len(routes[j].path) <= Len(routes[i].path)
    BY DEF BestRoute
  <2>1. PICK c \in Configurations, path \in Paths :
          c = request[r].copy /\ path = request[r].path
    BY DEF RequestInv, SelectInv
  <2>2. None \notin Nat
    BY Constants
  <2> QED
    BY <2>1, <2>2, RouteSelected
<1> QED
  BY <1>1, InvariantHolds, PTL

\* A selection that has ended lists every upstream of the route's group once, in
\* the order of the priorities, whatever the cursors were (CandidatesComplete).
THEOREM AllCandidates == Spec => []CandidatesComplete
<1>1. RequestInv => CandidatesComplete
  <2> SUFFICES ASSUME RequestInv, NEW r \in Requests,
                      request[r].at = "done" /\ request[r].group # None
               PROVE  LET ups == request[r].copy.upstreams
                          list == request[r].candidates
                          members == {j \in DOMAIN ups : ups[j].group = request[r].group}
                      IN  /\ {list[n] : n \in DOMAIN list} = members
                          /\ Len(list) = Cardinality(members)
                          /\ \A m, n \in DOMAIN list :
                               m < n => ups[list[m]].priority <= ups[list[n]].priority
    BY DEF CandidatesComplete
  <2>1. PICK q \in Locals : q = request[r] /\ SelectInv(q)
    BY DEF RequestInv
  <2>2. q.left = {} /\ Split(q)
    BY <2>1 DEF SelectInv, Listed
  <2>3. PICK members : members = Members(q)
    OBVIOUS
  <2>4. /\ \A n \in DOMAIN q.candidates : q.candidates[n] \in members
        /\ \A j \in members : \E n \in DOMAIN q.candidates : q.candidates[n] = j
        /\ Len(q.candidates) = Cardinality(members)
        /\ \A m, n \in DOMAIN q.candidates :
             m < n => Priority(q, q.candidates[m]) <= Priority(q, q.candidates[n])
    BY <2>2, <2>3 DEF Split
  <2>5. {q.candidates[n] : n \in DOMAIN q.candidates} = members
    BY <2>4
  <2> QED
    BY <2>1, <2>3, <2>4, <2>5 DEF Members, Priority
<1> QED
  BY <1>1, InvariantHolds, PTL

\* A request goes to the first server of the listener that has its host, or to the
\* default one, also when applies overwrite the cells meanwhile (HostHonoured).
THEOREM HostsAreHonoured == Spec => HostHonoured
<1> DEFINE Chosen(r) ==
      LET q == request[r]
          server == request'[r].server
          having == {i \in DOMAIN Order : q.host \in config[Order[i]].names}
          first == IF having = {} THEN 1 ELSE CHOOSE i \in having : \A j \in having : i <= j
      IN  request'[r].at = "read" /\ q.at # "read" =>
            /\ q.quiet => server = Order[first]
            /\ server # Order[1] => q.host \in config[server].names
<1>1. ASSUME RequestInv, NEW r \in Requests, Next PROVE Chosen(r)
  <2>0. PICK q \in Locals : q = request[r] /\ HostInv(q)
    BY <1>1 DEF RequestInv
  <2> DEFINE having == {i \in DOMAIN Order : q.host \in config[Order[i]].names}
             first == IF having = {} THEN 1 ELSE CHOOSE i \in having : \A j \in having : i <= j
  <2> SUFFICES ASSUME request'[r].at = "read", q.at # "read"
               PROVE  /\ q.quiet => request'[r].server = Order[first]
                      /\ request'[r].server # Order[1] => q.host \in config[request'[r].server].names
    BY <2>0
  <2>1. TryHost(r) \/ TakeDefault(r)
    <3>1. request \in [Requests -> Locals]
      BY <1>1 DEF RequestInv
    <3>2. CASE \E s \in Servers : BeginWrite(s) \/ EndWrite(s)
      <4>1. request'[r].at = request[r].at
        BY <3>1, <3>2 DEF BeginWrite, EndWrite, Locals
      <4> QED
        BY <2>0, <4>1
    <3>3. ASSUME NEW o \in Requests, NEW locals, StepTo(o, locals)
          PROVE  o = r /\ locals.at = "read"
      BY <2>0, <3>1, <3>3 DEF StepTo
    <3>4. ASSUME NEW o \in Requests, SelectRotated(o) PROVE FALSE
      <4>1. request'[r].at = request[r].at
        BY <3>1, <3>4 DEF SelectRotated, Locals
      <4> QED
        BY <2>0, <4>1
    <3>5. ASSUME NEW o \in Requests, NEW host, NEW path, Arrive(o, host, path) PROVE FALSE
      <4>1. PICK new : /\ StepTo(o, new)
                       /\ new = [Blank EXCEPT !.at = IF host = None THEN "default" ELSE "by_host",
                                   !.host = host, !.path = path, !.quiet = writing = {}]
        BY <3>5 DEF Arrive
      <4>2. new.at # "read"
        BY <4>1 DEF Blank
      <4> QED
        BY <3>3, <4>1, <4>2
    <3>6. ASSUME NEW o \in Requests, ReadConfig(o) \/ ChooseRoute(o) \/ SelectSingle(o) \/ Selected(o)
          PROVE  FALSE
      <4>0. PICK p \in Locals : p = request[o]
        BY <3>1
      <4>1. ASSUME ReadConfig(o) PROVE FALSE
        <5>1. PICK copy, new : StepTo(o, new) /\ new = [p EXCEPT !.at = "route", !.copy = copy]
          BY <4>0, <4>1 DEF ReadConfig
        <5>2. new.at = "route"
          BY <5>1 DEF Locals
        <5> QED
          BY <3>3, <5>1, <5>2
      <4>2. ASSUME ChooseRoute(o) PROVE FALSE
        <5>1. PICK at, group, left, new :
                /\ StepTo(o, new) /\ at \in {"done", "candidates"}
                /\ new = [p EXCEPT !.at = at, !.group = group, !.left = left]
          BY <4>0, <4>2 DEF ChooseRoute
        <5>2. new.at = at
          BY <5>1 DEF Locals
        <5> QED
          BY <3>3, <5>1, <5>2
      <4>3. ASSUME SelectSingle(o) PROVE FALSE
        <5>1. PICK left, list, new :
                StepTo(o, new) /\ new = [p EXCEPT !.left = left, !.candidates = list]
          BY <4>0, <4>3 DEF SelectSingle
        <5>2. new.at = "candidates"
          BY <4>0, <4>3, <5>1 DEF Locals, SelectSingle
        <5> QED
          BY <3>3, <5>1, <5>2
      <4>4. ASSUME Selected(o) PROVE FALSE
        <5>1. PICK new : StepTo(o, new) /\ new = [p EXCEPT !.at = "done"]
          BY <4>0, <4>4 DEF Selected
        <5> QED
          BY <3>3, <5>1 DEF Locals
      <4> QED
        BY <3>6, <4>1, <4>2, <4>3, <4>4
    <3>7. ASSUME NEW o \in Requests, TryHost(o) \/ TakeDefault(o) PROVE o = r
      <4>1. \E new : StepTo(o, new)
        BY <3>7 DEF TryHost, TakeDefault
      <4> QED
        BY <3>3, <4>1
    <3> QED
      BY <1>1, <3>2, <3>4, <3>5, <3>6, <3>7 DEF Next
  <2>2. CASE TryHost(r)
    <3>1. PICK n \in 1..Len(Order) : n = q.next /\ q.at = "by_host"
      BY <2>0, <2>2, Constants DEF TryHost, Locals
    <3>2. MatchesHost(q, Order[n]) /\ request'[r].server = Order[n]
      BY <1>1, <2>0, <2>2, <3>1 DEF TryHost, StepTo, RequestInv, Locals
    <3>3. q.host \in config[Order[n]].names /\ n \in having
      BY <3>1, <3>2, Constants DEF MatchesHost
    <3>4. ASSUME q.quiet PROVE n = first
      <4>1. \A i \in 1..(n - 1) : q.host \notin config[Order[i]].names
        BY <2>0, <3>1, <3>4 DEF HostInv
      <4>2. \A i \in having : i \in Nat /\ n <= i
        BY <4>1, <3>1, Constants
      <4> QED
        BY <3>3, <4>2
    <3> QED
      BY <3>2, <3>3, <3>4
  <2>3. CASE TakeDefault(r)
    <3>1. q.at = "default" /\ request'[r].server = Order[1]
      BY <1>1, <2>0, <2>3 DEF TakeDefault, StepTo, RequestInv, Locals
    <3>2. q.quiet => having = {}
      BY <2>0, <3>1 DEF HostInv
    <3> QED
      BY <3>1, <3>2
  <2> QED
    BY <2>1, <2>2, <2>3
<1>2. RequestInv /\ [Next]_vars => [\A r \in Requests : Chosen(r)]_vars
  BY <1>1
<1>3. RequestInv /\ [Next]_vars =>
        [\A r \in Requests :
         LET q == request[r]
             server == request'[r].server
             having == {i \in DOMAIN Order : q.host \in config[Order[i]].names}
             first == IF having = {} THEN 1 ELSE CHOOSE i \in having : \A j \in having : i <= j
         IN  request'[r].at = "read" /\ q.at # "read" =>
               /\ q.quiet => server = Order[first]
               /\ server # Order[1] => q.host \in config[server].names]_vars
  BY <1>2
<1> QED
  BY <1>3, InvariantHolds, PTL DEF Spec, HostHonoured

\* While the configuration stays, the upstreams of a group and a priority are tried
\* first equally often, up to one, whichever requests interleave (RotationIsEven).
\* The cursors must not have wrapped, which takes 2^64 picks of the code.
THEOREM RotationStaysEven ==
    ASSUME MaxPicks < Wrap
    PROVE  Spec => []RotationIsEven
<1>1. Init => EvenInv
  BY EvenInvInit
<1>2. RequestInv /\ CountInv /\ EvenInv /\ [Next]_vars => EvenInv'
  BY EvenInvStep
<1>3. RequestInv /\ CountInv /\ EvenInv => RotationIsEven
  <2> SUFFICES ASSUME RequestInv, CountInv, EvenInv, ~rewritten, NEW s \in Servers,
                      NEW i \in DOMAIN config[s].upstreams, NEW j \in DOMAIN config[s].upstreams,
                      config[s].upstreams[i].group = config[s].upstreams[j].group,
                      config[s].upstreams[i].priority = config[s].upstreams[j].priority
               PROVE  LET ups == config[s].upstreams
                          count == firsts[<<s, ups[i].group, ups[i].priority>>]
                      IN  count[ups[i].id] <= count[ups[j].id] + 1
    BY DEF RotationIsEven
  <2>1. PICK conf, ups : conf = config[s] /\ conf \in Configurations /\ ups = conf.upstreams
    BY DEF RequestInv
  <2>2. PICK g, p : g = ups[i].group /\ p = ups[i].priority
    OBVIOUS
  <2>3. PICK k, class, order, size, counts, c :
          /\ k = <<s, g, p>> /\ class = ClassOf(ups, g, p) /\ order = InOrder(class)
          /\ size = Cardinality(class) /\ counts = firsts[k] /\ c = cursor[k]
    OBVIOUS
  <2>4. g \in Groups /\ p \in Priorities \cap Nat
    <3>1. ups[i] \in Upstream
      BY <2>1, Constants, ElementOfSeq, LenProperties
    <3>2. p \in Priorities
      BY <2>1, <2>2 DEF Priorities
    <3> QED
      BY <2>2, <3>1, <3>2 DEF Upstream
  <2>5. i \in class /\ j \in class
    BY <2>1, <2>2, <2>3 DEF ClassOf
  <2>6. PICK m \in 1..size, n \in 1..size : order[m] = i /\ order[n] = j /\ size \in Nat
    <3>1. class = ClassOf(ups, g, p) /\ order = InOrder(class)
      BY <2>3
    <3>2. Cardinality(class) \in Nat /\ Covers(order, class)
      BY <2>1, <3>1, ClassMembers
    <3> QED
      BY <2>3, <2>5, <3>2 DEF Covers
  <2>7. EvenAt(ups, g, p, counts, c)
    BY <2>1, <2>3, <2>4 DEF EvenInv, Even
  <2>8. PICK base \in Nat : \A l \in 1..size :
          counts[ups[order[l]].id] = IF l <= c % size THEN base + 1 ELSE base
    BY <2>3, <2>6, <2>7 DEF EvenAt
  <2>9. counts[ups[i].id] \in {base, base + 1} /\ counts[ups[j].id] \in {base, base + 1}
    BY <2>6, <2>8
  <2>10. counts[ups[i].id] <= counts[ups[j].id] + 1
    BY <2>9
  <2> QED
    BY <2>1, <2>2, <2>3, <2>10
<1> QED
  BY <1>1, <1>2, <1>3, InvariantHolds, PTL DEF Spec
=============================================================================
