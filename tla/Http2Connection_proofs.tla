----------------------- MODULE Http2Connection_proofs -----------------------
(***************************************************************************)
(* Proofs about Http2Connection, for any streams, fields, sizes and number *)
(* of frames on their way.                                                 *)
(*                                                                         *)
(* First HPACK: the sizes of fields add up, Evict keeps the longest prefix *)
(* that fits, a block is decoded part by part, and what the encoder writes *)
(* decodes to its fields and leaves both tables alike.  Then invariants:   *)
(* TInv (types), StepInv (decoding all that is outstanding ends with the   *)
(* client's table), FileInv (the range of a partial response), SendingInv  *)
(* (what is sent and what remains of a response), FutureInv (reading ahead *)
(* over the wire meets requests only as they were sent, and ends where the *)
(* client is), EndInv and ReachedInv.  Each theorem follows the invariant  *)
(* it needs.  Last, facts for all inputs about paths, tags and frames.     *)
(***************************************************************************)
EXTENDS Http2Connection, HpackStrings_proofs, FiniteSetTheorems, SequenceTheorems, TLAPS

----------------------------------------------------------------------------
(* The size of a list of fields.                                           *)

LEMMA SizeType == ASSUME NEW field \in Field PROVE Size(field) \in Nat \ {0}
<1>1. field.name \in Names \cup Values /\ field.value \in Names \cup Values
  BY DEF Field
<1>2. Octets[field.name] \in Nat /\ Octets[field.value] \in Nat
  BY <1>1, SizesAssumption
<1> QED
  BY <1>2, SizesAssumption DEF Size

\* The equation that defines the sum in SizeOf, and one step of it.
Sum(f, fields) == f = [i \in 0..Len(fields) |-> IF i = 0 THEN 0 ELSE f[i - 1] + Size(fields[i])]

LEMMA SumExists ==
    ASSUME NEW fields \in Seq(Field)
    PROVE  \E f \in [0..Len(fields) -> Nat] : Sum(f, fields)
<1> DEFINE n == Len(fields)
           step == [p \in (1..n) \X Nat |-> p[2] + Size(fields[p[1]])]
<1>1. n \in Nat
  OBVIOUS
<1>2. step \in [(1..n) \X Nat -> Nat]
  <2> SUFFICES ASSUME NEW p \in (1..n) \X Nat PROVE p[2] + Size(fields[p[1]]) \in Nat
    OBVIOUS
  <2>1. p[2] \in Nat /\ fields[p[1]] \in Field
    OBVIOUS
  <2> QED
    BY <2>1, SizeType
<1>3. \A i \in 1..n, k \in Nat : step[<<i, k>>] = k + Size(fields[i])
  OBVIOUS
<1> HIDE DEF n, step
<1>4. PICK f \in [0..n -> Nat] :
        /\ f[0] = 0
        /\ \A i \in 1..n : f[i] = step[<<i, f[i - 1]>>]
  <2>1. PICK f : Iterates(f, n, Nat, 0, step)
    BY <1>1, <1>2, Iteration
  <2> QED
    BY <2>1 DEF Iterates
<1>5. \A i \in 0..n : f[i] = IF i = 0 THEN 0 ELSE f[i - 1] + Size(fields[i])
  <2> SUFFICES ASSUME NEW i \in 0..n, i # 0 PROVE f[i] = f[i - 1] + Size(fields[i])
    BY <1>4
  <2>1. i \in 1..n /\ f[i - 1] \in Nat /\ f[i] = step[<<i, f[i - 1]>>]
    BY <1>1, <1>4
  <2> QED
    BY <2>1, <1>3
<1> DEFINE g == [i \in 0..n |-> IF i = 0 THEN 0 ELSE f[i - 1] + Size(fields[i])]
<1>6. f = g
  BY <1>4, <1>5
<1> HIDE DEF g
<1>7. Sum(f, fields)
  BY <1>6 DEF Sum, n, g
<1> QED
  BY <1>7 DEF n

LEMMA SumUnique ==
    ASSUME NEW fields \in Seq(Field), NEW f, NEW g, Sum(f, fields), Sum(g, fields)
    PROVE  f = g
<1> DEFINE S == {i \in 0..Len(fields) : f[i] = g[i]}
<1>1. 0 \in S
  BY DEF Sum
<1>2. ASSUME NEW i \in 0..Len(fields), i \in S, i < Len(fields)
      PROVE  i + 1 \in S
  <2>1. i + 1 \in 0..Len(fields) /\ i + 1 # 0 /\ (i + 1) - 1 = i
    BY <1>2
  <2>2. f[i + 1] = f[i] + Size(fields[i + 1]) /\ g[i + 1] = g[i] + Size(fields[i + 1])
    BY <2>1 DEF Sum
  <2> QED
    BY <1>2, <2>1, <2>2
<1> HIDE DEF S
<1>3. 0..Len(fields) \subseteq S
  BY <1>1, <1>2, IntervalInduction
<1>4. \A i \in 0..Len(fields) : f[i] = g[i]
  BY <1>3 DEF S
<1> QED
  BY <1>4 DEF Sum

LEMMA SizeOfIsSum ==
    ASSUME NEW fields \in Seq(Field), NEW f, Sum(f, fields)
    PROVE  SizeOf(fields) = f[Len(fields)]
<1> DEFINE g == CHOOSE h : Sum(h, fields)
<1>1. SizeOf(fields) = g[Len(fields)]
  BY DEF SizeOf, Sum
<1>2. Sum(g, fields)
  BY SumExists
<1> HIDE DEF g
<1>3. f = g
  BY <1>2, SumUnique
<1> QED
  BY <1>1, <1>3

\* The sizes of all that a list begins with, by one function.
LEMMA SizesOfPrefixes ==
    ASSUME NEW fields \in Seq(Field)
    PROVE  \E f \in [0..Len(fields) -> Nat] :
             /\ f[0] = 0
             /\ \A k \in 1..Len(fields) : f[k] = f[k - 1] + Size(fields[k])
             /\ \A k \in 0..Len(fields) : SizeOf(SubSeq(fields, 1, k)) = f[k]
<1>1. PICK f \in [0..Len(fields) -> Nat] : Sum(f, fields)
  BY SumExists
<1>2. f[0] = 0 /\ \A k \in 1..Len(fields) : f[k] = f[k - 1] + Size(fields[k])
  BY <1>1 DEF Sum
<1>3. ASSUME NEW k \in 0..Len(fields) PROVE SizeOf(SubSeq(fields, 1, k)) = f[k]
  <2> DEFINE part == SubSeq(fields, 1, k)
             g == [i \in 0..k |-> f[i]]
  <2>1. part \in Seq(Field) /\ Len(part) = k /\ \A i \in 1..k : part[i] = fields[i]
    OBVIOUS
  <2> HIDE DEF part
  <2>2. \A i \in 0..k : g[i] = IF i = 0 THEN 0 ELSE g[i - 1] + Size(part[i])
    BY <1>2, <2>1
  <2>3. Sum(g, part)
    <3> DEFINE h == [i \in 0..k |-> IF i = 0 THEN 0 ELSE g[i - 1] + Size(part[i])]
    <3>1. g = h
      BY <2>2
    <3> HIDE DEF g
    <3> QED
      BY <3>1, <2>1 DEF Sum
  <2>4. SizeOf(part) = g[k]
    BY <2>1, <2>3, SizeOfIsSum
  <2> QED
    BY <2>4 DEF part
<1> QED
  BY <1>2, <1>3

LEMMA SizeOfEmpty == SizeOf(<<>>) = 0
<1>1. <<>> \in Seq(Field) /\ Len(<<>>) = 0
  OBVIOUS
<1>2. PICK f \in [0..0 -> Nat] : Sum(f, <<>>)
  BY <1>1, SumExists
<1>3. SizeOf(<<>>) = f[0]
  BY <1>1, <1>2, SizeOfIsSum
<1> QED
  BY <1>1, <1>2, <1>3 DEF Sum

LEMMA SizeOfType == ASSUME NEW fields \in Seq(Field) PROVE SizeOf(fields) \in Nat
<1>1. PICK f \in [0..Len(fields) -> Nat] : Sum(f, fields)
  BY SumExists
<1> QED
  BY <1>1, SizeOfIsSum

\* What the list begins with is not larger, the shorter the smaller.
LEMMA PrefixesGrow ==
    ASSUME NEW fields \in Seq(Field), NEW j \in 0..Len(fields), NEW k \in j..Len(fields)
    PROVE  SizeOf(SubSeq(fields, 1, j)) <= SizeOf(SubSeq(fields, 1, k))
<1>1. PICK f \in [0..Len(fields) -> Nat] :
         /\ \A i \in 1..Len(fields) : f[i] = f[i - 1] + Size(fields[i])
         /\ \A i \in 0..Len(fields) : SizeOf(SubSeq(fields, 1, i)) = f[i]
  BY SizesOfPrefixes
<1> DEFINE S == {i \in j..Len(fields) : f[j] <= f[i]}
<1>2. j \in S
  OBVIOUS
<1>3. ASSUME NEW i \in j..Len(fields), i \in S, i < Len(fields)
      PROVE  i + 1 \in S
  <2>1. i + 1 \in 1..Len(fields) /\ (i + 1) - 1 = i /\ i + 1 \in j..Len(fields)
    BY <1>3
  <2>2. Size(fields[i + 1]) \in Nat
    BY <2>1, SizeType
  <2>3. f[i + 1] = f[i] + Size(fields[i + 1]) /\ f[i] \in Nat /\ f[j] \in Nat
    BY <1>1, <2>1
  <2> QED
    BY <1>3, <2>1, <2>2, <2>3
<1> HIDE DEF S
<1>4. j..Len(fields) \subseteq S
  <2>1. j \in Nat /\ Len(fields) \in Nat
    OBVIOUS
  <2> QED
    BY <1>2, <1>3, <2>1, IntervalInduction
<1>5. k \in S
  BY <1>4
<1> QED
  BY <1>1, <1>5 DEF S

\* The last field counts what is missing without it.
LEMMA WithoutLast ==
    ASSUME NEW fields \in Seq(Field), fields # <<>>
    PROVE  SizeOf(SubSeq(fields, 1, Len(fields) - 1)) = SizeOf(fields) - Size(fields[Len(fields)])
<1>1. PICK f \in [0..Len(fields) -> Nat] :
         /\ \A i \in 1..Len(fields) : f[i] = f[i - 1] + Size(fields[i])
         /\ \A i \in 0..Len(fields) : SizeOf(SubSeq(fields, 1, i)) = f[i]
  BY SizesOfPrefixes
<1>2. Len(fields) \in 1..Len(fields) /\ Len(fields) - 1 \in 0..Len(fields) /\ Len(fields) \in 0..Len(fields)
  OBVIOUS
<1>3. SubSeq(fields, 1, Len(fields)) = fields
  OBVIOUS
<1>4. PICK n \in Nat : n = Len(fields)
  OBVIOUS
<1>5. PICK all \in Nat, most \in Nat, last \in Nat :
         all = f[n] /\ most = f[n - 1] /\ last = Size(fields[n])
  BY <1>1, <1>2, <1>4, SizeType
<1>6. all = most + last /\ all = SizeOf(fields) /\ most = SizeOf(SubSeq(fields, 1, n - 1))
  BY <1>1, <1>2, <1>3, <1>4, <1>5
<1> QED
  BY <1>4, <1>5, <1>6

LEMMA SizeWithFirst ==
    ASSUME NEW first \in Field, NEW fields \in Seq(Field)
    PROVE  SizeOf(<<first>> \o fields) = Size(first) + SizeOf(fields)
<1> DEFINE n == Len(fields)
           all == <<first>> \o fields
<1>1. all \in Seq(Field) /\ Len(all) = n + 1 /\ n \in Nat
      /\ all[1] = first /\ \A i \in 1..n : all[i + 1] = fields[i]
  OBVIOUS
<1>2. PICK f \in [0..n -> Nat] :
         /\ f[0] = 0
         /\ \A k \in 1..n : f[k] = f[k - 1] + Size(fields[k])
         /\ SizeOf(SubSeq(fields, 1, n)) = f[n]
  BY <1>1, SizesOfPrefixes
<1>3. PICK c \in Nat : c = Size(first)
  BY SizeType
<1> DEFINE g == [k \in 0..(n + 1) |-> IF k = 0 THEN 0 ELSE c + f[k - 1]]
<1>4. SubSeq(fields, 1, n) = fields
  OBVIOUS
<1> HIDE DEF n, all
<1>5. ASSUME NEW k \in 0..(n + 1)
      PROVE  g[k] = IF k = 0 THEN 0 ELSE g[k - 1] + Size(all[k])
  <2>1. CASE k = 0
    BY <2>1
  <2>2. CASE k = 1
    <3>1. g[1] = c + f[0] /\ g[0] = 0
      BY <1>1
    <3> QED
      BY <2>2, <3>1, <1>1, <1>2, <1>3
  <2>3. CASE k > 1
    <3>1. PICK j \in 1..n : k = j + 1
      BY <2>3, <1>1
    <3>2. g[k] = c + f[j] /\ g[k - 1] = c + f[j - 1] /\ all[k] = fields[j]
      <4>1. k # 0 /\ k - 1 = j /\ k - 1 # 0 /\ j \in 0..(n + 1) /\ (k - 1) - 1 = j - 1
        BY <3>1, <1>1
      <4> QED
        BY <3>1, <4>1, <1>1
    <3>3. f[j] = f[j - 1] + Size(fields[j]) /\ f[j - 1] \in Nat /\ fields[j] \in Field
      BY <3>1, <1>1, <1>2 DEF n
    <3>4. Size(fields[j]) \in Nat
      BY <3>3, SizeType
    <3> QED
      BY <2>3, <3>2, <3>3, <3>4
  <2> QED
    BY <2>1, <2>2, <2>3, <1>1
<1>6. Sum(g, all)
  <2> DEFINE h == [k \in 0..(n + 1) |-> IF k = 0 THEN 0 ELSE g[k - 1] + Size(all[k])]
  <2>1. g = h
    BY <1>5
  <2> HIDE DEF g
  <2> QED
    BY <2>1, <1>1 DEF Sum
<1>7. SizeOf(all) = g[n + 1] /\ g[n + 1] = c + f[n]
  BY <1>1, <1>6, SizeOfIsSum
<1> QED
  BY <1>2, <1>3, <1>4, <1>7 DEF n, all

----------------------------------------------------------------------------
(* The longest beginning of a list within a size: what both tables hold.   *)

IsLongest(fields, n, k) ==
    /\ k \in 0..Len(fields)
    /\ SizeOf(SubSeq(fields, 1, k)) <= n
    /\ k < Len(fields) => ~(SizeOf(SubSeq(fields, 1, k + 1)) <= n)

LEMMA LongestIs ==
    ASSUME NEW fields \in Seq(Field), NEW n \in Nat, NEW k, IsLongest(fields, n, k)
    PROVE  LongestFitting(fields, n) = SubSeq(fields, 1, k)
<1> DEFINE fitting == {i \in 0..Len(fields) : SizeOf(SubSeq(fields, 1, i)) <= n}
<1>1. k \in fitting /\ k \in Nat
  BY DEF IsLongest
<1>2. ASSUME NEW i \in fitting PROVE i <= k
  <2> SUFFICES ASSUME k < i PROVE FALSE
    BY <1>1
  <2>1. k + 1 \in 0..Len(fields) /\ i \in (k + 1)..Len(fields)
    BY <1>1
  <2>2. SizeOf(SubSeq(fields, 1, k + 1)) <= SizeOf(SubSeq(fields, 1, i))
    BY <2>1, PrefixesGrow
  <2>3. SubSeq(fields, 1, k + 1) \in Seq(Field) /\ SubSeq(fields, 1, i) \in Seq(Field)
    BY <2>1
  <2>4. PICK small \in Nat, large \in Nat :
          small = SizeOf(SubSeq(fields, 1, k + 1)) /\ large = SizeOf(SubSeq(fields, 1, i))
    BY <2>3, SizeOfType
  <2>5. large <= n /\ small <= large
    BY <2>2, <2>4
  <2>6. ~(small <= n)
    BY <2>1, <2>4 DEF IsLongest
  <2> QED
    BY <2>5, <2>6
<1>3. \A i \in fitting : i \in Nat
  OBVIOUS
<1> HIDE DEF fitting
<1>4. \A j \in fitting : (\A m \in fitting : m <= j) => j = k
  BY <1>1, <1>2, <1>3
<1>5. (CHOOSE j \in fitting : \A m \in fitting : m <= j) = k
  BY <1>1, <1>2, <1>4
<1> QED
  BY <1>5 DEF LongestFitting, fitting

LEMMA LongestExists ==
    ASSUME NEW fields \in Seq(Field), NEW n \in Nat
    PROVE  \E k : IsLongest(fields, n, k)
<1> SUFFICES ASSUME \A k : ~IsLongest(fields, n, k) PROVE FALSE
  OBVIOUS
<1> DEFINE S == {i \in 0..Len(fields) : SizeOf(SubSeq(fields, 1, i)) <= n}
<1>1. 0 \in S
  <2>1. SubSeq(fields, 1, 0) = <<>>
    OBVIOUS
  <2>2. SizeOf(SubSeq(fields, 1, 0)) = 0
    BY <2>1, SizeOfEmpty
  <2> QED
    BY <2>2
<1>2. ASSUME NEW i \in 0..Len(fields), i \in S, i < Len(fields)
      PROVE  i + 1 \in S
  BY <1>2 DEF IsLongest
<1> HIDE DEF S
<1>3. 0..Len(fields) \subseteq S
  BY <1>1, <1>2, IntervalInduction
<1>4. Len(fields) \in S
  BY <1>3
<1> QED
  BY <1>4 DEF S, IsLongest

LEMMA LongestType ==
    ASSUME NEW fields \in Seq(Field), NEW n \in Nat
    PROVE  LongestFitting(fields, n) \in Seq(Field)
<1>1. PICK k : IsLongest(fields, n, k)
  BY LongestExists
<1> QED
  BY <1>1, LongestIs DEF IsLongest

----------------------------------------------------------------------------
(* Eviction.                                                               *)

Tables == [dynamic : Seq(Field), size : Nat, max : Nat]

\* A table that has counted its entries right, and one within its size.
Counted(t) == t \in Tables /\ t.size = SizeOf(t.dynamic)
Fits(t) == Counted(t) /\ t.size <= t.max

\* What is left of a table with its newest k entries.
Cut(t, k) ==
    [dynamic |-> SubSeq(t.dynamic, 1, k), size |-> SizeOf(SubSeq(t.dynamic, 1, k)), max |-> t.max]

LEMMA CutWhole == ASSUME NEW t, Counted(t) PROVE Cut(t, Len(t.dynamic)) = t
<1>1. t.dynamic \in Seq(Field) /\ t = [dynamic |-> t.dynamic, size |-> t.size, max |-> t.max]
  BY DEF Counted, Tables
<1>2. SubSeq(t.dynamic, 1, Len(t.dynamic)) = t.dynamic
  BY <1>1
<1> QED
  BY <1>1, <1>2 DEF Cut, Counted

LEMMA CutType ==
    ASSUME NEW t, Counted(t), NEW k \in 0..Len(t.dynamic)
    PROVE  Counted(Cut(t, k)) /\ Len(Cut(t, k).dynamic) = k
<1>1. t.dynamic \in Seq(Field) /\ t.max \in Nat
  BY DEF Counted, Tables
<1>2. SubSeq(t.dynamic, 1, k) \in Seq(Field) /\ Len(SubSeq(t.dynamic, 1, k)) = k
  BY <1>1
<1>3. SizeOf(SubSeq(t.dynamic, 1, k)) \in Nat
  BY <1>2, SizeOfType
<1> QED
  BY <1>1, <1>2, <1>3 DEF Cut, Counted, Tables

LEMMA EvictedCut ==
    ASSUME NEW t, Counted(t), NEW k \in 0..Len(t.dynamic)
    PROVE  \/ Cut(t, k).size <= t.max /\ Evicted(Cut(t, k)) = Cut(t, k)
           \/ ~(Cut(t, k).size <= t.max) /\ k > 0 /\ Evicted(Cut(t, k)) = Cut(t, k - 1)
<1>1. t.dynamic \in Seq(Field) /\ t.max \in Nat /\ k \in Nat
  BY DEF Counted, Tables
<1> DEFINE part == SubSeq(t.dynamic, 1, k)
<1>2. part \in Seq(Field) /\ Len(part) = k /\ \A i \in 1..k : part[i] = t.dynamic[i]
  BY <1>1
<1>3. Cut(t, k) = [dynamic |-> part, size |-> SizeOf(part), max |-> t.max]
  BY DEF Cut
<1> HIDE DEF part
<1>4. CASE SizeOf(part) <= t.max
  BY <1>3, <1>4 DEF Evicted
<1>5. CASE ~(SizeOf(part) <= t.max)
  <2>1. part # <<>>
    BY <1>1, <1>5, SizeOfEmpty
  <2>2. k > 0 /\ k \in 1..k /\ k - 1 \in 0..Len(t.dynamic)
    BY <1>1, <1>2, <2>1
  <2>3. SizeOf(SubSeq(part, 1, k - 1)) = SizeOf(part) - Size(part[k])
    BY <1>2, <2>1, WithoutLast
  <2>4. SubSeq(part, 1, k - 1) = SubSeq(t.dynamic, 1, k - 1)
    BY <1>1, <2>2 DEF part
  <2>5. part[k] \in Field /\ SubSeq(part, 1, k - 1) \in Seq(Field)
    BY <1>2, <2>2
  <2>6. PICK all \in Nat, last \in Nat, most \in Nat :
          /\ all = SizeOf(part) /\ last = Size(part[k]) /\ most = SizeOf(SubSeq(part, 1, k - 1))
          /\ last # 0
    BY <1>2, <2>5, SizeOfType, SizeType
  <2>7. most = (IF last < all THEN all - last ELSE 0)
    BY <2>3, <2>6
  <2>8. Evicted(Cut(t, k)) =
          [dynamic |-> SubSeq(part, 1, k - 1),
           size |-> IF last < all THEN all - last ELSE 0, max |-> t.max]
    <3> DEFINE c == [dynamic |-> part, size |-> all, max |-> t.max]
    <3>1. Cut(t, k) = c /\ c.dynamic = part /\ c.size = all /\ c.max = t.max
      BY <1>3, <2>6
    <3> HIDE DEF c
    <3>2. ~(c.size <= c.max) /\ c.dynamic # <<>> /\ Len(c.dynamic) = k
          /\ Size(c.dynamic[k]) = last
      BY <1>2, <1>5, <2>1, <2>6, <3>1
    <3>3. Evicted(c) = [dynamic |-> SubSeq(c.dynamic, 1, k - 1),
                        size |-> IF last < c.size THEN c.size - last ELSE 0, max |-> c.max]
      BY <3>2 DEF Evicted
    <3> QED
      BY <3>1, <3>3
  <2>9. Cut(t, k - 1) = [dynamic |-> SubSeq(part, 1, k - 1), size |-> most, max |-> t.max]
    BY <2>4, <2>6 DEF Cut
  <2> QED
    BY <1>3, <1>5, <2>2, <2>7, <2>8, <2>9
<1> QED
  BY <1>4, <1>5

LEMMA OnlyOne == ASSUME NEW e PROVE Only({e}) = e
  BY DEF Only

LEMMA OnlyEvicted == ASSUME NEW x PROVE Only({Evicted(t) : t \in {x}}) = Evicted(x)
<1>1. {Evicted(t) : t \in {x}} = {Evicted(x)}
  OBVIOUS
<1> QED
  BY <1>1, OnlyOne

\* The equation that defines the turns of Evict.
Turns(after, table0) ==
    after = [i \in 0..(Len(table0.dynamic) + 1) |->
               IF i = 0 THEN table0 ELSE Only({Evicted(t) : t \in {after[i - 1]}})]

LEMMA TurnsExist == ASSUME NEW t, Counted(t) PROVE \E f : Turns(f, t)
<1> DEFINE n == Len(t.dynamic) + 1
           D == {Cut(t, k) : k \in 0..Len(t.dynamic)}
           step == [p \in (1..n) \X D |-> Evicted(p[2])]
<1>1. n \in Nat /\ Len(t.dynamic) \in Nat
  BY DEF Counted, Tables
<1>2. t \in D
  BY <1>1, CutWhole
<1>3. step \in [(1..n) \X D -> D]
  <2> SUFFICES ASSUME NEW p \in (1..n) \X D PROVE Evicted(p[2]) \in D
    OBVIOUS
  <2>1. PICK k \in 0..Len(t.dynamic) : p[2] = Cut(t, k)
    OBVIOUS
  <2>2. k > 0 => k - 1 \in 0..Len(t.dynamic)
    BY <1>1
  <2> QED
    BY <2>1, <2>2, EvictedCut
<1>4. \A i \in 1..n, x \in D : step[<<i, x>>] = Evicted(x)
  OBVIOUS
<1> HIDE DEF D, n, step
<1>5. PICK f : Iterates(f, n, D, t, step)
  BY <1>1, <1>2, <1>3, Iteration
<1>6. \A i \in 0..n : f[i] = IF i = 0 THEN t ELSE Only({Evicted(x) : x \in {f[i - 1]}})
  <2> SUFFICES ASSUME NEW i \in 0..n, i # 0
               PROVE  f[i] = Only({Evicted(x) : x \in {f[i - 1]}})
    BY <1>5 DEF Iterates
  <2>1. i \in 1..n /\ f[i - 1] \in D /\ f[i] = step[<<i, f[i - 1]>>]
    BY <1>1, <1>5 DEF Iterates
  <2> QED
    BY <2>1, <1>4, OnlyEvicted
<1> DEFINE g == [i \in 0..n |-> IF i = 0 THEN t ELSE Only({Evicted(x) : x \in {f[i - 1]}})]
<1>7. f = g
  BY <1>5, <1>6 DEF Iterates
<1> HIDE DEF g
<1>8. Turns(f, t)
  BY <1>7 DEF Turns, g, n
<1> QED
  BY <1>8

\* Evict drops the oldest entries until the rest fits, and no more.
LEMMA EvictCuts ==
    ASSUME NEW t, Counted(t)
    PROVE  \E k : IsLongest(t.dynamic, t.max, k) /\ Evict(t) = Cut(t, k)
<1> DEFINE n == Len(t.dynamic)
           after == CHOOSE f : Turns(f, t)
           Until(i) == \E k \in 0..n :
                         /\ after[i] = Cut(t, k)
                         /\ k < n => ~(Cut(t, k + 1).size <= t.max)
                         /\ Cut(t, k).size <= t.max \/ k + i <= n
           S == {i \in 0..(n + 1) : Until(i)}
<1>1. n \in Nat
  BY DEF Counted, Tables
<1>2. Turns(after, t)
  BY TurnsExist
<1>3. Evict(t) = after[n + 1]
  BY DEF Evict, Turns
<1>4. after[0] = t /\ \A i \in 1..(n + 1) : after[i] = Evicted(after[i - 1])
  <2> HIDE DEF after
  <2>1. \A i \in 0..(n + 1) :
          after[i] = IF i = 0 THEN t ELSE Only({Evicted(x) : x \in {after[i - 1]}})
    BY <1>2 DEF Turns
  <2>2. ASSUME NEW i \in 1..(n + 1) PROVE after[i] = Evicted(after[i - 1])
    <3>1. i \in 0..(n + 1) /\ i # 0
      BY <1>1
    <3>2. after[i] = Only({Evicted(x) : x \in {after[i - 1]}})
      BY <2>1, <3>1
    <3> QED
      BY <3>2, OnlyEvicted
  <2>3. after[0] = t
    <3>1. 0 \in 0..(n + 1)
      BY <1>1
    <3> QED
      BY <2>1, <3>1
  <2> QED
    BY <2>2, <2>3
<1> HIDE DEF after, n
<1>5. 0 \in S
  <2>1. after[0] = Cut(t, n)
    BY <1>4, CutWhole DEF n
  <2> QED
    BY <1>1, <2>1
<1>6. ASSUME NEW i \in 0..(n + 1), i \in S, i < n + 1
      PROVE  i + 1 \in S
  <2>1. PICK k \in 0..n :
          /\ after[i] = Cut(t, k)
          /\ k < n => ~(Cut(t, k + 1).size <= t.max)
          /\ Cut(t, k).size <= t.max \/ k + i <= n
    BY <1>6
  <2>2. i + 1 \in 1..(n + 1) /\ (i + 1) - 1 = i
    BY <1>1, <1>6
  <2>3. after[i + 1] = Evicted(Cut(t, k))
    BY <1>4, <2>1, <2>2
  <2>4. CASE Cut(t, k).size <= t.max /\ Evicted(Cut(t, k)) = Cut(t, k)
    <3>1. Until(i + 1)
      BY <2>1, <2>3, <2>4
    <3> QED
      BY <3>1, <2>2
  <2>5. CASE ~(Cut(t, k).size <= t.max) /\ k > 0 /\ Evicted(Cut(t, k)) = Cut(t, k - 1)
    <3>1. k - 1 \in 0..n /\ (k - 1) + 1 = k /\ (k - 1) + (i + 1) <= n
      BY <1>1, <2>1, <2>5, <1>6
    <3>2. Until(i + 1)
      BY <2>3, <2>5, <3>1
    <3> QED
      BY <3>2, <2>2
  <2>6. k \in 0..Len(t.dynamic)
    BY DEF n
  <2> HIDE DEF S, Until
  <2> QED
    BY <2>4, <2>5, <2>6, EvictedCut
<1> HIDE DEF S, Until
<1>7. 0..(n + 1) \subseteq S
  <2>1. 0 \in Nat /\ n + 1 \in Nat
    BY <1>1
  <2> QED
    BY <1>5, <1>6, <2>1, IntervalInduction
<1>8. n + 1 \in S
  BY <1>1, <1>7
<1>9. PICK k \in 0..n :
        /\ after[n + 1] = Cut(t, k)
        /\ k < n => ~(Cut(t, k + 1).size <= t.max)
        /\ Cut(t, k).size <= t.max
  BY <1>1, <1>8 DEF S, Until
<1>10. IsLongest(t.dynamic, t.max, k)
  BY <1>9 DEF IsLongest, Cut, n
<1> QED
  BY <1>3, <1>9, <1>10

----------------------------------------------------------------------------
(* The table of the decoder and that of the encoder.                       *)

FitTables == {t \in [dynamic : Seq(Field), size : Nat, max : 0..TableSize] : Fits(t)}
Encoders == [dynamic : Seq(Field), max : 0..TableSize]

\* Both hold the same, under the same size.
Matches(t, e) == t \in FitTables /\ e \in Encoders /\ t.dynamic = e.dynamic /\ t.max = e.max

LEMMA FitTablesAre ==
    ASSUME NEW t
    PROVE  t \in FitTables <=> Fits(t) /\ t.max \in 0..TableSize
<1>1. TableSize \in Nat
  BY TableAssumption
<1> QED
  BY <1>1 DEF FitTables, Fits, Counted, Tables

LEMMA EvictMatches ==
    ASSUME NEW t, Counted(t), t.max \in 0..TableSize
    PROVE  /\ Evict(t) \in FitTables
           /\ Evict(t).dynamic = LongestFitting(t.dynamic, t.max)
           /\ Evict(t).max = t.max
<1>1. t.dynamic \in Seq(Field) /\ t.max \in Nat
  BY DEF Counted, Tables
<1>2. PICK k : IsLongest(t.dynamic, t.max, k) /\ Evict(t) = Cut(t, k)
  BY EvictCuts
<1>3. LongestFitting(t.dynamic, t.max) = SubSeq(t.dynamic, 1, k)
  BY <1>1, <1>2, LongestIs
<1>4. Counted(Cut(t, k))
  BY <1>2, CutType DEF IsLongest
<1>5. Cut(t, k).size <= Cut(t, k).max /\ Cut(t, k).max = t.max
      /\ Cut(t, k).dynamic = SubSeq(t.dynamic, 1, k)
  BY <1>2 DEF Cut, IsLongest
<1> QED
  BY <1>2, <1>3, <1>4, <1>5, FitTablesAre DEF Fits

LEMMA EmptyTableFits ==
    ASSUME NEW n \in 0..TableSize
    PROVE  /\ EmptyTable(n) \in FitTables
           /\ EmptyTable(n).dynamic = <<>> /\ EmptyTable(n).max = n
<1>1. n \in Nat
  BY TableAssumption
<1>2. <<>> \in Seq(Field)
  OBVIOUS
<1>3. EmptyTable(n).dynamic = <<>> /\ EmptyTable(n).max = n /\ EmptyTable(n).size = 0
      /\ EmptyTable(n) \in Tables
  BY <1>1, <1>2 DEF EmptyTable, Tables
<1>4. SizeOf(EmptyTable(n).dynamic) = 0
  BY <1>3, SizeOfEmpty
<1> QED
  BY <1>1, <1>3, <1>4, FitTablesAre DEF Fits, Counted

LEMMA LongerCounts ==
    ASSUME NEW t \in FitTables, NEW field \in Field
    PROVE  /\ Counted(Longer(t, field)) /\ Longer(t, field).max = t.max
           /\ Longer(t, field).dynamic = <<field>> \o t.dynamic
<1>1. t.dynamic \in Seq(Field) /\ t.max \in Nat /\ t.size = SizeOf(t.dynamic) /\ t.size \in Nat
  BY TableAssumption DEF FitTables, Fits, Counted, Tables
<1>2. PICK first \in Nat : first = Size(field)
  BY SizeType
<1>3. SizeOf(<<field>> \o t.dynamic) = first + SizeOf(t.dynamic)
  BY <1>1, <1>2, SizeWithFirst
<1>4. <<field>> \o t.dynamic \in Seq(Field)
  BY <1>1
<1>5. Longer(t, field) = [dynamic |-> <<field>> \o t.dynamic, size |-> t.size + first, max |-> t.max]
  BY <1>2 DEF Longer
<1> QED
  BY <1>1, <1>2, <1>3, <1>4, <1>5 DEF Counted, Tables

\* A new entry: the oldest leave both tables, or all if it is too large.
LEMMA AddKeeps ==
    ASSUME NEW t \in FitTables, NEW field \in Field
    PROVE  /\ Add(t, field) \in FitTables /\ Add(t, field).max = t.max
           /\ Add(t, field).dynamic = LongestFitting(<<field>> \o t.dynamic, t.max)
<1>1. t.dynamic \in Seq(Field) /\ t.max \in Nat /\ t.max \in 0..TableSize
  BY TableAssumption DEF FitTables, Fits, Counted, Tables
<1>2. CASE Size(field) > t.max
  <2> DEFINE all == <<field>> \o t.dynamic
  <2>1. all \in Seq(Field) /\ Len(all) \in Nat /\ Len(all) >= 1
        /\ SubSeq(all, 1, 0) = <<>>
    BY <1>1
  <2>2. PICK first \in Nat : first = Size(field)
    BY SizeType
  <2>3. <<>> \in Seq(Field)
    OBVIOUS
  <2>4. PICK none : none = <<>> /\ none \in Seq(Field) /\ SizeOf(none) = 0
    BY <2>3, SizeOfEmpty
  <2>5. SizeOf(SubSeq(all, 1, 1)) = first /\ SizeOf(SubSeq(all, 1, 0)) = 0
    <3>1. PICK one : one = <<field>> \o none
      OBVIOUS
    <3>2. SizeOf(one) = first
      <4>1. SizeOf(one) = Size(field) + SizeOf(none)
        BY <2>4, <3>1, SizeWithFirst
      <4> QED
        BY <2>2, <2>4, <4>1
    <3>3. SubSeq(all, 1, 1) = one
      <4>1. one \in Seq(Field) /\ Len(one) = 1 /\ one[1] = field
        BY <2>4, <3>1
      <4>2. all[1] = field
        BY <1>1
      <4> HIDE DEF all
      <4>3. SubSeq(all, 1, 1) \in Seq(Field) /\ Len(SubSeq(all, 1, 1)) = 1 /\ SubSeq(all, 1, 1)[1] = field
        BY <2>1, <4>2
      <4> QED
        BY <4>1, <4>3
    <3>4. SizeOf(SubSeq(all, 1, 0)) = SizeOf(none)
      BY <2>1, <2>4
    <3> QED
      BY <2>4, <3>2, <3>3, <3>4
  <2> HIDE DEF all
  <2>6. IsLongest(all, t.max, 0)
    BY <1>1, <1>2, <2>1, <2>2, <2>5 DEF IsLongest
  <2>7. LongestFitting(all, t.max) = <<>>
    BY <1>1, <2>1, <2>6, LongestIs
  <2> QED
    BY <1>1, <1>2, <2>7, EmptyTableFits DEF Add, all
<1>3. CASE ~(Size(field) > t.max)
  <2>1. Add(t, field) = Evict(Longer(t, field))
    BY <1>3 DEF Add
  <2> QED
    BY <1>1, <2>1, LongerCounts, EvictMatches
<1> QED
  BY <1>2, <1>3

LEMMA UpdateSizeKeeps ==
    ASSUME NEW t \in FitTables, NEW n \in 0..TableSize
    PROVE  /\ UpdateSize(t, n) \in FitTables /\ UpdateSize(t, n).max = n
           /\ UpdateSize(t, n).dynamic = LongestFitting(t.dynamic, n)
<1> DEFINE changed == [t EXCEPT !.max = n]
<1>1. Counted(changed) /\ changed.max = n /\ changed.dynamic = t.dynamic
  BY TableAssumption DEF FitTables, Fits, Counted, Tables
<1> HIDE DEF changed
<1> QED
  BY <1>1, EvictMatches DEF UpdateSize, changed

LEMMA AddMatches ==
    ASSUME NEW t, NEW e, Matches(t, e), NEW field \in Field
    PROVE  Matches(Add(t, field), EncoderAdd(e, field))
<1>1. e.dynamic \in Seq(Field) /\ e.max \in Nat /\ e.max \in 0..TableSize
      /\ <<field>> \o e.dynamic \in Seq(Field)
  BY TableAssumption DEF Matches, Encoders
<1>2. EncoderAdd(e, field) = [dynamic |-> LongestFitting(<<field>> \o e.dynamic, e.max), max |-> e.max]
  BY DEF EncoderAdd, Matches, Encoders
<1>3. LongestFitting(<<field>> \o e.dynamic, e.max) \in Seq(Field)
  BY <1>1, LongestType
<1> QED
  BY <1>1, <1>2, <1>3, AddKeeps DEF Matches, Encoders

LEMMA ResizeMatches ==
    ASSUME NEW t, NEW e, Matches(t, e), NEW n \in 0..TableSize
    PROVE  Matches(UpdateSize(t, n), EncoderResize(e, n))
<1>1. e.dynamic \in Seq(Field) /\ n \in Nat
  BY TableAssumption DEF Matches, Encoders
<1>2. LongestFitting(e.dynamic, n) \in Seq(Field)
  BY <1>1, LongestType
<1> QED
  BY <1>1, <1>2, UpdateSizeKeeps DEF Matches, Encoders, EncoderResize

----------------------------------------------------------------------------
(* Decoding.                                                               *)

Items == Representation(TableSize)

\* A decoding that goes well, and one that has failed.
Good(t, h) == [table |-> t, headers |-> h, ok |-> TRUE]
Bad(t, h) == [table |-> t, headers |-> h, ok |-> FALSE]
Decodings == {Good(t, h) : t \in FitTables, h \in Seq(Field)}
               \cup {Bad(t, h) : t \in FitTables, h \in Seq(Field)}

LEMMA GoodIs == ASSUME NEW t, NEW h
                PROVE  Good(t, h).table = t /\ Good(t, h).headers = h /\ Good(t, h).ok
  BY DEF Good
LEMMA BadIs == ASSUME NEW t, NEW h
               PROVE  Bad(t, h).table = t /\ Bad(t, h).headers = h /\ ~Bad(t, h).ok
  BY DEF Bad

LEMMA DecodingIs ==
    ASSUME NEW d \in Decodings
    PROVE  \E t \in FitTables, h \in Seq(Field) : d = Good(t, h) \/ d = Bad(t, h)
  BY DEF Decodings

LEMMA DecodingType ==
    ASSUME NEW t \in FitTables, NEW h \in Seq(Field)
    PROVE  Good(t, h) \in Decodings /\ Bad(t, h) \in Decodings
  BY DEF Decodings

LEMMA EntryType ==
    ASSUME NEW t \in FitTables, NEW i \in Nat, Known(t, i)
    PROVE  Entry(t, i) \in Field
<1>1. t.dynamic \in Seq(Field)
  BY DEF FitTables
<1>2. i <= Len(StaticTable) => StaticTable[i] \in Field
  BY StaticAssumption DEF Known
<1>3. ~(i <= Len(StaticTable)) => t.dynamic[i - Len(StaticTable)] \in Field
  BY <1>1, StaticAssumption DEF Known
<1> QED
  BY <1>2, <1>3 DEF Entry

\* What an item does, once its field is known.
Noted(t, h, field) == Good(t, Append(h, field))
Added(t, h, field) == Good(Add(t, field), Append(h, field))

\* The field of a literal, with its name from the tables if it has an index.
LiteralField(t, item) ==
    [name |-> IF item.index = 0 THEN item.name ELSE Entry(t, item.index).name,
     value |-> item.value]

LEMMA LiteralFieldType ==
    ASSUME NEW t \in FitTables, NEW item \in Items, item.kind = "literal",
           item.index = 0 \/ Known(t, item.index)
    PROVE  LiteralField(t, item) \in Field
<1>1. item.index \in Nat /\ item.name \in Names /\ item.value \in Values
  BY DEF Items, Representation
<1>2. Known(t, item.index) => Entry(t, item.index).name \in Names
  BY <1>1, EntryType DEF Field
<1> QED
  BY <1>1, <1>2 DEF LiteralField, Field

LEMMA NextNotOk ==
    ASSUME NEW d, ~d.ok, NEW item
    PROVE  DecodeNext(d, item) = d
  BY DEF DecodeNext

LEMMA NextResize ==
    ASSUME NEW t \in FitTables, NEW h \in Seq(Field), NEW item \in Items, item.kind = "resize"
    PROVE  /\ DecodeNext(Good(t, h), item) = Good(UpdateSize(t, item.size), h)
           /\ item.size \in 0..TableSize
<1>1. item.size \in 0..TableSize
  BY DEF Items, Representation
<1>2. Good(t, h) \in [table : FitTables, headers : Seq(Field), ok : BOOLEAN]
  BY DEF Good
<1>3. PICK d \in [table : FitTables, headers : Seq(Field), ok : BOOLEAN] : d = Good(t, h)
  BY <1>2
<1>4. d.ok /\ d.table = t /\ d.headers = h
  BY <1>3, GoodIs
<1>5. DecodeNext(d, item) = [d EXCEPT !.table = UpdateSize(t, item.size)]
  BY <1>4 DEF DecodeNext
<1>6. PICK t2 \in FitTables : t2 = UpdateSize(t, item.size)
  BY <1>1, UpdateSizeKeeps
<1> DEFINE e == [d EXCEPT !.table = t2]
<1>7. e \in [table : FitTables, headers : Seq(Field), ok : BOOLEAN]
      /\ e.table = t2 /\ e.headers = h /\ e.ok
  BY <1>3, <1>4, <1>6
<1> HIDE DEF e
<1>8. e = [table |-> t2, headers |-> h, ok |-> TRUE]
  BY <1>7
<1> QED
  BY <1>1, <1>3, <1>5, <1>6, <1>8 DEF Good, e

LEMMA NextUnknown ==
    ASSUME NEW t \in FitTables, NEW h \in Seq(Field), NEW item \in Items, item.kind # "resize",
           ~Known(t, item.index), ~(item.kind = "literal" /\ item.index = 0)
    PROVE  DecodeNext(Good(t, h), item) = Bad(t, h)
<1>1. Good(t, h) \in [table : FitTables, headers : Seq(Field), ok : BOOLEAN]
  BY DEF Good
<1>2. PICK d \in [table : FitTables, headers : Seq(Field), ok : BOOLEAN] : d = Good(t, h)
  BY <1>1
<1>3. d.ok /\ d.table = t /\ d.headers = h
  BY <1>2, GoodIs
<1>4. DecodeNext(d, item) = [d EXCEPT !.ok = FALSE]
  BY <1>3 DEF DecodeNext
<1> DEFINE e == [d EXCEPT !.ok = FALSE]
<1>5. e \in [table : FitTables, headers : Seq(Field), ok : BOOLEAN]
      /\ e.table = t /\ e.headers = h /\ ~e.ok
  BY <1>2, <1>3
<1> HIDE DEF e
<1>6. e = [table |-> t, headers |-> h, ok |-> FALSE]
  BY <1>5
<1> QED
  BY <1>2, <1>4, <1>6 DEF Bad, e

LEMMA NextIndexed ==
    ASSUME NEW t, NEW h, NEW item \in Items, item.kind = "indexed", Known(t, item.index)
    PROVE  DecodeNext(Good(t, h), item) = Noted(t, h, Entry(t, item.index))
<1>1. PICK d : d = Good(t, h) /\ d.ok /\ d.table = t /\ d.headers = h
  BY GoodIs
<1> QED
  BY <1>1 DEF DecodeNext, Noted, Good

LEMMA NextLiteral ==
    ASSUME NEW t, NEW h, NEW item \in Items, item.kind = "literal",
           item.index = 0 \/ Known(t, item.index)
    PROVE  IF item.add
           THEN DecodeNext(Good(t, h), item) = Added(t, h, LiteralField(t, item))
           ELSE DecodeNext(Good(t, h), item) = Noted(t, h, LiteralField(t, item))
<1>1. PICK d : d = Good(t, h) /\ d.ok /\ d.table = t /\ d.headers = h
  BY GoodIs
<1>2. PICK field : field = LiteralField(t, item)
  OBVIOUS
<1>3. DecodeNext(d, item) = [table |-> IF item.add THEN Add(t, field) ELSE t,
                             headers |-> Append(h, field), ok |-> TRUE]
  <2>1. CASE item.index = 0
    <3>1. field = [name |-> item.name, value |-> item.value]
      BY <1>2, <2>1 DEF LiteralField
    <3> QED
      BY <1>1, <2>1, <3>1 DEF DecodeNext
  <2>2. CASE item.index # 0
    <3>1. field = [name |-> Entry(t, item.index).name, value |-> item.value]
      BY <1>2, <2>2 DEF LiteralField
    <3> QED
      BY <1>1, <2>2, <3>1 DEF DecodeNext
  <2> QED
    BY <2>1, <2>2
<1> QED
  BY <1>1, <1>2, <1>3 DEF Added, Noted, Good

\* Every way that an item can go.
LEMMA ItemCases ==
    ASSUME NEW t, NEW item \in Items
    PROVE  \/ item.kind = "resize"
           \/ item.kind = "indexed" /\ Known(t, item.index) /\ item.index \in Nat
           \/ item.kind = "literal" /\ (item.index = 0 \/ Known(t, item.index))
           \/ item.kind # "resize" /\ ~Known(t, item.index)
              /\ ~(item.kind = "literal" /\ item.index = 0)
  BY DEF Items, Representation

LEMMA NextType ==
    ASSUME NEW d \in Decodings, NEW item \in Items
    PROVE  DecodeNext(d, item) \in Decodings
<1>1. PICK t \in FitTables, h \in Seq(Field) : d = Good(t, h) \/ d = Bad(t, h)
  BY DecodingIs
<1>2. CASE d = Bad(t, h)
  BY <1>2, NextNotOk, BadIs
<1>3. CASE d = Good(t, h)
  <2>1. CASE item.kind = "resize"
    BY <1>3, <2>1, NextResize, UpdateSizeKeeps, DecodingType
  <2>2. CASE item.kind = "indexed" /\ Known(t, item.index) /\ item.index \in Nat
    <3>1. Append(h, Entry(t, item.index)) \in Seq(Field)
      BY <2>2, EntryType
    <3> QED
      BY <1>3, <2>2, <3>1, NextIndexed, DecodingType DEF Noted
  <2>3. CASE item.kind = "literal" /\ (item.index = 0 \/ Known(t, item.index))
    <3>1. PICK field \in Field : field = LiteralField(t, item)
      BY <2>3, LiteralFieldType
    <3>2. Append(h, field) \in Seq(Field) /\ Add(t, field) \in FitTables
      BY AppendProperties, AddKeeps
    <3>3. DecodeNext(d, item) = Added(t, h, field) \/ DecodeNext(d, item) = Noted(t, h, field)
      BY <1>3, <2>3, <3>1, NextLiteral
    <3> QED
      BY <3>2, <3>3, DecodingType DEF Noted, Added
  <2>4. CASE item.kind # "resize" /\ ~Known(t, item.index)
             /\ ~(item.kind = "literal" /\ item.index = 0)
    BY <1>3, <2>4, NextUnknown, DecodingType
  <2> QED
    BY <2>1, <2>2, <2>3, <2>4, ItemCases
<1> QED
  BY <1>1, <1>2, <1>3

\* Headers that are there already change nothing.
IsBehind(p, d, b) ==
    \E t \in FitTables, h \in Seq(Field) :
      \/ d = Good(t, h) /\ b = Good(t, p \o h)
      \/ d = Bad(t, h) /\ b = Bad(t, p \o h)

LEMMA NextBehind ==
    ASSUME NEW p \in Seq(Field), NEW d, NEW b, IsBehind(p, d, b), NEW item \in Items
    PROVE  IsBehind(p, DecodeNext(d, item), DecodeNext(b, item))
<1>1. PICK t \in FitTables, h \in Seq(Field) :
        \/ d = Good(t, h) /\ b = Good(t, p \o h)
        \/ d = Bad(t, h) /\ b = Bad(t, p \o h)
  BY DEF IsBehind
<1>2. CASE d = Bad(t, h) /\ b = Bad(t, p \o h)
  <2>1. DecodeNext(d, item) = d /\ DecodeNext(b, item) = b
    BY <1>2, NextNotOk, BadIs
  <2> QED
    BY <2>1
<1>3. CASE d = Good(t, h) /\ b = Good(t, p \o h)
  <2>0. PICK q \in Seq(Field) : q = p \o h
    BY ConcatProperties
  <2>1. CASE item.kind = "resize"
    BY <1>3, <2>0, <2>1, NextResize, UpdateSizeKeeps DEF IsBehind
  <2>2. ASSUME NEW field \in Field
        PROVE  Append(q, field) = p \o Append(h, field) /\ Append(h, field) \in Seq(Field)
    BY <1>1, <2>0
  <2>3. CASE item.kind = "indexed" /\ Known(t, item.index) /\ item.index \in Nat
    <3>1. PICK field \in Field : field = Entry(t, item.index)
      BY <2>3, EntryType
    <3>2. DecodeNext(d, item) = Good(t, Append(h, field))
          /\ DecodeNext(b, item) = Good(t, Append(q, field))
      BY <1>3, <2>0, <2>3, <3>1, NextIndexed DEF Noted
    <3> QED
      BY <2>2, <3>2 DEF IsBehind
  <2>4. CASE item.kind = "literal" /\ (item.index = 0 \/ Known(t, item.index))
    <3>1. PICK field \in Field : field = LiteralField(t, item)
      BY <2>4, LiteralFieldType
    <3>2. PICK t2 \in FitTables :
            /\ DecodeNext(d, item) = Good(t2, Append(h, field))
            /\ DecodeNext(b, item) = Good(t2, Append(q, field))
      <4>1. CASE item.add
        <5>1. Add(t, field) \in FitTables
          BY AddKeeps
        <5> QED
          BY <1>3, <2>0, <2>4, <3>1, <4>1, <5>1, NextLiteral DEF Added
      <4>2. CASE ~item.add
        BY <1>3, <2>0, <2>4, <3>1, <4>2, NextLiteral DEF Noted
      <4> QED
        BY <4>1, <4>2
    <3> QED
      BY <2>2, <3>2 DEF IsBehind
  <2>5. CASE item.kind # "resize" /\ ~Known(t, item.index)
             /\ ~(item.kind = "literal" /\ item.index = 0)
    BY <1>3, <2>0, <2>5, NextUnknown DEF IsBehind
  <2> QED
    BY <2>1, <2>3, <2>4, <2>5, ItemCases
<1> QED
  BY <1>1, <1>2, <1>3

LEMMA OnlyNext ==
    ASSUME NEW x, NEW item PROVE Only({DecodeNext(d, item) : d \in {x}}) = DecodeNext(x, item)
<1>1. {DecodeNext(d, item) : d \in {x}} = {DecodeNext(x, item)}
  OBVIOUS
<1> QED
  BY <1>1, OnlyOne

\* The decodings of what a block begins with.
Decodes(f, t, block) ==
    /\ f \in [0..Len(block) -> Decodings]
    /\ f[0] = Good(t, <<>>)
    /\ \A i \in 1..Len(block) : f[i] = DecodeNext(f[i - 1], block[i])

\* The equation that defines them in Decode.
Equation(f, t, block) ==
    f = [i \in 0..Len(block) |->
           IF i = 0 THEN [table |-> t, headers |-> <<>>, ok |-> TRUE]
           ELSE Only({DecodeNext(d, block[i]) : d \in {f[i - 1]}})]

LEMMA DecodesExists ==
    ASSUME NEW t \in FitTables, NEW block \in Seq(Items)
    PROVE  \E f : Decodes(f, t, block)
<1> DEFINE n == Len(block)
           step == [p \in (1..n) \X Decodings |-> DecodeNext(p[2], block[p[1]])]
<1>1. n \in Nat /\ \A i \in 1..n : block[i] \in Items
  OBVIOUS
<1>2. Good(t, <<>>) \in Decodings
  <2>1. <<>> \in Seq(Field)
    BY EmptySeq
  <2> QED
    BY <2>1, DecodingType
<1>3. step \in [(1..n) \X Decodings -> Decodings]
  <2> SUFFICES ASSUME NEW p \in (1..n) \X Decodings
               PROVE  DecodeNext(p[2], block[p[1]]) \in Decodings
    OBVIOUS
  <2>1. p[2] \in Decodings /\ block[p[1]] \in Items
    BY <1>1
  <2> QED
    BY <2>1, NextType
<1>4. \A i \in 1..n, d \in Decodings : step[<<i, d>>] = DecodeNext(d, block[i])
  OBVIOUS
<1> HIDE DEF n, step
<1>5. PICK f : Iterates(f, n, Decodings, Good(t, <<>>), step)
  BY <1>1, <1>2, <1>3, Iteration
<1>6. ASSUME NEW i \in 1..n PROVE f[i] = DecodeNext(f[i - 1], block[i])
  <2>1. f[i - 1] \in Decodings /\ f[i] = step[<<i, f[i - 1]>>]
    BY <1>1, <1>5 DEF Iterates
  <2> QED
    BY <2>1, <1>4
<1>7. Decodes(f, t, block)
  BY <1>5, <1>6 DEF Decodes, Iterates, n
<1> QED
  BY <1>7

LEMMA DecodesEquation ==
    ASSUME NEW t, NEW block \in Seq(Items), NEW f, Decodes(f, t, block)
    PROVE  Equation(f, t, block)
<1> DEFINE n == Len(block)
           g == [i \in 0..n |-> IF i = 0 THEN [table |-> t, headers |-> <<>>, ok |-> TRUE]
                                ELSE Only({DecodeNext(d, block[i]) : d \in {f[i - 1]}})]
<1>1. n \in Nat
  OBVIOUS
<1>2. Good(t, <<>>) = [table |-> t, headers |-> <<>>, ok |-> TRUE]
  BY DEF Good
<1> HIDE DEF n
<1>3. \A i \in 0..n : f[i] = g[i]
  <2> SUFFICES ASSUME NEW i \in 0..n PROVE f[i] = g[i]
    OBVIOUS
  <2>1. CASE i = 0
    BY <1>1, <1>2, <2>1 DEF Decodes
  <2>2. CASE i # 0
    <3>1. i \in 1..n
      BY <1>1, <2>2
    <3>2. g[i] = Only({DecodeNext(d, block[i]) : d \in {f[i - 1]}})
      BY <2>2
    <3> HIDE DEF g
    <3> QED
      BY <3>1, <3>2, OnlyNext DEF Decodes, n
  <2> QED
    BY <2>1, <2>2
<1>4. f = g
  BY <1>3 DEF Decodes, n
<1> QED
  BY <1>4 DEF Equation, n

LEMMA EquationUnique ==
    ASSUME NEW t, NEW block \in Seq(Items), NEW f, Decodes(f, t, block), NEW g, Equation(g, t, block)
    PROVE  g[Len(block)] = f[Len(block)]
<1> DEFINE n == Len(block)
           S == {i \in 0..n : f[i] = g[i]}
<1>1. n \in Nat
  OBVIOUS
<1>2. \A i \in 0..n : g[i] = IF i = 0 THEN [table |-> t, headers |-> <<>>, ok |-> TRUE]
                             ELSE Only({DecodeNext(d, block[i]) : d \in {g[i - 1]}})
  BY DEF Equation
<1> HIDE DEF n
<1>3. 0 \in S
  <2>0. 0 \in 0..n
    BY <1>1
  <2>1. g[0] = Good(t, <<>>)
    BY <1>2, <2>0 DEF Good
  <2> QED
    BY <1>1, <2>1 DEF Decodes
<1>4. ASSUME NEW i \in 0..n, i \in S, i < n PROVE i + 1 \in S
  <2>1. i + 1 \in 1..n /\ i + 1 \in 0..n /\ i + 1 # 0 /\ (i + 1) - 1 = i
    BY <1>1, <1>4
  <2>2. g[i + 1] = Only({DecodeNext(d, block[i + 1]) : d \in {g[i]}})
    BY <1>2, <2>1
  <2>3. f[i + 1] = DecodeNext(f[i], block[i + 1])
    BY <2>1 DEF Decodes, n
  <2>4. g[i + 1] = DecodeNext(g[i], block[i + 1])
    BY <2>2, OnlyNext
  <2> QED
    BY <1>4, <2>1, <2>3, <2>4
<1> HIDE DEF S
<1>5. 0..n \subseteq S
  BY <1>1, <1>3, <1>4, IntervalInduction
<1>6. n \in S
  BY <1>1, <1>5
<1> QED
  BY <1>6 DEF S, n

LEMMA DecodeIs ==
    ASSUME NEW t, NEW block \in Seq(Items), NEW f, Decodes(f, t, block)
    PROVE  Decode(t, block) = f[Len(block)]
<1> DEFINE g == CHOOSE h : Equation(h, t, block)
<1>1. Decode(t, block) = g[Len(block)]
  BY DEF Decode, Equation
<1>2. Equation(g, t, block)
  BY DecodesEquation
<1> HIDE DEF g
<1> QED
  BY <1>1, <1>2, EquationUnique

LEMMA DecodePrefixes ==
    ASSUME NEW t, NEW block \in Seq(Items), NEW f, Decodes(f, t, block), NEW k \in 0..Len(block)
    PROVE  Decode(t, SubSeq(block, 1, k)) = f[k]
<1> DEFINE part == SubSeq(block, 1, k)
           g == [i \in 0..k |-> f[i]]
<1>1. part \in Seq(Items) /\ Len(part) = k /\ k \in Nat /\ \A i \in 1..k : part[i] = block[i]
  OBVIOUS
<1>2. \A i \in 1..k : i \in 1..Len(block) /\ g[i] = f[i] /\ g[i - 1] = f[i - 1]
  BY <1>1
<1>3. g \in [0..k -> Decodings] /\ g[0] = f[0] /\ g[k] = f[k]
  BY <1>1 DEF Decodes
<1> HIDE DEF part, g
<1>4. Decodes(g, t, part)
  BY <1>1, <1>2, <1>3 DEF Decodes
<1>5. Decode(t, part) = g[k]
  BY <1>1, <1>4, DecodeIs
<1> QED
  BY <1>3, <1>5 DEF part

LEMMA DecodeType ==
    ASSUME NEW t \in FitTables, NEW block \in Seq(Items)
    PROVE  Decode(t, block) \in Decodings
<1>1. PICK f : Decodes(f, t, block)
  BY DecodesExists
<1> QED
  BY <1>1, DecodeIs DEF Decodes

LEMMA DecodeEmpty ==
    ASSUME NEW t \in FitTables
    PROVE  Decode(t, <<>>) = Good(t, <<>>)
<1>1. PICK none : none \in Seq(Items) /\ none = <<>> /\ Len(none) = 0
  BY EmptySeq
<1>2. PICK f : Decodes(f, t, none)
  BY <1>1, DecodesExists
<1>3. Decode(t, none) = f[0] /\ f[0] = Good(t, <<>>)
  BY <1>1, <1>2, DecodeIs DEF Decodes
<1> QED
  BY <1>1, <1>3

LEMMA DecodeAppend ==
    ASSUME NEW t \in FitTables, NEW block \in Seq(Items), NEW item \in Items
    PROVE  Decode(t, Append(block, item)) = DecodeNext(Decode(t, block), item)
<1> DEFINE all == Append(block, item)
           n == Len(block)
<1>1. all \in Seq(Items) /\ n \in Nat
  BY AppendProperties
<1>2. Len(all) = n + 1 /\ all[n + 1] = item /\ SubSeq(all, 1, n) = block
  BY AppendProperties
<1> HIDE DEF all, n
<1>3. PICK f : Decodes(f, t, all)
  BY <1>1, DecodesExists
<1>4. Decode(t, all) = f[n + 1] /\ Decode(t, block) = f[n]
  <2>1. n \in 0..Len(all)
    BY <1>1, <1>2
  <2>2. Decode(t, SubSeq(all, 1, n)) = f[n]
    BY <1>1, <1>3, <2>1, DecodePrefixes
  <2>3. Decode(t, all) = f[n + 1]
    BY <1>1, <1>2, <1>3, DecodeIs
  <2> QED
    BY <1>2, <2>2, <2>3
<1>5. n + 1 \in 1..Len(all) /\ (n + 1) - 1 = n
  BY <1>1, <1>2
<1>6. f[n + 1] = DecodeNext(f[n], item)
  BY <1>2, <1>3, <1>5 DEF Decodes
<1> QED
  BY <1>4, <1>6 DEF all

LEMMA OneMore ==
    ASSUME NEW S, NEW b \in Seq(S), NEW c \in Seq(S), NEW k \in 0..Len(c), k < Len(c)
    PROVE  /\ b \o SubSeq(c, 1, k + 1) = Append(b \o SubSeq(c, 1, k), c[k + 1])
           /\ SubSeq(c, 1, k + 1) = Append(SubSeq(c, 1, k), c[k + 1])
           /\ SubSeq(c, 1, k) \in Seq(S) /\ b \o SubSeq(c, 1, k) \in Seq(S) /\ c[k + 1] \in S
<1>1. SubSeq(c, 1, k + 1) = Append(SubSeq(c, 1, k), c[k + 1])
  OBVIOUS
<1>2. PICK part \in Seq(S) : part = SubSeq(c, 1, k)
  <2>1. 1 \in Int /\ k \in Int /\ \A i \in 1..k : c[i] \in S
    OBVIOUS
  <2>2. SubSeq(c, 1, k) \in Seq(S)
    BY <2>1, SubSeqProperties
  <2> QED
    BY <2>2
<1>3. PICK e \in S : e = c[k + 1]
  OBVIOUS
<1>4. b \o Append(part, e) = Append(b \o part, e) /\ b \o part \in Seq(S)
  OBVIOUS
<1> QED
  BY <1>1, <1>2, <1>3, <1>4

LEMMA ConcatEnds ==
    ASSUME NEW S, NEW b \in Seq(S), NEW c \in Seq(S)
    PROVE  /\ b \o SubSeq(c, 1, 0) = b /\ SubSeq(c, 1, 0) = <<>>
           /\ SubSeq(c, 1, Len(c)) = c /\ b \o SubSeq(c, 1, Len(c)) = b \o c
<1>1. SubSeq(c, 1, 0) = <<>> /\ SubSeq(c, 1, Len(c)) = c
  OBVIOUS
<1>2. b \o <<>> = b
  OBVIOUS
<1> QED
  BY <1>1, <1>2

\* A block after another: it begins with the table that the other has left.
LEMMA DecodeConcat ==
    ASSUME NEW t \in FitTables, NEW b \in Seq(Items), NEW c \in Seq(Items),
           NEW t2 \in FitTables, NEW h \in Seq(Field), Decode(t, b) = Good(t2, h)
    PROVE  IsBehind(h, Decode(t2, c), Decode(t, b \o c))
<1> DEFINE n == Len(c)
           Behind(k) == IsBehind(h, Decode(t2, SubSeq(c, 1, k)), Decode(t, b \o SubSeq(c, 1, k)))
           S == {k \in 0..n : Behind(k)}
<1>1. n \in Nat
  OBVIOUS
<1>2. 0 \in S
  <2>1. PICK none \in Seq(Field) : none = <<>> /\ h \o none = h
    BY EmptySeq, ConcatEmptySeq
  <2>2. Decode(t2, SubSeq(c, 1, 0)) = Good(t2, none)
    BY <2>1, ConcatEnds, DecodeEmpty
  <2>3. Decode(t, b \o SubSeq(c, 1, 0)) = Good(t2, h \o none)
    BY <2>1, ConcatEnds
  <2>4. Behind(0)
    BY <2>1, <2>2, <2>3 DEF IsBehind
  <2> QED
    BY <1>1, <2>4
<1>3. ASSUME NEW k \in 0..n, k \in S, k < n PROVE k + 1 \in S
  <2>0. /\ b \o SubSeq(c, 1, k + 1) = Append(b \o SubSeq(c, 1, k), c[k + 1])
        /\ SubSeq(c, 1, k + 1) = Append(SubSeq(c, 1, k), c[k + 1])
        /\ SubSeq(c, 1, k) \in Seq(Items) /\ b \o SubSeq(c, 1, k) \in Seq(Items)
        /\ c[k + 1] \in Items
    BY <1>3, OneMore
  <2>1. PICK part \in Seq(Items), both \in Seq(Items), item \in Items :
          /\ part = SubSeq(c, 1, k) /\ both = b \o SubSeq(c, 1, k) /\ item = c[k + 1]
          /\ SubSeq(c, 1, k + 1) = Append(part, item)
          /\ b \o SubSeq(c, 1, k + 1) = Append(both, item)
    BY <2>0
  <2>2. IsBehind(h, Decode(t2, part), Decode(t, both))
    BY <1>3, <2>1
  <2>3. IsBehind(h, DecodeNext(Decode(t2, part), item), DecodeNext(Decode(t, both), item))
    BY <2>2, NextBehind
  <2>4. Decode(t2, Append(part, item)) = DecodeNext(Decode(t2, part), item)
        /\ Decode(t, Append(both, item)) = DecodeNext(Decode(t, both), item)
    BY DecodeAppend
  <2>5. Behind(k + 1)
    BY <2>1, <2>3, <2>4
  <2>6. k + 1 \in 0..n
    BY <1>1, <1>3
  <2> HIDE DEF Behind, n
  <2> QED
    BY <2>5, <2>6
<1> HIDE DEF S
<1>4. 0..n \subseteq S
  BY <1>1, <1>2, <1>3, IntervalInduction
<1>5. n \in S
  BY <1>1, <1>4
<1>6. Behind(n)
  BY <1>5 DEF S
<1> QED
  BY <1>6, ConcatEnds

\* What follows an error is not read.
LEMMA DecodeConcatBad ==
    ASSUME NEW t \in FitTables, NEW b \in Seq(Items), NEW c \in Seq(Items), ~Decode(t, b).ok
    PROVE  Decode(t, b \o c) = Decode(t, b)
<1> DEFINE n == Len(c)
           S == {k \in 0..n : Decode(t, b \o SubSeq(c, 1, k)) = Decode(t, b)}
<1>1. n \in Nat
  OBVIOUS
<1>2. 0 \in S
  <2>1. b \o SubSeq(c, 1, 0) = b
    BY ConcatEnds
  <2>2. Decode(t, b \o SubSeq(c, 1, 0)) = Decode(t, b)
    BY <2>1
  <2> QED
    BY <1>1, <2>2
<1>3. ASSUME NEW k \in 0..n, k \in S, k < n PROVE k + 1 \in S
  <2>0. /\ b \o SubSeq(c, 1, k + 1) = Append(b \o SubSeq(c, 1, k), c[k + 1])
        /\ SubSeq(c, 1, k + 1) = Append(SubSeq(c, 1, k), c[k + 1])
        /\ SubSeq(c, 1, k) \in Seq(Items) /\ b \o SubSeq(c, 1, k) \in Seq(Items)
        /\ c[k + 1] \in Items
    BY <1>3, OneMore
  <2>1. PICK both \in Seq(Items), item \in Items :
          /\ both = b \o SubSeq(c, 1, k) /\ item = c[k + 1]
          /\ b \o SubSeq(c, 1, k + 1) = Append(both, item)
    BY <2>0
  <2>2. Decode(t, both) = Decode(t, b)
    BY <1>3, <2>1
  <2>3. Decode(t, Append(both, item)) = DecodeNext(Decode(t, both), item)
    BY DecodeAppend
  <2>4. DecodeNext(Decode(t, both), item) = Decode(t, b)
    BY <2>2, NextNotOk
  <2>5. k + 1 \in 0..n
    BY <1>1, <1>3
  <2> QED
    BY <2>1, <2>3, <2>4, <2>5
<1> HIDE DEF S
<1>4. 0..n \subseteq S
  BY <1>1, <1>2, <1>3, IntervalInduction
<1>5. n \in S
  BY <1>1, <1>4
<1> QED
  BY <1>5, ConcatEnds DEF S

----------------------------------------------------------------------------
(* Encoding, and decoding again.                                           *)

LEMMA SameEntries ==
    ASSUME NEW t, NEW e, Matches(t, e), NEW i
    PROVE  LET all == StaticTable \o e.dynamic
           IN  i \in DOMAIN all => /\ i \in Nat \ {0} /\ Known(t, i) /\ Entry(t, i) = all[i]
                                   /\ all[i] \in Field
<1>1. PICK s \in Seq(Field) : s = e.dynamic /\ t.dynamic = s
  BY DEF Matches, Encoders
<1> DEFINE all == StaticTable \o s
<1>2. StaticTable \in Seq(Field)
  BY StaticAssumption
<1>3. all \in Seq(Field) /\ Len(all) = Len(StaticTable) + Len(s)
  BY <1>2
<1>4. ASSUME i \in DOMAIN all
      PROVE  /\ i \in Nat \ {0} /\ Known(t, i) /\ Entry(t, i) = all[i]
             /\ all[i] \in Field
  <2>1. i \in 1..(Len(StaticTable) + Len(s))
    BY <1>3, <1>4
  <2>2. CASE i <= Len(StaticTable)
    BY <1>1, <1>2, <2>1, <2>2 DEF Known, Entry
  <2>3. CASE ~(i <= Len(StaticTable))
    BY <1>1, <1>2, <2>1, <2>3 DEF Known, Entry
  <2> QED
    BY <2>2, <2>3
<1> QED
  BY <1>1, <1>4

\* A field that is written is read, and the tables go on alike.
LEMMA WrittenIsRead ==
    ASSUME NEW t, NEW e, Matches(t, e), NEW h \in Seq(Field), NEW field \in Field,
           NEW x \in Encodings(e, field)
    PROVE  /\ x.item \in Items
           /\ \E t2 : /\ Matches(t2, x.encoder)
                      /\ DecodeNext(Good(t, h), x.item) = Good(t2, Append(h, field))
<1> DEFINE all == StaticTable \o e.dynamic
           named == {0} \cup {i \in DOMAIN all : all[i].name = field.name}
<1>0. t \in FitTables /\ e \in Encoders
  BY DEF Matches
<1>1. \/ \E i \in {j \in DOMAIN all : all[j] = field} : x = [item |-> Indexed(i), encoder |-> e]
      \/ \E i \in named : x = [item |-> Literal(i, field, FALSE), encoder |-> e]
      \/ \E i \in named : x = [item |-> Literal(i, field, TRUE), encoder |-> EncoderAdd(e, field)]
  BY DEF Encodings
<1>2. ASSUME NEW i \in DOMAIN all
      PROVE  i \in Nat \ {0} /\ Known(t, i) /\ Entry(t, i) = all[i] /\ all[i] \in Field
  BY SameEntries
<1> HIDE DEF all
<1>3. CASE \E i \in {j \in DOMAIN all : all[j] = field} : x = [item |-> Indexed(i), encoder |-> e]
  <2>1. PICK i \in DOMAIN all : all[i] = field /\ x.item = Indexed(i) /\ x.encoder = e
    BY <1>3
  <2>2. x.item \in Items /\ x.item.kind = "indexed" /\ x.item.index = i
    BY <1>2, <2>1 DEF Indexed, Items, Representation
  <2>3. DecodeNext(Good(t, h), x.item) = Noted(t, h, field)
    BY <1>2, <2>1, <2>2, NextIndexed
  <2> QED
    BY <2>1, <2>2, <2>3 DEF Noted
<1>4. ASSUME NEW i \in named, NEW add \in BOOLEAN, NEW item, item = Literal(i, field, add)
      PROVE  /\ item \in Items
             /\ IF add THEN DecodeNext(Good(t, h), item) = Added(t, h, field)
                ELSE DecodeNext(Good(t, h), item) = Noted(t, h, field)
  <2>1. i \in Nat /\ (i # 0 => i \in DOMAIN all /\ all[i].name = field.name)
    BY <1>2
  <2>2. item \in Items /\ item.kind = "literal" /\ item.index = i /\ item.value = field.value
        /\ item.name = field.name /\ item.add = add
    BY <1>4, <2>1 DEF Literal, Items, Representation, Field
  <2>3. item.index = 0 \/ Known(t, item.index)
    BY <1>2, <2>1, <2>2
  <2>4. i # 0 => Entry(t, i).name = field.name
    BY <1>2, <2>1
  <2>5. field = [name |-> field.name, value |-> field.value]
    BY DEF Field
  <2>6. LiteralField(t, item) = field
    BY <2>2, <2>4, <2>5 DEF LiteralField
  <2>7. IF item.add THEN DecodeNext(Good(t, h), item) = Added(t, h, field)
        ELSE DecodeNext(Good(t, h), item) = Noted(t, h, field)
    BY <2>2, <2>3, <2>6, NextLiteral
  <2> QED
    BY <2>2, <2>7
<1>5. CASE \E i \in named : x = [item |-> Literal(i, field, FALSE), encoder |-> e]
  <2> HIDE DEF named
  <2>0. PICK i \in named : x = [item |-> Literal(i, field, FALSE), encoder |-> e]
    BY <1>5
  <2>1. x.item = Literal(i, field, FALSE) /\ x.encoder = e
    BY <2>0
  <2>2. x.item \in Items /\ DecodeNext(Good(t, h), x.item) = Noted(t, h, field)
    BY <1>4, <2>1
  <2> QED
    BY <2>1, <2>2 DEF Noted
<1>6. CASE \E i \in named : x = [item |-> Literal(i, field, TRUE), encoder |-> EncoderAdd(e, field)]
  <2> HIDE DEF named
  <2>0. PICK i \in named : x = [item |-> Literal(i, field, TRUE), encoder |-> EncoderAdd(e, field)]
    BY <1>6
  <2>1. x.item = Literal(i, field, TRUE) /\ x.encoder = EncoderAdd(e, field)
    BY <2>0
  <2>2. x.item \in Items /\ DecodeNext(Good(t, h), x.item) = Added(t, h, field)
    BY <1>4, <2>1
  <2> QED
    BY <2>1, <2>2, AddMatches DEF Added
<1> QED
  BY <1>1, <1>3, <1>5, <1>6

\* w says the fields h to a decoder with table t, which is then like w's encoder.
Says(w, t, h) ==
    /\ w \in [block : Seq(Items), encoder : Encoders]
    /\ \E t2 : Matches(t2, w.encoder) /\ Decode(t, w.block) = Good(t2, h)

\* What the writers in W may go on to.
After(W, field) ==
    UNION {{[block |-> Append(w.block, x.item), encoder |-> x.encoder] :
              x \in Encodings(w.encoder, field)} : w \in W}

LEMMA AfterSays ==
    ASSUME NEW t \in FitTables, NEW h \in Seq(Field), NEW field \in Field, NEW W,
           \A w \in W : Says(w, t, h), NEW v \in After(W, field)
    PROVE  Says(v, t, Append(h, field))
<1>1. PICK w \in W : \E x \in Encodings(w.encoder, field) :
                       v = [block |-> Append(w.block, x.item), encoder |-> x.encoder]
  BY DEF After
<1>2. PICK x \in Encodings(w.encoder, field) :
        v = [block |-> Append(w.block, x.item), encoder |-> x.encoder]
  BY <1>1
<1>3. Says(w, t, h)
  BY <1>1
<1>4. PICK t2 : Matches(t2, w.encoder) /\ Decode(t, w.block) = Good(t2, h)
  BY <1>3 DEF Says
<1>5. PICK t3 : /\ x.item \in Items
                /\ Matches(t3, x.encoder)
                /\ DecodeNext(Good(t2, h), x.item) = Good(t3, Append(h, field))
  BY <1>4, WrittenIsRead
<1>6. w.block \in Seq(Items)
  BY <1>3 DEF Says
<1>7. Decode(t, Append(w.block, x.item)) = DecodeNext(Decode(t, w.block), x.item)
  BY <1>5, <1>6, DecodeAppend
<1>8. Append(w.block, x.item) \in Seq(Items)
  BY <1>5, <1>6, AppendProperties
<1>9. x.encoder \in Encoders
  BY <1>5 DEF Matches
<1> QED
  BY <1>2, <1>4, <1>5, <1>7, <1>8, <1>9 DEF Says

\* The equation that defines the writers in Blocks.
Writers(f, e, fields) ==
    f = [i \in 0..Len(fields) |->
           IF i = 0 THEN {[block |-> <<>>, encoder |-> e]} ELSE After(f[i - 1], fields[i])]

LEMMA FirstSays ==
    ASSUME NEW t, NEW e, Matches(t, e), NEW w, w = [block |-> <<>>, encoder |-> e]
    PROVE  Says(w, t, <<>>)
<1>1. t \in FitTables /\ e \in Encoders
  BY DEF Matches
<1>2. <<>> \in Seq(Items)
  BY EmptySeq
<1>3. w \in [block : Seq(Items), encoder : Encoders]
  BY <1>1, <1>2
<1>4. w.encoder = e /\ Decode(t, w.block) = Good(t, <<>>)
  BY <1>1, DecodeEmpty
<1> QED
  BY <1>3, <1>4 DEF Says

LEMMA WritersExist ==
    ASSUME NEW t, NEW e, Matches(t, e), NEW fields \in Seq(Field)
    PROVE  \E f : Writers(f, e, fields)
<1> DEFINE n == Len(fields)
           Block == [block : Seq(Items), encoder : Encoders]
           D == {W \in SUBSET Block : \E h \in Seq(Field) : \A w \in W : Says(w, t, h)}
           step == [p \in (1..n) \X D |-> After(p[2], fields[p[1]])]
           W0 == {[block |-> <<>>, encoder |-> e]}
<1>0. t \in FitTables
  BY DEF Matches
<1>1. n \in Nat /\ \A i \in 1..n : fields[i] \in Field
  OBVIOUS
<1>2. W0 \in D
  <2>1. \A w \in W0 : Says(w, t, <<>>) /\ w \in Block
    <3> SUFFICES ASSUME NEW w, w = [block |-> <<>>, encoder |-> e]
                 PROVE  Says(w, t, <<>>) /\ w \in Block
      OBVIOUS
    <3> QED
      BY FirstSays DEF Says
  <2>2. <<>> \in Seq(Field)
    BY EmptySeq
  <2> HIDE DEF W0
  <2> QED
    BY <2>1, <2>2
<1>3. ASSUME NEW W \in D, NEW field \in Field PROVE After(W, field) \in D
  <2>1. PICK h \in Seq(Field) : \A w \in W : Says(w, t, h)
    OBVIOUS
  <2>2. \A v \in After(W, field) : Says(v, t, Append(h, field)) /\ v \in Block
    BY <1>0, <2>1, AfterSays DEF Says
  <2>3. Append(h, field) \in Seq(Field)
    BY AppendProperties
  <2> QED
    BY <2>2, <2>3
<1> HIDE DEF D
<1>4. step \in [(1..n) \X D -> D]
  <2> SUFFICES ASSUME NEW p \in (1..n) \X D PROVE After(p[2], fields[p[1]]) \in D
    OBVIOUS
  <2>1. p[2] \in D /\ fields[p[1]] \in Field
    BY <1>1
  <2> QED
    BY <2>1, <1>3
<1>5. \A i \in 1..n, W \in D : step[<<i, W>>] = After(W, fields[i])
  OBVIOUS
<1> HIDE DEF step, n, W0
<1>6. PICK f : Iterates(f, n, D, W0, step)
  BY <1>1, <1>2, <1>4, Iteration
<1>7. ASSUME NEW i \in 1..n PROVE f[i] = After(f[i - 1], fields[i])
  <2>1. f[i - 1] \in D /\ f[i] = step[<<i, f[i - 1]>>]
    BY <1>1, <1>6 DEF Iterates
  <2> QED
    BY <2>1, <1>5
<1> DEFINE g == [i \in 0..n |-> IF i = 0 THEN W0 ELSE After(f[i - 1], fields[i])]
<1>8. \A i \in 0..n : f[i] = g[i]
  BY <1>1, <1>6, <1>7 DEF Iterates
<1>9. f = g
  BY <1>6, <1>8 DEF Iterates
<1>10. Writers(f, e, fields)
  BY <1>9 DEF Writers, n, W0
<1> QED
  BY <1>10

\* A block that says a list of fields is decoded to that list, and leaves the
\* tables alike.
LEMMA BlocksSay ==
    ASSUME NEW t, NEW e, Matches(t, e), NEW fields \in Seq(Field), NEW w \in Blocks(e, fields)
    PROVE  Says(w, t, fields)
<1> DEFINE n == Len(fields)
           f == CHOOSE g : Writers(g, e, fields)
           Upto(i) == \A v \in f[i] : Says(v, t, SubSeq(fields, 1, i))
           S == {i \in 0..n : Upto(i)}
<1>0. t \in FitTables
  BY DEF Matches
<1>1. Blocks(e, fields) = f[n]
  BY DEF Blocks, Writers, After
<1>2. Writers(f, e, fields)
  BY WritersExist
<1> HIDE DEF f
<1>3. n \in Nat
  OBVIOUS
<1>4. f[0] = {[block |-> <<>>, encoder |-> e]}
      /\ \A i \in 1..n : f[i] = After(f[i - 1], fields[i])
  <2>1. \A i \in 0..n : f[i] = IF i = 0 THEN {[block |-> <<>>, encoder |-> e]}
                               ELSE After(f[i - 1], fields[i])
    BY <1>2 DEF Writers
  <2>2. 0 \in 0..n /\ \A i \in 1..n : i \in 0..n /\ i # 0
    BY <1>3
  <2> HIDE DEF n
  <2> QED
    BY <2>1, <2>2
<1>5. 0 \in S
  <2>1. SubSeq(fields, 1, 0) = <<>>
    OBVIOUS
  <2>2. \A v \in f[0] : Says(v, t, <<>>)
    BY <1>4, FirstSays
  <2>3. Upto(0)
    BY <2>1, <2>2
  <2> QED
    BY <1>3, <2>3
<1>6. ASSUME NEW i \in 0..n, i \in S, i < n PROVE i + 1 \in S
  <2>1. PICK part \in Seq(Field), field \in Field :
          /\ part = SubSeq(fields, 1, i) /\ field = fields[i + 1]
          /\ SubSeq(fields, 1, i + 1) = Append(part, field)
    <3>1. <<>> \in Seq(Field)
      BY EmptySeq
    <3>2. /\ SubSeq(fields, 1, i + 1) = Append(SubSeq(fields, 1, i), fields[i + 1])
          /\ SubSeq(fields, 1, i) \in Seq(Field) /\ fields[i + 1] \in Field
      BY <1>6, <3>1, OneMore
    <3> QED
      BY <3>2
  <2>2. i + 1 \in 1..n /\ i + 1 \in 0..n /\ (i + 1) - 1 = i
    BY <1>3, <1>6
  <2>3. f[i + 1] = After(f[i], field)
    BY <1>4, <2>1, <2>2
  <2>4. \A v \in f[i] : Says(v, t, part)
    BY <1>6, <2>1
  <2>5. \A v \in f[i + 1] : Says(v, t, Append(part, field))
    BY <1>0, <2>3, <2>4, AfterSays
  <2>6. Upto(i + 1)
    BY <2>1, <2>5
  <2> HIDE DEF Upto
  <2> QED
    BY <2>2, <2>6
<1> HIDE DEF S
<1>7. 0..n \subseteq S
  BY <1>3, <1>5, <1>6, IntervalInduction
<1>8. n \in S
  BY <1>3, <1>7
<1>9. SubSeq(fields, 1, n) = fields
  OBVIOUS
<1>10. Upto(n)
  BY <1>8 DEF S
<1> QED
  BY <1>1, <1>9, <1>10

----------------------------------------------------------------------------
(* Frames, and what of header blocks is in them.                           *)

HeadersFrames == [type : {"headers"}, stream : Streams, block : Seq(Items),
                  endHeaders : BOOLEAN, endStream : BOOLEAN]
ContinuationFrames == [type : {"continuation"}, stream : Streams, block : Seq(Items),
                       endHeaders : BOOLEAN]
DataFrames == [type : {"data"}, stream : Streams, data : Seq(Pieces), endStream : BOOLEAN]
OtherFrames == [type : {"control", "malformed", "ignored", "goaway"}]
Frames == HeadersFrames \cup ContinuationFrames \cup DataFrames \cup OtherFrames

LEMMA WrittenType == ASSUME NEW frame \in Frames PROVE Written(frame) \in Seq(Items)
<1>1. <<>> \in Seq(Items)
  BY EmptySeq
<1> QED
  BY <1>1 DEF Written, Frames, HeadersFrames, ContinuationFrames, DataFrames, OtherFrames

\* What there is of header blocks up to each frame, behind h.
IsFlow(f, h, frames) ==
    /\ f \in [0..Len(frames) -> Seq(Items)]
    /\ f[0] = h
    /\ \A i \in 1..Len(frames) : f[i] = f[i - 1] \o Written(frames[i])

\* The equation that defines it in Outstanding.
FlowEquation(f, h, frames) ==
    f = [n \in 0..Len(frames) |-> IF n = 0 THEN h ELSE f[n - 1] \o Written(frames[n])]
Flow(h, frames) == (CHOOSE f : FlowEquation(f, h, frames))[Len(frames)]

LEMMA FlowExists ==
    ASSUME NEW h \in Seq(Items), NEW frames \in Seq(Frames)
    PROVE  \E f : IsFlow(f, h, frames)
<1> DEFINE n == Len(frames)
           D == Seq(Items)
           step == [p \in (1..n) \X D |-> p[2] \o Written(frames[p[1]])]
<1>1. n \in Nat /\ \A i \in 1..n : frames[i] \in Frames
  OBVIOUS
<1>2. \A i \in 1..n, b \in D : b \o Written(frames[i]) \in D
  BY <1>1, WrittenType, ConcatProperties
<1> HIDE DEF D
<1>3. step \in [(1..n) \X D -> D]
  <2> SUFFICES ASSUME NEW p \in (1..n) \X D PROVE p[2] \o Written(frames[p[1]]) \in D
    OBVIOUS
  <2> QED
    BY <1>2
<1>4. \A i \in 1..n, b \in D : step[<<i, b>>] = b \o Written(frames[i])
  OBVIOUS
<1>5. h \in D
  BY DEF D
<1> HIDE DEF n, step
<1>6. PICK f : Iterates(f, n, D, h, step)
  BY <1>1, <1>3, <1>5, Iteration
<1>7. ASSUME NEW i \in 1..n PROVE f[i] = f[i - 1] \o Written(frames[i])
  <2>1. f[i - 1] \in D /\ f[i] = step[<<i, f[i - 1]>>]
    BY <1>1, <1>6 DEF Iterates
  <2> QED
    BY <2>1, <1>4
<1>8. f \in [0..n -> D] /\ f[0] = h
  BY <1>6 DEF Iterates
<1>9. IsFlow(f, h, frames)
  BY <1>7, <1>8 DEF IsFlow, n, D
<1> QED
  BY <1>9

LEMMA FlowIs ==
    ASSUME NEW h, NEW frames \in Seq(Frames), NEW f, IsFlow(f, h, frames)
    PROVE  Flow(h, frames) = f[Len(frames)]
<1> DEFINE n == Len(frames)
           g == CHOOSE g : FlowEquation(g, h, frames)
           k == [i \in 0..n |-> IF i = 0 THEN h ELSE f[i - 1] \o Written(frames[i])]
           S == {i \in 0..n : f[i] = g[i]}
<1>1. n \in Nat
  OBVIOUS
<1>2. \A i \in 0..n : f[i] = IF i = 0 THEN h ELSE f[i - 1] \o Written(frames[i])
  <2> SUFFICES ASSUME NEW i \in 0..n
               PROVE  f[i] = IF i = 0 THEN h ELSE f[i - 1] \o Written(frames[i])
    OBVIOUS
  <2>1. i = 0 \/ i \in 1..Len(frames)
    OBVIOUS
  <2> QED
    BY <2>1 DEF IsFlow
<1>3. FlowEquation(f, h, frames)
  <2>1. f = k
    BY <1>2 DEF IsFlow
  <2> QED
    BY <2>1 DEF FlowEquation
<1>4. FlowEquation(g, h, frames)
  BY <1>3
<1> HIDE DEF g
<1>5. \A i \in 0..n : g[i] = IF i = 0 THEN h ELSE g[i - 1] \o Written(frames[i])
  BY <1>4 DEF FlowEquation
<1> HIDE DEF n
<1>6. 0 \in S
  <2>1. 0 \in 0..n
    BY <1>1
  <2> QED
    BY <1>2, <1>5, <2>1
<1>7. ASSUME NEW i \in 0..n, i \in S, i < n PROVE i + 1 \in S
  <2>1. i + 1 \in 0..n /\ i + 1 # 0 /\ (i + 1) - 1 = i
    BY <1>1, <1>7
  <2>2. f[i + 1] = f[i] \o Written(frames[i + 1]) /\ g[i + 1] = g[i] \o Written(frames[i + 1])
    BY <1>2, <1>5, <2>1
  <2> QED
    BY <1>7, <2>1, <2>2
<1> HIDE DEF S
<1>8. 0..n \subseteq S
  BY <1>1, <1>6, <1>7, IntervalInduction
<1>9. n \in S
  BY <1>1, <1>8
<1> QED
  BY <1>9 DEF S, n, g, Flow

LEMMA FlowType ==
    ASSUME NEW h \in Seq(Items), NEW frames \in Seq(Frames)
    PROVE  Flow(h, frames) \in Seq(Items)
<1>1. PICK f : IsFlow(f, h, frames)
  BY FlowExists
<1>2. Len(frames) \in 0..Len(frames)
  OBVIOUS
<1> QED
  BY <1>1, <1>2, FlowIs DEF IsFlow

LEMMA FlowEmpty == ASSUME NEW h \in Seq(Items) PROVE Flow(h, <<>>) = h
<1>1. PICK none : none \in Seq(Frames) /\ none = <<>> /\ Len(none) = 0
  BY EmptySeq
<1>2. PICK f : IsFlow(f, h, none)
  BY <1>1, FlowExists
<1>3. Flow(h, none) = f[0]
  BY <1>1, <1>2, FlowIs
<1>4. f[0] = h
  BY <1>2 DEF IsFlow
<1> QED
  BY <1>1, <1>3, <1>4

\* A frame that is sent adds what it has at the end.
LEMMA FlowAppend ==
    ASSUME NEW h \in Seq(Items), NEW frames \in Seq(Frames), NEW frame \in Frames
    PROVE  Flow(h, Append(frames, frame)) = Flow(h, frames) \o Written(frame)
<1> DEFINE n == Len(frames)
           all == Append(frames, frame)
<1>1. n \in Nat /\ all \in Seq(Frames) /\ Len(all) = n + 1 /\ all[n + 1] = frame
      /\ \A i \in 1..n : all[i] = frames[i]
  BY AppendProperties
<1> HIDE DEF all
<1>2. PICK f : IsFlow(f, h, all)
  BY <1>1, FlowExists
<1> DEFINE g == [i \in 0..n |-> f[i]]
<1>3. g \in [0..n -> Seq(Items)] /\ g[0] = h
  BY <1>1, <1>2 DEF IsFlow
<1>4. ASSUME NEW i \in 1..n PROVE g[i] = g[i - 1] \o Written(frames[i])
  <2>1. i \in 1..(n + 1) /\ i \in 0..n /\ i - 1 \in 0..n
    BY <1>1
  <2>2. f[i] = f[i - 1] \o Written(frames[i])
    BY <1>1, <1>2, <2>1 DEF IsFlow
  <2> QED
    BY <2>1, <2>2
<1>5. g[n] = f[n]
  BY <1>1
<1> HIDE DEF g, n
<1>6. IsFlow(g, h, frames)
  BY <1>3, <1>4 DEF IsFlow, n
<1>7. Flow(h, frames) = f[n]
  BY <1>5, <1>6, FlowIs DEF n
<1>8. Flow(h, all) = f[n + 1]
  BY <1>1, <1>2, FlowIs
<1>9. f[n + 1] = f[n] \o Written(frame)
  <2>1. n + 1 \in 1..Len(all) /\ (n + 1) - 1 = n
    BY <1>1
  <2> QED
    BY <1>1, <1>2, <2>1 DEF IsFlow
<1> QED
  BY <1>7, <1>8, <1>9 DEF all

\* A frame that is read was the first.
LEMMA FlowTail ==
    ASSUME NEW h \in Seq(Items), NEW frames \in Seq(Frames), frames # <<>>
    PROVE  Flow(h, frames) = Flow(h \o Written(Head(frames)), Tail(frames))
<1> DEFINE n == Len(frames) - 1
           rest == Tail(frames)
<1>1. n \in Nat /\ rest \in Seq(Frames) /\ Len(rest) = n /\ Len(frames) = n + 1
      /\ Head(frames) = frames[1] /\ \A i \in 1..n : rest[i] = frames[i + 1]
  BY HeadTailProperties
<1> HIDE DEF n, rest
<1>2. PICK f : IsFlow(f, h, frames)
  BY FlowExists
<1> DEFINE g == [i \in 0..n |-> f[i + 1]]
<1>3. g \in [0..n -> Seq(Items)] /\ g[0] = f[1] /\ g[n] = f[n + 1]
  BY <1>1, <1>2 DEF IsFlow
<1>4. f[1] = h \o Written(frames[1])
  <2>1. 1 \in 1..Len(frames) /\ 1 - 1 = 0
    BY <1>1
  <2> QED
    BY <1>2, <2>1 DEF IsFlow
<1>5. ASSUME NEW i \in 1..n PROVE g[i] = g[i - 1] \o Written(rest[i])
  <2>1. i + 1 \in 1..Len(frames) /\ (i + 1) - 1 = i /\ i \in 0..n /\ i - 1 \in 0..n /\ (i - 1) + 1 = i
    BY <1>1
  <2>2. f[i + 1] = f[i] \o Written(frames[i + 1])
    BY <1>2, <2>1 DEF IsFlow
  <2> QED
    BY <1>1, <2>1, <2>2
<1> HIDE DEF g
<1>6. IsFlow(g, f[1], rest)
  BY <1>1, <1>3, <1>5 DEF IsFlow
<1>7. Flow(f[1], rest) = f[n + 1]
  BY <1>1, <1>3, <1>6, FlowIs
<1>8. Flow(h, frames) = f[n + 1]
  BY <1>1, <1>2, FlowIs
<1> QED
  BY <1>1, <1>4, <1>7, <1>8 DEF rest

----------------------------------------------------------------------------
(* Types.                                                                  *)

Outline == [at : {"idle", "open", "ended", "reset"}, fields : Seq(Field), body : Seq(Pieces),
            trailers : BOOLEAN]
Stream == [headers : Seq(Field), body : Seq(Pieces)]
Sending == [stream : Streams, type : {"headers", "data"}, length : Nat, endStream : BOOLEAN]

ClientInv ==
    /\ client \in [Streams -> Outline]
    /\ encoder \in Encoders
    /\ fragment \in {None} \cup HeaderBlock
    /\ fragment # None => fragment.block # <<>>
    /\ completed \in Seq(Streams) /\ goaway \in BOOLEAN /\ gone \in BOOLEAN
    /\ wire \in Seq(Frames) /\ Len(wire) <= InFlight
ReadingInv ==
    /\ at \in Reading \cup Handling \cup Final
    /\ table \in FitTables
    /\ DOMAIN streams \subseteq Streams /\ \A s \in DOMAIN streams : streams[s] \in Stream
    /\ header \in {None} \cup HeaderBlock
    /\ header = None <=> at # "continuation"
    /\ current \in {None} \cup CompleteRequest
    /\ current = None <=> at \notin Handling
AnswerInv ==
    /\ candidates \subseteq Upstreams /\ timedOut \in BOOLEAN /\ reached \subseteq Upstreams
    /\ response \in [status : Nat, length : Nat]
    /\ response = NoAnswer <=> at # "respond"
    /\ remaining \in Nat /\ (remaining = 0 <=> at # "data")
    /\ received \in Seq(Sending)
    /\ outcomes \in Seq(Streams)
TInv == ClientInv /\ ReadingInv /\ AnswerInv

\* What is outstanding, of any header, wire and fragment.
BlockOf(h) == IF h = None THEN <<>> ELSE h.block
Pending(h, frames, rest) == Flow(BlockOf(h), frames) \o BlockOf(rest)

\* Decoding it succeeds and leaves the tables alike.
InStep(t, e, block) == \E t2 \in FitTables, h \in Seq(Field) :
                         Decode(t, block) = Good(t2, h) /\ Matches(t2, e)
StepInv == at \notin Final => InStep(table, encoder, Pending(header, wire, fragment))

LEMMA OutstandingIs == Outstanding = Pending(header, wire, fragment)
  BY DEF Outstanding, Pending, Flow, FlowEquation, BlockOf

LEMMA Constants ==
    /\ None \notin Upstreams /\ None \notin HeaderBlock /\ None \notin CompleteRequest
    /\ MaxStreams \in Nat /\ Window \in Nat /\ InFlight \in Nat \ {0} /\ MaxBodySize \in Nat
    /\ FrameSize \in Nat \ {0} /\ TableSize \in Nat /\ TableSizes \subseteq 0..TableSize
    /\ Trailers \in Seq(Field) /\ \A fields \in Requests : fields \in Seq(Field)
  BY NoneAssumption, BoundsAssumption, LengthsAssumption, TableAssumption, RequestsAssumption

LEMMA TInvInit == Init => TInv
<1> SUFFICES ASSUME Init PROVE TInv
  OBVIOUS
<1>1. PICK t : t = EmptyTable(TableSize) /\ t \in FitTables
  BY Constants, EmptyTableFits
<1>2. EmptyEncoder(TableSize) \in Encoders
  BY Constants, EmptySeq DEF EmptyEncoder, Encoders
<1>3. ClientInv
  <2>1. <<>> \in Seq(Field) /\ <<>> \in Seq(Pieces) /\ <<>> \in Seq(Streams)
        /\ <<>> \in Seq(Frames)
    BY EmptySeq
  <2>2. Len(wire) = 0
    BY DEF Init
  <2>3. client \in [Streams -> Outline]
    BY <2>1 DEF Init, Outline
  <2>4. wire \in Seq(Frames) /\ Len(wire) <= InFlight
    BY <2>1, <2>2, Constants DEF Init
  <2>5. completed \in Seq(Streams) /\ goaway \in BOOLEAN /\ gone \in BOOLEAN
        /\ encoder \in Encoders /\ fragment = None
    BY <1>2, <2>1 DEF Init
  <2> QED
    BY <2>3, <2>4, <2>5 DEF ClientInv
<1>4. ReadingInv
  <2>1. DOMAIN streams = {}
    BY DEF Init
  <2> QED
    BY <1>1, <2>1 DEF Init, ReadingInv, Reading, Handling, Final
<1>5. AnswerInv
  <2>1. <<>> \in Seq(Sending) /\ <<>> \in Seq(Streams)
    BY EmptySeq
  <2> QED
    BY <2>1 DEF Init, AnswerInv, NoAnswer
<1> QED
  BY <1>3, <1>4, <1>5 DEF TInv

LEMMA StepInvInit == Init => StepInv
<1> SUFFICES ASSUME Init PROVE StepInv
  OBVIOUS
<1>1. PICK t : t = EmptyTable(TableSize) /\ t \in FitTables /\ t.dynamic = <<>> /\ t.max = TableSize
  BY Constants, EmptyTableFits
<1>2. Matches(t, encoder)
  BY <1>1, Constants, EmptySeq DEF Init, EmptyEncoder, Encoders, Matches
<1>3. PICK none : none \in Seq(Items) /\ none = <<>>
  BY EmptySeq
<1>4. Flow(none, <<>>) = none /\ none \o none = none
  BY <1>3, FlowEmpty, ConcatEmptySeq
<1>5. Pending(header, wire, fragment) = <<>>
  BY <1>3, <1>4 DEF Pending, BlockOf, Init
<1>6. Decode(t, <<>>) = Good(t, <<>>) /\ <<>> \in Seq(Field)
  BY <1>1, DecodeEmpty, EmptySeq
<1>7. InStep(t, encoder, Pending(header, wire, fragment))
  BY <1>1, <1>2, <1>5, <1>6 DEF InStep
<1> QED
  BY <1>1, <1>7 DEF StepInv, Init

----------------------------------------------------------------------------
(* What the client does keeps the tables in step.                          *)

LEMMA BlockOfType ==
    ASSUME NEW h \in {None} \cup HeaderBlock
    PROVE  BlockOf(h) \in Seq(Items)
<1>1. <<>> \in Seq(Items)
  BY EmptySeq
<1> QED
  BY <1>1 DEF BlockOf, HeaderBlock, Items

LEMMA PendingType ==
    ASSUME TInv
    PROVE  /\ Pending(header, wire, fragment) \in Seq(Items)
           /\ Flow(BlockOf(header), wire) \in Seq(Items)
           /\ BlockOf(header) \in Seq(Items) /\ BlockOf(fragment) \in Seq(Items)
<1>1. BlockOf(header) \in Seq(Items) /\ BlockOf(fragment) \in Seq(Items)
  BY BlockOfType DEF TInv, ClientInv, ReadingInv
<1>2. Flow(BlockOf(header), wire) \in Seq(Items)
  BY <1>1, FlowType DEF TInv, ClientInv
<1> QED
  BY <1>1, <1>2, ConcatProperties DEF Pending

\* A frame with the beginning of a block, whose end is kept.
PutOn(h, frames, frame, left, rest, block) ==
    Pending(h, Append(frames, frame), left) = Pending(h, frames, rest) \o block

LEMMA PutPending ==
    ASSUME NEW h \in {None} \cup HeaderBlock, NEW frames \in Seq(Frames), NEW frame \in Frames,
           NEW rest \in {None} \cup HeaderBlock, NEW left \in {None} \cup HeaderBlock,
           NEW block \in Seq(Items), BlockOf(rest) = <<>>, block = Written(frame) \o BlockOf(left)
    PROVE  PutOn(h, frames, frame, left, rest, block)
<1>1. PICK b \in Seq(Items) : b = BlockOf(h)
  BY BlockOfType
<1>2. PICK flow \in Seq(Items) : flow = Flow(b, frames)
  BY FlowType
<1>3. PICK part \in Seq(Items) : part = Written(frame)
  BY WrittenType
<1>4. PICK end \in Seq(Items) : end = BlockOf(left)
  BY BlockOfType
<1>5. Flow(b, Append(frames, frame)) = flow \o part
  BY <1>2, <1>3, FlowAppend
<1>6. (flow \o part) \o end = flow \o (part \o end)
  OBVIOUS
<1>7. flow \o <<>> = flow
  BY ConcatEmptySeq
<1>8. Pending(h, Append(frames, frame), left) = (flow \o part) \o end
  BY <1>1, <1>4, <1>5 DEF Pending
<1>9. Pending(h, frames, rest) = flow
  BY <1>1, <1>2, <1>7 DEF Pending
<1> QED
  BY <1>3, <1>4, <1>6, <1>8, <1>9 DEF PutOn

\* More that is written, from a table like the encoder's.
LEMMA StepOn ==
    ASSUME NEW t \in FitTables, NEW e, NEW b \in Seq(Items), InStep(t, e, b),
           NEW block \in Seq(Items), NEW e2,
           \A t2 : Matches(t2, e) => InStep(t2, e2, block)
    PROVE  InStep(t, e2, b \o block)
<1>1. PICK t2 \in FitTables, h \in Seq(Field) : Decode(t, b) = Good(t2, h) /\ Matches(t2, e)
  BY DEF InStep
<1>2. PICK t3 \in FitTables, g \in Seq(Field) : Decode(t2, block) = Good(t3, g) /\ Matches(t3, e2)
  BY <1>1 DEF InStep
<1>3. IsBehind(h, Decode(t2, block), Decode(t, b \o block))
  BY <1>1, DecodeConcat
<1>4. PICK t4 \in FitTables, f \in Seq(Field) :
        \/ Decode(t2, block) = Good(t4, f) /\ Decode(t, b \o block) = Good(t4, h \o f)
        \/ Decode(t2, block) = Bad(t4, f) /\ Decode(t, b \o block) = Bad(t4, h \o f)
  BY <1>3 DEF IsBehind
<1>5. Good(t3, g).ok /\ Good(t3, g).table = t3
  BY GoodIs
<1>6. ~Bad(t4, f).ok /\ Good(t4, f).table = t4
  BY GoodIs, BadIs
<1>7. Decode(t, b \o block) = Good(t3, h \o f)
  BY <1>2, <1>4, <1>5, <1>6
<1>8. h \o f \in Seq(Field)
  BY ConcatProperties
<1> QED
  BY <1>2, <1>7, <1>8 DEF InStep

\* How a header block may begin: with the encoder as it is, or resized.
Starts(start, first) ==
    \/ start = encoder /\ first = <<>>
    \/ \E n \in TableSizes : start = EncoderResize(encoder, n) /\ first = <<Resize(n)>>

LEMMA FirstIsRead ==
    ASSUME NEW start, NEW first, Starts(start, first), NEW t, Matches(t, encoder)
    PROVE  /\ first \in Seq(Items)
           /\ \E t2 \in FitTables : Decode(t, first) = Good(t2, <<>>) /\ Matches(t2, start)
<1>0. t \in FitTables
  BY DEF Matches
<1>1. CASE start = encoder /\ first = <<>>
  BY <1>0, <1>1, DecodeEmpty, EmptySeq
<1>2. ASSUME NEW n \in TableSizes, start = EncoderResize(encoder, n), first = <<Resize(n)>>
      PROVE  /\ first \in Seq(Items)
             /\ \E t2 \in FitTables : Decode(t, first) = Good(t2, <<>>) /\ Matches(t2, start)
  <2>1. n \in 0..TableSize
    BY Constants
  <2>2. PICK item \in Items : item = Resize(n) /\ item.kind = "resize" /\ item.size = n
    <3>1. Resize(n) \in [kind : {"resize"}, size : 0..TableSize]
          /\ Resize(n).kind = "resize" /\ Resize(n).size = n
      BY <2>1 DEF Resize
    <3>2. Resize(n) \in Items
      BY <3>1 DEF Items, Representation
    <3> QED
      BY <3>1, <3>2
  <2>3. PICK none : none \in Seq(Items) /\ none = <<>> /\ Append(none, item) = <<item>>
    <3>1. <<>> \in Seq(Items)
      BY EmptySeq
    <3>2. Append(<<>>, item) = <<item>>
      OBVIOUS
    <3> QED
      BY <3>1, <3>2
  <2>4. Decode(t, Append(none, item)) = DecodeNext(Decode(t, none), item)
    BY <1>0, <2>3, DecodeAppend
  <2>5. Decode(t, none) = Good(t, <<>>) /\ <<>> \in Seq(Field)
    BY <1>0, <2>3, DecodeEmpty, EmptySeq
  <2>6. DecodeNext(Good(t, <<>>), item) = Good(UpdateSize(t, n), <<>>)
    BY <1>0, <2>2, <2>5, NextResize
  <2>7. Decode(t, first) = Good(UpdateSize(t, n), <<>>)
    BY <1>2, <2>2, <2>3, <2>4, <2>5, <2>6
  <2>8. Matches(UpdateSize(t, n), start)
    BY <1>2, <2>1, ResizeMatches
  <2>9. first \in Seq(Items)
    BY <1>2, <2>2
  <2> QED
    BY <2>7, <2>8, <2>9 DEF Matches
<1> QED
  BY <1>1, <1>2 DEF Starts

LEMMA WholeBlock ==
    ASSUME NEW start, NEW first, Starts(start, first), NEW t, Matches(t, encoder),
           NEW fields \in Seq(Field), NEW written \in Blocks(start, fields)
    PROVE  /\ first \o written.block \in Seq(Items) /\ written.encoder \in Encoders
           /\ InStep(t, written.encoder, first \o written.block)
<1>1. PICK t2 \in FitTables : Decode(t, first) = Good(t2, <<>>) /\ Matches(t2, start)
  BY FirstIsRead
<1>2. Says(written, t2, fields)
  BY <1>1, BlocksSay
<1>3. PICK block \in Seq(Items) : block = written.block
  BY <1>2 DEF Says
<1>4. written.encoder \in Encoders
  BY <1>2 DEF Says
<1>5. first \in Seq(Items) /\ t \in FitTables /\ <<>> \in Seq(Field)
  BY FirstIsRead, EmptySeq DEF Matches
<1>6. InStep(t, start, first)
  BY <1>1, <1>5 DEF InStep
<1>7. ASSUME NEW t3, Matches(t3, start) PROVE InStep(t3, written.encoder, block)
  <2>1. Says(written, t3, fields)
    BY <1>7, BlocksSay
  <2>2. PICK t4 : Matches(t4, written.encoder) /\ Decode(t3, block) = Good(t4, fields)
    BY <2>1, <1>3 DEF Says
  <2>3. t4 \in FitTables
    BY <2>2 DEF Matches
  <2> QED
    BY <2>2, <2>3 DEF InStep
<1>8. InStep(t, written.encoder, first \o block)
  BY <1>3, <1>5, <1>6, <1>7, StepOn
<1>9. first \o block \in Seq(Items)
  BY <1>5, ConcatProperties
<1> QED
  BY <1>3, <1>4, <1>8, <1>9

LEMMA SplitAt ==
    ASSUME NEW S, NEW b \in Seq(S), NEW n \in 1..Len(b)
    PROVE  /\ SubSeq(b, 1, n) \in Seq(S) /\ SubSeq(b, n + 1, Len(b)) \in Seq(S)
           /\ SubSeq(b, 1, n) \o SubSeq(b, n + 1, Len(b)) = b
           /\ IF n = Len(b) THEN SubSeq(b, 1, n) = b ELSE SubSeq(b, n + 1, Len(b)) # <<>>
<1>1. \A i \in 1..Len(b) : b[i] \in S
  OBVIOUS
<1>2. SubSeq(b, 1, n) \in Seq(S)
  BY <1>1, SubSeqProperties
<1>3. SubSeq(b, n + 1, Len(b)) \in Seq(S)
  BY <1>1, SubSeqProperties
<1>4. SubSeq(b, 1, n) \o SubSeq(b, n + 1, Len(b)) = b
  OBVIOUS
<1>5. IF n = Len(b) THEN SubSeq(b, 1, n) = b ELSE SubSeq(b, n + 1, Len(b)) # <<>>
  <2>1. CASE n = Len(b)
    BY <2>1
  <2>2. CASE n # Len(b)
    <3>1. Len(SubSeq(b, n + 1, Len(b))) # 0
      BY <2>2, <1>1, SubSeqProperties
    <3>2. PICK end : end = SubSeq(b, n + 1, Len(b)) /\ Len(end) # 0
      BY <3>1
    <3>3. Len(<<>>) = 0 /\ end # <<>>
      BY <3>2
    <3> QED
      BY <2>2, <3>2, <3>3
  <2> QED
    BY <2>1, <2>2
<1> QED
  BY <1>2, <1>3, <1>4, <1>5

LEMMA PutHeadersStep ==
    ASSUME TInv, StepInv, NEW s \in Streams, NEW fields \in Seq(Field), NEW start, NEW first,
           Starts(start, first), NEW endStream \in BOOLEAN,
           PutHeaders(s, fields, start, first, endStream), Len(wire) < InFlight,
           fragment = None, at \in Reading, UNCHANGED <<at, table, header>>
    PROVE  /\ encoder' \in Encoders
           /\ fragment' \in {None} \cup HeaderBlock /\ (fragment' # None => fragment'.block # <<>>)
           /\ completed' \in Seq(Streams)
           /\ wire' \in Seq(Frames) /\ Len(wire') <= InFlight
           /\ StepInv'
<1>1. PICK written \in Blocks(start, fields) :
        LET block == first \o written.block
        IN  \E n \in 1..Len(block) :
              /\ encoder' = written.encoder
              /\ Put(HeadersFrame(s, SubSeq(block, 1, n), n = Len(block), endStream))
              /\ fragment' = IF n = Len(block) THEN None
                             ELSE [stream |-> s, block |-> SubSeq(block, n + 1, Len(block)),
                                   endStream |-> endStream]
              /\ Ended(s, endStream /\ n = Len(block))
  BY DEF PutHeaders
<1>2. PICK t \in FitTables, h \in Seq(Field) :
        Decode(table, Pending(header, wire, fragment)) = Good(t, h) /\ Matches(t, encoder)
  BY DEF StepInv, InStep, Final, Reading
<1>3. PICK block \in Seq(Items) : block = first \o written.block /\ written.encoder \in Encoders
  BY <1>2, WholeBlock
<1>4. \A t2 : Matches(t2, encoder) => InStep(t2, written.encoder, block)
  BY <1>3, WholeBlock
<1>5. PICK n \in 1..Len(block) :
        /\ encoder' = written.encoder
        /\ Put(HeadersFrame(s, SubSeq(block, 1, n), n = Len(block), endStream))
        /\ fragment' = IF n = Len(block) THEN None
                       ELSE [stream |-> s, block |-> SubSeq(block, n + 1, Len(block)),
                             endStream |-> endStream]
        /\ Ended(s, endStream /\ n = Len(block))
  BY <1>1, <1>3
<1>6. PICK front \in Seq(Items) : front = SubSeq(block, 1, n)
  BY SplitAt
<1>7. PICK frame \in Frames :
        frame = HeadersFrame(s, front, n = Len(block), endStream) /\ Written(frame) = front
  <2>1. HeadersFrame(s, front, n = Len(block), endStream) \in HeadersFrames
    BY <1>6 DEF HeadersFrame, HeadersFrames
  <2>2. Written(HeadersFrame(s, front, n = Len(block), endStream)) = front
    BY DEF HeadersFrame, Written
  <2> QED
    BY <2>1, <2>2 DEF Frames
<1>8. wire' = Append(wire, frame)
  BY <1>5, <1>6, <1>7 DEF Put
<1>9. /\ fragment' \in {None} \cup HeaderBlock /\ (fragment' # None => fragment'.block # <<>>)
      /\ front \o BlockOf(fragment') = block
  <2>1. CASE n = Len(block)
    <3>1. fragment' = None /\ front = block
      BY <1>5, <1>6, <2>1, SplitAt
    <3> QED
      BY <3>1, ConcatEmptySeq DEF BlockOf
  <2>2. CASE n # Len(block)
    <3>0. SubSeq(block, n + 1, Len(block)) \in Seq(Items)
          /\ IF n = Len(block) THEN SubSeq(block, 1, n) = block
             ELSE SubSeq(block, n + 1, Len(block)) # <<>>
      BY SplitAt
    <3>1. PICK end \in Seq(Items) : end = SubSeq(block, n + 1, Len(block)) /\ end # <<>>
      BY <2>2, <3>0
    <3>2. front \o end = block
      BY <1>6, <3>1, SplitAt
    <3>3. fragment' = [stream |-> s, block |-> end, endStream |-> endStream]
      BY <1>5, <2>2, <3>1
    <3>4. fragment' \in HeaderBlock /\ fragment'.block = end
      BY <3>3 DEF HeaderBlock, Items
    <3> QED
      BY <3>1, <3>2, <3>4, Constants DEF BlockOf
  <2> QED
    BY <2>1, <2>2
<1>10. StepInv'
  <2>1. header \in {None} \cup HeaderBlock /\ wire \in Seq(Frames) /\ table \in FitTables
        /\ Pending(header, wire, fragment) \in Seq(Items)
    BY PendingType DEF TInv, ClientInv, ReadingInv
  <2>2. BlockOf(fragment) = <<>> /\ fragment \in {None} \cup HeaderBlock
    BY DEF BlockOf
  <2>3. PICK left \in {None} \cup HeaderBlock : left = fragment'
    BY <1>9
  <2>4. block = Written(frame) \o BlockOf(left)
    BY <1>7, <1>9, <2>3
  <2>5. Pending(header, Append(wire, frame), left) = Pending(header, wire, fragment) \o block
    <3>1. PICK h0, frames, rest : h0 = header /\ frames = wire /\ rest = fragment
      OBVIOUS
    <3>2. h0 \in {None} \cup HeaderBlock /\ frames \in Seq(Frames)
          /\ rest \in {None} \cup HeaderBlock /\ BlockOf(rest) = <<>>
      BY <2>1, <2>2, <3>1
    <3>3. PutOn(h0, frames, frame, left, rest, block)
      BY <2>4, <3>2, PutPending
    <3> QED
      BY <3>1, <3>3 DEF PutOn
  <2>6. InStep(table, encoder, Pending(header, wire, fragment))
    BY <1>2 DEF InStep
  <2>7. InStep(table, written.encoder, Pending(header, wire, fragment) \o block)
    BY <1>4, <2>1, <2>6, StepOn
  <2>8. InStep(table, encoder', Pending(header, wire', fragment'))
    BY <1>5, <1>8, <2>3, <2>5, <2>7
  <2>9. StepInv' <=> (at' \notin Final => InStep(table', encoder', Pending(header', wire', fragment')))
    BY DEF StepInv
  <2> QED
    BY <2>8, <2>9
<1>11. wire' \in Seq(Frames) /\ Len(wire') <= InFlight
  <2>1. wire \in Seq(Frames) /\ InFlight \in Nat
    BY Constants DEF TInv, ClientInv
  <2> QED
    BY <1>8, <2>1
<1>12. completed' \in Seq(Streams)
  <2>1. completed \in Seq(Streams)
    BY DEF TInv, ClientInv
  <2>2. completed' = completed \/ completed' = Append(completed, s)
    BY <1>5 DEF Ended
  <2>3. Append(completed, s) \in Seq(Streams)
    BY <2>1, AppendProperties
  <2> QED
    BY <2>1, <2>2, <2>3
<1> QED
  BY <1>3, <1>5, <1>9, <1>10, <1>11, <1>12

LEMMA PieceInside ==
    ASSUME TInv, NEW s \in Streams, Spent < Window
    PROVE  Len(client[s].body) + 1 \in 1..Window
<1>0. client[s].body \in Seq(Pieces) /\ Window \in Nat /\ MaxStreams \in Nat
  BY Constants DEF TInv, ClientInv, Outline
<1> SUFFICES ASSUME Len(client[s].body) >= Window PROVE FALSE
  BY <1>0
<1> DEFINE All == {p \in Pieces : p[2] <= Len(client[p[1]].body)}
           Own == {p \in All : p[1] = s}
           f == [p \in Own |-> p[2]]
<1>1. Pieces \subseteq Streams \X (1..Window)
  BY DEF Pieces
<1>2. IsFiniteSet(Streams) /\ IsFiniteSet(1..Window) /\ Cardinality(1..Window) = Window
  <2>1. 1 \in Int /\ Window \in Int /\ MaxStreams \in Int
    BY <1>0
  <2>2. IsFiniteSet(1..Window) /\ IsFiniteSet(1..MaxStreams)
    BY <2>1, FS_Interval
  <2>3. Cardinality(1..Window) = IF 1 > Window THEN 0 ELSE Window - 1 + 1
    BY <2>1, FS_Interval
  <2>4. Cardinality(1..Window) = Window
    BY <1>0, <2>3
  <2> QED
    BY <2>2, <2>4 DEF Streams
<1>3. IsFiniteSet(Streams \X (1..Window))
  <2>1. PICK A, B : A = Streams /\ B = 1..Window /\ IsFiniteSet(A) /\ IsFiniteSet(B)
    BY <1>2
  <2>2. IsFiniteSet(A \X B)
    BY <2>1, FS_Product
  <2> QED
    BY <2>1, <2>2
<1>4. IsFiniteSet(All) /\ IsFiniteSet(Own) /\ Cardinality(Own) <= Cardinality(All)
      /\ Cardinality(Own) \in Nat /\ Cardinality(All) \in Nat
  <2>0. All \subseteq Streams \X (1..Window) /\ Own \subseteq All
    BY <1>1
  <2>1. PICK A, B, C : /\ A = Streams \X (1..Window) /\ B = All /\ C = Own /\ IsFiniteSet(A)
                       /\ B \in SUBSET A /\ C \in SUBSET B
    <3> HIDE DEF All, Own
    <3> QED
      BY <2>0, <1>3
  <2>2. IsFiniteSet(B)
    BY <2>1, FS_Subset
  <2>3. IsFiniteSet(C) /\ Cardinality(C) <= Cardinality(B)
    BY <2>1, <2>2, FS_Subset
  <2>4. Cardinality(C) \in Nat /\ Cardinality(B) \in Nat
    BY <2>2, <2>3, FS_CardinalityType
  <2> QED
    BY <2>1, <2>2, <2>3, <2>4
<1>5. f \in Surjection(Own, 1..Window)
  <2>1. f \in [Own -> 1..Window]
    BY <1>1
  <2>2. ASSUME NEW i \in 1..Window PROVE \E p \in Own : f[p] = i
    <3>1. <<s, i>> \in Pieces
      BY DEF Pieces
    <3>2. i <= Len(client[s].body)
      BY <1>0
    <3>3. <<s, i>> \in Own
      BY <3>1, <3>2
    <3> QED
      BY <3>3
  <2> QED
    BY <2>1, <2>2 DEF Surjection
<1> HIDE DEF f, Own
<1>6. Cardinality(1..Window) <= Cardinality(Own)
  <2>1. PICK A, B, g : A = Own /\ B = 1..Window /\ g = f /\ IsFiniteSet(A) /\ g \in Surjection(A, B)
    BY <1>4, <1>5
  <2>2. Cardinality(B) <= Cardinality(A)
    BY <2>1, FS_Surjection
  <2> QED
    BY <2>1, <2>2
<1>7. Spent = Cardinality(All)
  BY DEF Spent
<1> HIDE DEF All
<1> QED
  BY <1>0, <1>2, <1>4, <1>6, <1>7


LEMMA FlowConcat ==
    ASSUME NEW b \in Seq(Items), NEW none \in Seq(Items), none = <<>>, NEW frames \in Seq(Frames)
    PROVE  Flow(b, frames) = b \o Flow(none, frames)
<1> DEFINE n == Len(frames)
<1>1. n \in Nat /\ \A i \in 1..n : frames[i] \in Frames /\ i - 1 \in 0..n /\ i \in 0..n
  OBVIOUS
<1>2. PICK f : IsFlow(f, none, frames)
  BY FlowExists
<1> DEFINE g == [i \in 0..n |-> b \o f[i]]
<1>3. f \in [0..n -> Seq(Items)] /\ f[0] = none /\ 0 \in 0..n /\ n \in 0..n
  BY <1>1, <1>2 DEF IsFlow
<1>4. g \in [0..n -> Seq(Items)]
  <2> SUFFICES ASSUME NEW i \in 0..n PROVE b \o f[i] \in Seq(Items)
    OBVIOUS
  <2> QED
    BY <1>3, ConcatProperties
<1>5. g[0] = b
  <2>1. b \o none = b
    BY ConcatEmptySeq
  <2> QED
    BY <1>3, <2>1
<1>6. ASSUME NEW i \in 1..n PROVE g[i] = g[i - 1] \o Written(frames[i])
  <2>1. PICK part \in Seq(Items) : part = Written(frames[i])
    BY <1>1, WrittenType
  <2>2. PICK before \in Seq(Items) : before = f[i - 1]
    BY <1>1, <1>3
  <2>3. f[i] = before \o part
    BY <1>2, <2>1, <2>2 DEF IsFlow
  <2>4. g[i] = b \o (before \o part) /\ g[i - 1] = b \o before
    BY <1>1, <2>2, <2>3
  <2>5. b \o (before \o part) = (b \o before) \o part
    OBVIOUS
  <2> QED
    BY <2>1, <2>4, <2>5
<1>7. g[n] = b \o f[n]
  BY <1>3
<1> HIDE DEF g
<1>8. IsFlow(g, b, frames)
  BY <1>4, <1>5, <1>6 DEF IsFlow
<1>9. Flow(b, frames) = g[n] /\ Flow(none, frames) = f[n]
  BY <1>2, <1>8, FlowIs
<1> QED
  BY <1>7, <1>9

\* A frame that carries on with a block.
MovesOn(h, frames, frame, left, rest) ==
    Pending(h, Append(frames, frame), left) = Pending(h, frames, rest)

LEMMA MovePending ==
    ASSUME NEW h \in {None} \cup HeaderBlock, NEW frames \in Seq(Frames), NEW frame \in Frames,
           NEW rest \in {None} \cup HeaderBlock, NEW left \in {None} \cup HeaderBlock,
           BlockOf(rest) = Written(frame) \o BlockOf(left)
    PROVE  MovesOn(h, frames, frame, left, rest)
<1>1. PICK b \in Seq(Items) : b = BlockOf(h)
  BY BlockOfType
<1>2. PICK flow \in Seq(Items) : flow = Flow(b, frames)
  BY FlowType
<1>3. PICK part \in Seq(Items) : part = Written(frame)
  BY WrittenType
<1>4. PICK end \in Seq(Items) : end = BlockOf(left)
  BY BlockOfType
<1>5. Flow(b, Append(frames, frame)) = flow \o part
  BY <1>2, <1>3, FlowAppend
<1>6. (flow \o part) \o end = flow \o (part \o end)
  OBVIOUS
<1>7. Pending(h, Append(frames, frame), left) = (flow \o part) \o end
  BY <1>1, <1>4, <1>5 DEF Pending
<1>8. Pending(h, frames, rest) = flow \o (part \o end)
  BY <1>1, <1>2, <1>3, <1>4 DEF Pending
<1> QED
  BY <1>6, <1>7, <1>8 DEF MovesOn

\* A frame that is not the first of a block.
LEMMA FrameStep ==
    ASSUME TInv, StepInv, NEW frame \in Frames, Put(frame), Len(wire) < InFlight, at \in Reading,
           NEW left \in {None} \cup HeaderBlock, fragment' = left,
           BlockOf(fragment) = Written(frame) \o BlockOf(left),
           UNCHANGED <<encoder, at, table, header>>
    PROVE  wire' \in Seq(Frames) /\ Len(wire') <= InFlight /\ StepInv'
<1>1. wire \in Seq(Frames) /\ InFlight \in Nat /\ wire' = Append(wire, frame)
      /\ fragment \in {None} \cup HeaderBlock /\ header \in {None} \cup HeaderBlock
  BY Constants DEF TInv, ClientInv, ReadingInv, Put
<1>2. wire' \in Seq(Frames) /\ Len(wire') <= InFlight
  BY <1>1
<1>3. Pending(header, Append(wire, frame), left) = Pending(header, wire, fragment)
  <2>1. PICK h, frames, rest : h = header /\ frames = wire /\ rest = fragment
    OBVIOUS
  <2>2. h \in {None} \cup HeaderBlock /\ frames \in Seq(Frames) /\ rest \in {None} \cup HeaderBlock
        /\ BlockOf(rest) = Written(frame) \o BlockOf(left)
    BY <1>1, <2>1
  <2>3. MovesOn(h, frames, frame, left, rest)
    BY <2>2, MovePending
  <2> QED
    BY <2>1, <2>3 DEF MovesOn
<1>4. InStep(table, encoder, Pending(header, wire, fragment))
  BY DEF StepInv, Reading, Final
<1>5. InStep(table', encoder', Pending(header', wire', fragment'))
  BY <1>1, <1>3, <1>4
<1> QED
  BY <1>2, <1>5 DEF StepInv

\* A frame without any of a block.
LEMMA OtherFrame ==
    ASSUME TInv, StepInv, NEW frame \in DataFrames \cup OtherFrames, Put(frame),
           Len(wire) < InFlight, at \in Reading, UNCHANGED <<fragment, encoder, at, table, header>>
    PROVE  wire' \in Seq(Frames) /\ Len(wire') <= InFlight /\ StepInv'
<1>1. PICK left \in {None} \cup HeaderBlock : left = fragment
  BY DEF TInv, ClientInv
<1>2. PICK end \in Seq(Items) : end = BlockOf(left)
  BY BlockOfType
<1>3. Written(frame) = <<>> /\ frame \in Frames
  BY DEF Written, DataFrames, OtherFrames, Frames
<1>4. <<>> \o end = end
  BY ConcatEmptySeq
<1>5. BlockOf(fragment) = Written(frame) \o BlockOf(left)
  BY <1>1, <1>2, <1>3, <1>4
<1>6. fragment' = left
  BY <1>1
<1> QED
  BY <1>3, <1>5, <1>6, FrameStep

----------------------------------------------------------------------------
(* One lemma for each action: it keeps the types and the tables in step.   *)

\* What the client does leaves the server's side alone.
LEMMA ClientOnly ==
    ASSUME TInv, ClientInv', UNCHANGED <<at, reading, current, proxied, answer, log>>
    PROVE  TInv'
<1>1. ReadingInv'
  BY DEF TInv, ReadingInv, reading
<1>2. AnswerInv'
  BY DEF TInv, AnswerInv, proxied, answer, log
<1> QED
  BY <1>1, <1>2 DEF TInv

LEMMA OpenStreamKeeps ==
    ASSUME TInv, StepInv, NEW s \in Streams, OpenStream(s)
    PROVE  TInv' /\ StepInv'
<1>1. PICK fields \in Requests, endStream \in BOOLEAN :
        /\ client' = [client EXCEPT ![s].at = Now(endStream), ![s].fields = fields]
        /\ \/ PutHeaders(s, fields, encoder, <<>>, endStream)
           \/ \E n \in TableSizes :
                PutHeaders(s, fields, EncoderResize(encoder, n), <<Resize(n)>>, endStream)
  BY DEF OpenStream
<1>2. fields \in Seq(Field)
  BY Constants
<1>3. Now(endStream) \in {"ended", "open"}
  BY DEF Now
<1>4. client' \in [Streams -> Outline]
  BY <1>1, <1>2, <1>3 DEF TInv, ClientInv, Outline
<1>5. PICK start, first : Starts(start, first) /\ PutHeaders(s, fields, start, first, endStream)
  BY <1>1 DEF Starts
<1>6. Len(wire) < InFlight /\ fragment = None /\ at \in Reading
      /\ UNCHANGED <<goaway, gone, at, reading, current, proxied, answer, log>>
  BY DEF OpenStream, MaySend
<1>7. UNCHANGED <<at, table, header>>
  BY <1>6 DEF reading
<1>8. /\ encoder' \in Encoders
      /\ fragment' \in {None} \cup HeaderBlock /\ (fragment' # None => fragment'.block # <<>>)
      /\ completed' \in Seq(Streams)
      /\ wire' \in Seq(Frames) /\ Len(wire') <= InFlight
      /\ StepInv'
  BY <1>2, <1>5, <1>6, <1>7, PutHeadersStep
<1>9. ClientInv'
  BY <1>4, <1>6, <1>8 DEF TInv, ClientInv
<1> QED
  BY <1>6, <1>8, <1>9, ClientOnly

LEMMA SendTrailersKeeps ==
    ASSUME TInv, StepInv, NEW s \in Streams, SendTrailers(s)
    PROVE  TInv' /\ StepInv'
<1>1. Trailers \in Seq(Field)
  BY Constants
<1>2. client' = [client EXCEPT ![s].at = "ended", ![s].trailers = TRUE]
  BY DEF SendTrailers
<1>3. client' \in [Streams -> Outline]
  BY <1>2 DEF TInv, ClientInv, Outline
<1>4. Starts(encoder, <<>>) /\ PutHeaders(s, Trailers, encoder, <<>>, TRUE)
  BY DEF Starts, SendTrailers
<1>5. Len(wire) < InFlight /\ fragment = None /\ at \in Reading
      /\ UNCHANGED <<goaway, gone, at, reading, current, proxied, answer, log>>
  BY DEF SendTrailers, MaySend
<1>6. UNCHANGED <<at, table, header>>
  BY <1>5 DEF reading
<1>7. /\ encoder' \in Encoders
      /\ fragment' \in {None} \cup HeaderBlock /\ (fragment' # None => fragment'.block # <<>>)
      /\ completed' \in Seq(Streams)
      /\ wire' \in Seq(Frames) /\ Len(wire') <= InFlight
      /\ StepInv'
  BY <1>1, <1>4, <1>5, <1>6, PutHeadersStep
<1>8. ClientInv'
  BY <1>3, <1>5, <1>7 DEF TInv, ClientInv
<1> QED
  BY <1>5, <1>7, <1>8, ClientOnly


LEMMA SendContinuationKeeps ==
    ASSUME TInv, StepInv, SendContinuation
    PROVE  TInv' /\ StepInv'
<1>1. fragment \in HeaderBlock /\ fragment.block # <<>> /\ completed \in Seq(Streams)
  BY DEF SendContinuation, TInv, ClientInv
<1>2. PICK s \in Streams, block \in Seq(Items), endStream \in BOOLEAN :
        fragment = [stream |-> s, block |-> block, endStream |-> endStream]
  BY <1>1 DEF HeaderBlock, Items
<1>3. fragment.stream = s /\ fragment.block = block /\ fragment.endStream = endStream
      /\ block # <<>>
  BY <1>1, <1>2
<1>4. PICK item \in Items, rest \in Seq(Items) :
        item = Head(block) /\ rest = Tail(block) /\ block = <<item>> \o rest
        /\ Len(rest) = Len(block) - 1 /\ <<item>> \in Seq(Items)
  <2>1. Head(block) \in Items /\ Tail(block) \in Seq(Items) /\ Len(Tail(block)) = Len(block) - 1
        /\ block = <<Head(block)>> \o Tail(block)
    BY <1>3
  <2>2. <<Head(block)>> \in Seq(Items)
    BY <2>1
  <2> QED
    BY <2>1, <2>2
<1>5. PICK frame \in Frames :
        /\ frame = ContinuationFrame(s, <<item>>, Len(block) = 1)
        /\ Written(frame) = <<item>>
  <2>1. ContinuationFrame(s, <<item>>, Len(block) = 1) \in ContinuationFrames
    BY <1>4 DEF ContinuationFrame, ContinuationFrames
  <2>2. Written(ContinuationFrame(s, <<item>>, Len(block) = 1)) = <<item>>
    BY DEF ContinuationFrame, Written
  <2> QED
    BY <2>1, <2>2 DEF Frames
<1>6. Put(frame) /\ Len(wire) < InFlight /\ at \in Reading
      /\ UNCHANGED <<client, encoder, goaway, gone, at, reading, current, proxied, answer, log>>
  BY <1>3, <1>4, <1>5 DEF SendContinuation, MaySend
<1>7. /\ fragment' \in {None} \cup HeaderBlock /\ (fragment' # None => fragment'.block # <<>>)
      /\ BlockOf(fragment) = <<item>> \o BlockOf(fragment')
  <2>1. BlockOf(fragment) = block
    BY <1>1, <1>3, Constants DEF BlockOf
  <2>2. CASE Len(block) = 1
    <3>1. fragment' = None
      BY <1>3, <2>2 DEF SendContinuation
    <3>2. rest = <<>>
      BY <1>4, <2>2
    <3> QED
      BY <1>4, <2>1, <3>1, <3>2 DEF BlockOf
  <2>3. CASE Len(block) # 1
    <3>1. fragment' = [fragment EXCEPT !.block = Tail(@)]
      BY <1>3, <2>3 DEF SendContinuation
    <3>2. fragment' = [stream |-> s, block |-> rest, endStream |-> endStream]
      BY <1>2, <1>4, <3>1
    <3>3. fragment' \in HeaderBlock /\ fragment'.block = rest
      BY <3>2 DEF HeaderBlock, Items
    <3>4. rest # <<>>
      <4>1. Len(block) \in Nat /\ Len(block) # 0
        BY <1>3
      <4>2. Len(rest) # 0
        BY <1>4, <2>3, <4>1
      <4> QED
        BY <4>2
    <3> QED
      BY <1>4, <2>1, <3>3, <3>4, Constants DEF BlockOf
  <2> QED
    BY <2>2, <2>3
<1>8. PICK left \in {None} \cup HeaderBlock : left = fragment'
  BY <1>7
<1>9. BlockOf(fragment) = Written(frame) \o BlockOf(left)
  BY <1>5, <1>7, <1>8
<1>10. UNCHANGED <<encoder, at, table, header>> /\ fragment' = left
  BY <1>6, <1>8 DEF reading
<1>11. wire' \in Seq(Frames) /\ Len(wire') <= InFlight /\ StepInv'
  BY <1>6, <1>9, <1>10, FrameStep
<1>12. completed' \in Seq(Streams)
  <2>1. completed' = completed \/ completed' = Append(completed, s)
    BY <1>3 DEF SendContinuation, Ended
  <2>2. Append(completed, s) \in Seq(Streams)
    BY <1>1, AppendProperties
  <2> QED
    BY <1>1, <2>1, <2>2
<1>13. ClientInv'
  BY <1>6, <1>7, <1>11, <1>12 DEF TInv, ClientInv
<1> QED
  BY <1>6, <1>11, <1>13, ClientOnly

LEMMA SendDataKeeps ==
    ASSUME TInv, StepInv, NEW s \in Streams, NEW n \in {0, 1}, NEW endStream \in BOOLEAN,
           SendData(s, n, endStream)
    PROVE  TInv' /\ StepInv'
<1>1. /\ client \in [Streams -> Outline] /\ completed \in Seq(Streams)
      /\ client[s].body \in Seq(Pieces)
  BY DEF TInv, ClientInv, Outline
<1>2. PICK data \in Seq(Pieces) :
        data = IF n = 0 THEN <<>> ELSE <<<<s, Len(client[s].body) + 1>>>>
  <2>1. <<>> \in Seq(Pieces)
    BY EmptySeq
  <2>2. CASE n = 1
    <3>1. Spent < Window
      BY <2>2 DEF SendData
    <3>2. Len(client[s].body) + 1 \in 1..Window
      BY <3>1, PieceInside
    <3>3. <<s, Len(client[s].body) + 1>> \in Pieces
      BY <3>2 DEF Pieces
    <3>4. PICK last \in Pieces : last = <<s, Len(client[s].body) + 1>>
      BY <3>3
    <3>5. <<last>> \in Seq(Pieces)
      OBVIOUS
    <3>6. <<last>> = IF n = 0 THEN <<>> ELSE <<<<s, Len(client[s].body) + 1>>>>
      BY <2>2, <3>4
    <3> QED
      BY <3>5, <3>6
  <2> QED
    BY <2>1, <2>2
<1>3. /\ client' = [client EXCEPT ![s].at = Now(endStream), ![s].body = @ \o data]
      /\ Put(DataFrame(s, data, endStream))
  BY <1>2 DEF SendData
<1>4. PICK body \in Seq(Pieces) : body = client[s].body \o data
  BY <1>1, ConcatProperties
<1>5. client' \in [Streams -> Outline]
  <2>1. Now(endStream) \in {"ended", "open"}
    BY DEF Now
  <2>2. client' = [client EXCEPT ![s].at = Now(endStream), ![s].body = body]
    BY <1>3, <1>4
  <2> QED
    BY <1>1, <2>1, <2>2 DEF Outline
<1>6. PICK frame \in DataFrames : frame = DataFrame(s, data, endStream)
  BY DEF DataFrame, DataFrames
<1>7. Put(frame) /\ Len(wire) < InFlight /\ at \in Reading /\ Ended(s, endStream)
      /\ UNCHANGED <<encoder, fragment, goaway, gone, at, reading, current, proxied, answer, log>>
  BY <1>3, <1>6 DEF SendData, MaySend
<1>8. UNCHANGED <<fragment, encoder, at, table, header>>
  BY <1>7 DEF reading
<1>9. wire' \in Seq(Frames) /\ Len(wire') <= InFlight /\ StepInv'
  BY <1>7, <1>8, OtherFrame
<1>10. completed' \in Seq(Streams)
  <2>1. completed' = completed \/ completed' = Append(completed, s)
    BY <1>7 DEF Ended
  <2>2. Append(completed, s) \in Seq(Streams)
    BY <1>1, AppendProperties
  <2> QED
    BY <1>1, <2>1, <2>2
<1>11. ClientInv'
  BY <1>5, <1>7, <1>9, <1>10 DEF TInv, ClientInv
<1> QED
  BY <1>7, <1>9, <1>11, ClientOnly

\* RST_STREAM, SETTINGS, PING, GOAWAY and what cannot be parsed.
LEMMA BareFrame ==
    ASSUME TInv, StepInv, NEW type \in {"control", "malformed", "ignored", "goaway"},
           Put([type |-> type]), MaySend, client' \in [Streams -> Outline], goaway' \in BOOLEAN,
           UNCHANGED <<encoder, fragment, completed, gone, at, reading, current, proxied, answer, log>>
    PROVE  TInv' /\ StepInv'
<1>1. PICK frame \in OtherFrames : frame = [type |-> type]
  BY DEF OtherFrames
<1>2. Put(frame) /\ Len(wire) < InFlight /\ at \in Reading
      /\ UNCHANGED <<fragment, encoder, at, table, header>>
  BY <1>1 DEF MaySend, reading
<1>3. wire' \in Seq(Frames) /\ Len(wire') <= InFlight /\ StepInv'
  BY <1>2, OtherFrame
<1>4. ClientInv'
  BY <1>3 DEF TInv, ClientInv
<1> QED
  BY <1>3, <1>4, ClientOnly

LEMMA ResetStreamKeeps ==
    ASSUME TInv, StepInv, NEW s \in Streams, ResetStream(s)
    PROVE  TInv' /\ StepInv'
<1>1. client' \in [Streams -> Outline] /\ goaway' \in BOOLEAN
  BY DEF ResetStream, TInv, ClientInv, Outline
<1> QED
  BY <1>1, BareFrame DEF ResetStream

LEMMA SendOtherKeeps ==
    ASSUME TInv, StepInv, NEW type \in {"control", "malformed"}, SendOther(type)
    PROVE  TInv' /\ StepInv'
<1>1. UNCHANGED <<client, encoder, fragment, completed, goaway, gone, at, reading, current,
                  proxied, answer, log>>
  BY DEF SendOther, sender
<1>2. client' \in [Streams -> Outline] /\ goaway' \in BOOLEAN
  BY <1>1 DEF TInv, ClientInv
<1> QED
  BY <1>1, <1>2, BareFrame DEF SendOther

LEMMA SendGoawayKeeps == ASSUME TInv, StepInv, SendGoaway PROVE TInv' /\ StepInv'
<1>1. client' \in [Streams -> Outline] /\ goaway' \in BOOLEAN
  BY DEF SendGoaway, TInv, ClientInv
<1> QED
  BY <1>1, BareFrame DEF SendGoaway

\* What the server does after it has read a request leaves the tables alone.
LEMMA TablesAlone ==
    ASSUME StepInv, at \notin Final, UNCHANGED <<encoder, fragment, wire, table, header>>
    PROVE  StepInv'
  BY DEF StepInv

LEMMA LeaveKeeps == ASSUME TInv, StepInv, Leave PROVE TInv' /\ StepInv'
<1>1. ClientInv'
  BY DEF Leave, TInv, ClientInv
<1>2. at \notin Final /\ UNCHANGED <<encoder, fragment, wire, table, header>>
      /\ UNCHANGED <<at, reading, current, proxied, answer, log>>
  BY DEF Leave, Reading, Final, reading
<1> QED
  BY <1>1, <1>2, ClientOnly, TablesAlone


\* The frame at the front is taken.
LEMMA FrontTaken ==
    ASSUME TInv, wire # <<>>, Taken
    PROVE  ClientInv' /\ Head(wire) \in Frames /\ wire' = Tail(wire)
<1>1. wire \in Seq(Frames) /\ Len(wire) <= InFlight /\ InFlight \in Nat
  BY Constants DEF TInv, ClientInv
<1>2. Head(wire) \in Frames /\ Tail(wire) \in Seq(Frames) /\ Len(Tail(wire)) = Len(wire) - 1
      /\ Len(wire) \in Nat
  BY <1>1
<1>3. wire' = Tail(wire)
  BY DEF Taken
<1>4. wire' \in Seq(Frames) /\ Len(wire') <= InFlight
  BY <1>1, <1>2, <1>3
<1> QED
  BY <1>2, <1>3, <1>4 DEF Taken, sender, TInv, ClientInv

\* It belongs to what was outstanding.
LEMMA FrontPending ==
    ASSUME TInv, wire # <<>>,
           NEW block \in Seq(Items), block = BlockOf(header) \o Written(Head(wire))
    PROVE  /\ Tail(wire) \in Seq(Frames)
           /\ Flow(BlockOf(header), wire) = Flow(block, Tail(wire))
           /\ Pending(header, wire, fragment) = Flow(block, Tail(wire)) \o BlockOf(fragment)
<1>1. wire \in Seq(Frames) /\ BlockOf(header) \in Seq(Items)
  BY PendingType DEF TInv, ClientInv
<1>2. PICK h, frames : h = BlockOf(header) /\ frames = wire
  OBVIOUS
<1>3. h \in Seq(Items) /\ frames \in Seq(Frames) /\ frames # <<>>
  BY <1>1, <1>2
<1>4. Flow(h, frames) = Flow(h \o Written(Head(frames)), Tail(frames))
  BY <1>3, FlowTail
<1>5. Tail(frames) \in Seq(Frames)
  BY <1>3
<1> QED
  BY <1>2, <1>4, <1>5 DEF Pending

\* The task ends.
LEMMA ReturnKeeps ==
    ASSUME TInv, NEW step \in Final, NEW result \in Seq(Streams), Return(step, result)
    PROVE  TInv' /\ StepInv'
<1>1. ClientInv'
  <2>1. <<>> \in Seq(Frames) /\ Len(<<>>) = 0 /\ InFlight \in Nat
    BY EmptySeq, Constants
  <2>2. wire' = <<>>
    BY DEF Return
  <2>3. wire' \in Seq(Frames) /\ Len(wire') <= InFlight
    BY <2>1, <2>2
  <2> QED
    BY <2>3 DEF Return, sender, TInv, ClientInv
<1>2. ReadingInv'
  <2>1. PICK t : t = EmptyTable(TableSize) /\ t \in FitTables
    BY Constants, EmptyTableFits
  <2>2. table' = t /\ at' = step /\ streams' = <<>> /\ header' = None /\ current' = None
    BY <2>1 DEF Return, Goto
  <2>3. DOMAIN streams' = {}
    BY <2>2
  <2> QED
    BY <2>1, <2>2, <2>3 DEF ReadingInv, Reading, Handling, Final
<1>3. AnswerInv'
  <2>1. <<>> \in Seq(Sending)
    BY EmptySeq
  <2>2. /\ candidates' = {} /\ timedOut' = FALSE /\ reached' = {} /\ outcomes' = result
        /\ response' = NoAnswer /\ remaining' = 0 /\ received' = <<>> /\ at' = step
    BY DEF Return, Goto
  <2> QED
    BY <2>1, <2>2 DEF AnswerInv, NoAnswer, Final
<1>4. at' \in Final
  BY DEF Return, Goto
<1> QED
  BY <1>1, <1>2, <1>3, <1>4 DEF TInv, StepInv

LEMMA FailKeeps == ASSUME TInv, Fail PROVE TInv' /\ StepInv'
<1>1. <<>> \in Seq(Streams)
  BY EmptySeq
<1> QED
  BY <1>1, ReturnKeeps DEF Fail, Final

LEMMA CloseKeeps == ASSUME TInv, Close PROVE TInv' /\ StepInv'
<1>1. outcomes \in Seq(Streams)
  BY DEF TInv, AnswerInv
<1> QED
  BY <1>1, ReturnKeeps DEF Close, Final

LEMMA StreamOfType == ASSUME TInv, NEW s \in Streams PROVE StreamOf(s) \in Stream
<1>1. <<>> \in Seq(Field) /\ <<>> \in Seq(Pieces)
  BY EmptySeq
<1> QED
  BY <1>1 DEF StreamOf, NewStream, Stream, TInv, ReadingInv

LEMMA StoreKeeps ==
    ASSUME TInv, NEW s \in Streams, NEW stream \in Stream, NEW endStream \in BOOLEAN,
           Store(s, stream, endStream)
    PROVE  /\ DOMAIN streams' \subseteq Streams /\ \A r \in DOMAIN streams' : streams'[r] \in Stream
           /\ at' \in {"request", "frames"}
           /\ current' \in {None} \cup CompleteRequest
           /\ current' = None <=> at' \notin Handling
<1>1. DOMAIN streams \subseteq Streams /\ \A r \in DOMAIN streams : streams[r] \in Stream
  BY DEF TInv, ReadingInv
<1>2. PICK d : /\ d = IF endStream THEN DOMAIN streams \ {s} ELSE DOMAIN streams \cup {s}
               /\ streams' = [r \in d |-> IF r = s THEN stream ELSE streams[r]]
  BY DEF Store
<1>3. DOMAIN streams' = d /\ d \subseteq Streams
  BY <1>1, <1>2
<1>4. ASSUME NEW r \in d PROVE streams'[r] \in Stream
  BY <1>1, <1>2
<1>5. CASE endStream
  <2>1. current' = [stream |-> s, headers |-> stream.headers, body |-> stream.body]
        /\ at' = "request"
    BY <1>5 DEF Store, Goto
  <2>2. current' \in CompleteRequest
    BY <2>1 DEF CompleteRequest, Stream
  <2> QED
    BY <1>3, <1>4, <2>1, <2>2, Constants DEF Handling
<1>6. CASE ~endStream
  <2>1. current' = None /\ at' = "frames"
    BY <1>6 DEF Store, Goto
  <2> QED
    BY <1>3, <1>4, <2>1 DEF Handling
<1> QED
  BY <1>5, <1>6

\* A request that is not complete yet, or waits to be answered.
LEMMA NothingAnswered ==
    ASSUME TInv, at \in Reading, at' \in Reading \cup {"request"}, UNCHANGED <<proxied, answer, log>>
    PROVE  AnswerInv'
<1>1. at \notin {"respond", "data"} /\ at' \notin {"respond", "data"}
  BY DEF Reading
<1>2. response = NoAnswer /\ remaining = 0
  BY <1>1 DEF TInv, AnswerInv
<1> QED
  BY <1>1, <1>2 DEF TInv, AnswerInv, proxied, answer, log

\* Decoding a block that is complete takes one step of decoding all there is.
LEMMA DecodedOn ==
    ASSUME NEW t \in FitTables, NEW e, NEW block \in Seq(Items), NEW rest \in Seq(Items),
           InStep(t, e, block \o rest)
    PROVE  /\ Decode(t, block).ok => /\ Decode(t, block).table \in FitTables
                                     /\ Decode(t, block).headers \in Seq(Field)
                                     /\ InStep(Decode(t, block).table, e, rest)
           /\ Decode(t, block).ok
<1>1. PICK t2 \in FitTables, h \in Seq(Field) : Decode(t, block \o rest) = Good(t2, h) /\ Matches(t2, e)
  BY DEF InStep
<1>2. Decode(t, block).ok
  <2> SUFFICES ASSUME ~Decode(t, block).ok PROVE FALSE
    OBVIOUS
  <2>1. Decode(t, block \o rest) = Decode(t, block)
    BY DecodeConcatBad
  <2>2. Good(t2, h).ok
    BY GoodIs
  <2> QED
    BY <1>1, <2>1, <2>2
<1>3. PICK t3 \in FitTables, g \in Seq(Field) :
        Decode(t, block) = Good(t3, g) \/ Decode(t, block) = Bad(t3, g)
  BY DecodeType, DecodingIs
<1>4. Decode(t, block) = Good(t3, g) /\ Good(t3, g).table = t3 /\ Good(t3, g).headers = g
  BY <1>2, <1>3, GoodIs, BadIs
<1>5. IsBehind(g, Decode(t3, rest), Decode(t, block \o rest))
  BY <1>4, DecodeConcat
<1>6. PICK t4 \in FitTables, f \in Seq(Field) :
        \/ Decode(t3, rest) = Good(t4, f) /\ Decode(t, block \o rest) = Good(t4, g \o f)
        \/ Decode(t3, rest) = Bad(t4, f) /\ Decode(t, block \o rest) = Bad(t4, g \o f)
  BY <1>5 DEF IsBehind
<1>7. Good(t2, h).ok /\ Good(t2, h).table = t2 /\ ~Bad(t4, g \o f).ok
      /\ Good(t4, g \o f).table = t4
  BY GoodIs, BadIs
<1>8. Decode(t3, rest) = Good(t4, f) /\ t4 = t2
  BY <1>1, <1>6, <1>7
<1>9. InStep(t3, e, rest)
  BY <1>1, <1>8 DEF InStep
<1> QED
  BY <1>2, <1>4, <1>9


LEMMA HeadersReadKeeps ==
    ASSUME TInv, StepInv, at \in Reading, wire # <<>>, NEW s \in Streams, NEW block \in Seq(Items),
           NEW endStream \in BOOLEAN, block = BlockOf(header) \o Written(Head(wire)),
           HeadersRead(s, block, endStream)
    PROVE  TInv' /\ StepInv'
<1>1. table \in FitTables /\ encoder \in Encoders /\ fragment \in {None} \cup HeaderBlock
  BY DEF TInv, ReadingInv, ClientInv
<1>2. PICK none \in Seq(Items) : none = <<>>
  BY EmptySeq
<1>3. PICK frames \in Seq(Frames) :
        /\ frames = Tail(wire)
        /\ Pending(header, wire, fragment) = Flow(block, frames) \o BlockOf(fragment)
  BY FrontPending
<1>4. PICK flow \in Seq(Items) : flow = Flow(none, frames)
  BY FlowType
<1>5. PICK end \in Seq(Items) : end = BlockOf(fragment)
  BY <1>1, BlockOfType
<1>6. Flow(block, frames) = block \o flow
  BY <1>2, <1>4, FlowConcat
<1>7. (block \o flow) \o end = block \o (flow \o end)
  OBVIOUS
<1>8. PICK rest \in Seq(Items) : rest = flow \o end
  BY ConcatProperties
<1>9. Pending(header, wire, fragment) = block \o rest
  BY <1>3, <1>5, <1>6, <1>7, <1>8
<1>10. InStep(table, encoder, block \o rest)
  BY <1>9 DEF StepInv, Reading, Final
<1>11. PICK t, e : t = table /\ e = encoder
  OBVIOUS
<1>12. /\ Decode(t, block).ok
       /\ Decode(t, block).table \in FitTables /\ Decode(t, block).headers \in Seq(Field)
       /\ InStep(Decode(t, block).table, e, rest)
  BY <1>1, <1>10, <1>11, DecodedOn
<1>13. PICK decoded : decoded = Decode(t, block)
  OBVIOUS
<1>14. /\ table' = decoded.table
       /\ header' = None
       /\ Store(s, [StreamOf(s) EXCEPT !.headers = decoded.headers], endStream)
       /\ Taken /\ UNCHANGED <<proxied, answer, log>>
  BY <1>11, <1>12, <1>13 DEF HeadersRead
<1>15. PICK stream \in Stream : stream = [StreamOf(s) EXCEPT !.headers = decoded.headers]
  <2>1. PICK before \in Stream : before = StreamOf(s)
    BY StreamOfType
  <2>2. PICK headers \in Seq(Field) : headers = decoded.headers
    BY <1>12, <1>13
  <2>3. [before EXCEPT !.headers = headers] \in Stream
    BY DEF Stream
  <2> QED
    BY <2>1, <2>2, <2>3
<1>16. /\ DOMAIN streams' \subseteq Streams /\ \A r \in DOMAIN streams' : streams'[r] \in Stream
       /\ at' \in {"request", "frames"}
       /\ current' \in {None} \cup CompleteRequest
       /\ current' = None <=> at' \notin Handling
  BY <1>14, <1>15, StoreKeeps
<1>17. ClientInv' /\ wire' = frames
  BY <1>3, <1>14, FrontTaken
<1>18. ReadingInv'
  BY <1>12, <1>13, <1>14, <1>16 DEF ReadingInv, Reading, Handling
<1>19. AnswerInv'
  BY <1>14, <1>16, NothingAnswered DEF Reading
<1>20. Pending(header', wire', fragment') = rest
  <2>1. fragment' = fragment
    BY <1>14 DEF Taken, sender
  <2>2. BlockOf(None) = none
    BY <1>2 DEF BlockOf
  <2>3. Pending(None, frames, fragment) = Flow(none, frames) \o BlockOf(fragment)
    BY <2>2 DEF Pending
  <2> QED
    BY <1>4, <1>5, <1>8, <1>14, <1>17, <2>1, <2>3
<1>21. encoder' = e
  BY <1>11, <1>14 DEF Taken, sender
<1>22. InStep(table', encoder', Pending(header', wire', fragment'))
  BY <1>12, <1>13, <1>14, <1>20, <1>21
<1> QED
  BY <1>17, <1>18, <1>19, <1>22 DEF TInv, StepInv

LEMMA HeadersWaitKeeps ==
    ASSUME TInv, StepInv, at \in Reading, wire # <<>>, NEW s \in Streams, NEW block \in Seq(Items),
           NEW endStream \in BOOLEAN, block = BlockOf(header) \o Written(Head(wire)),
           HeadersWait(s, block, endStream)
    PROVE  TInv' /\ StepInv'
<1>1. PICK waits \in HeaderBlock : waits = [stream |-> s, block |-> block, endStream |-> endStream]
  BY DEF HeaderBlock, Items
<1>2. /\ header' = waits /\ at' = "continuation" /\ Taken
      /\ UNCHANGED <<table, streams, current, proxied, answer, log>>
  BY <1>1 DEF HeadersWait, Goto
<1>3. ClientInv' /\ wire' = Tail(wire)
  BY <1>2, FrontTaken
<1>4. ReadingInv'
  BY <1>2, Constants DEF TInv, ReadingInv, Reading, Handling
<1>5. AnswerInv'
  BY <1>2, NothingAnswered DEF Reading
<1>6. Pending(header', wire', fragment') = Pending(header, wire, fragment)
  <2>1. BlockOf(waits) = block
    BY <1>1, Constants DEF BlockOf
  <2>2. Pending(waits, Tail(wire), fragment) = Flow(block, Tail(wire)) \o BlockOf(fragment)
    BY <2>1 DEF Pending
  <2>3. Pending(header, wire, fragment) = Flow(block, Tail(wire)) \o BlockOf(fragment)
    BY FrontPending
  <2>4. fragment' = fragment
    BY <1>2 DEF Taken, sender
  <2> QED
    BY <1>2, <1>3, <2>2, <2>3, <2>4
<1>7. table' = table /\ encoder' = encoder
  BY <1>2 DEF Taken, sender
<1>8. InStep(table', encoder', Pending(header', wire', fragment'))
  BY <1>6, <1>7 DEF StepInv, Reading, Final
<1> QED
  BY <1>3, <1>4, <1>5, <1>8 DEF TInv, StepInv

LEMMA ReadHeadersKeeps == ASSUME TInv, StepInv, ReadHeaders PROVE TInv' /\ StepInv'
<1>1. at = "frames" /\ at \in Reading /\ wire # <<>> /\ Head(wire).type = "headers"
  BY DEF ReadHeaders, Arrives, Reading
<1>2. PICK frame : frame = Head(wire)
  OBVIOUS
<1>3. frame \in Frames
  BY <1>1, <1>2 DEF TInv, ClientInv
<1>4. frame \in HeadersFrames
  BY <1>1, <1>2, <1>3 DEF Frames, HeadersFrames, ContinuationFrames, DataFrames, OtherFrames
<1>5. frame.stream \in Streams /\ frame.block \in Seq(Items) /\ frame.endStream \in BOOLEAN
      /\ Written(frame) = frame.block
  BY <1>4 DEF HeadersFrames, Written
<1>6. header = None
  BY <1>1 DEF TInv, ReadingInv
<1>7. PICK s \in Streams, block \in Seq(Items), endStream \in BOOLEAN :
        s = frame.stream /\ block = frame.block /\ endStream = frame.endStream
  BY <1>5
<1>8. block = BlockOf(header) \o Written(Head(wire))
  <2>1. <<>> \o block = block
    BY ConcatEmptySeq
  <2> QED
    BY <1>2, <1>5, <1>6, <1>7, <2>1 DEF BlockOf
<1>9. HeadersRead(s, block, endStream) \/ HeadersWait(s, block, endStream)
  BY <1>2, <1>7 DEF ReadHeaders
<1> QED
  BY <1>1, <1>8, <1>9, HeadersReadKeeps, HeadersWaitKeeps

LEMMA ReadContinuationKeeps == ASSUME TInv, StepInv, ReadContinuation PROVE TInv' /\ StepInv'
<1>1. at = "continuation" /\ at \in Reading /\ wire # <<>> /\ Head(wire).type = "continuation"
  BY DEF ReadContinuation, Arrives, Reading
<1>2. PICK frame : frame = Head(wire)
  OBVIOUS
<1>3. frame \in Frames
  BY <1>1, <1>2 DEF TInv, ClientInv
<1>4. frame \in ContinuationFrames
  BY <1>1, <1>2, <1>3 DEF Frames, HeadersFrames, ContinuationFrames, DataFrames, OtherFrames
<1>5. frame.block \in Seq(Items) /\ Written(frame) = frame.block
  BY <1>4 DEF ContinuationFrames, Written
<1>6. header \in HeaderBlock
  BY <1>1 DEF TInv, ReadingInv
<1>7. PICK s \in Streams, before \in Seq(Items), endStream \in BOOLEAN :
        s = header.stream /\ before = header.block /\ endStream = header.endStream
  BY <1>6 DEF HeaderBlock, Items
<1>8. PICK more \in Seq(Items) : more = frame.block
  BY <1>5
<1>9. PICK block \in Seq(Items) : block = before \o more
  BY ConcatProperties
<1>10. block = BlockOf(header) \o Written(Head(wire))
  BY <1>2, <1>5, <1>6, <1>7, <1>8, <1>9, Constants DEF BlockOf
<1>11. HeadersRead(s, block, endStream) \/ HeadersWait(s, block, endStream)
  BY <1>2, <1>7, <1>8, <1>9 DEF ReadContinuation
<1> QED
  BY <1>1, <1>10, <1>11, HeadersReadKeeps, HeadersWaitKeeps

\* A frame without any of a header block is read.
LEMMA PlainFrame ==
    ASSUME TInv, StepInv, at \in Reading, wire # <<>>, Written(Head(wire)) = <<>>, Taken,
           UNCHANGED <<table, header>>
    PROVE  ClientInv' /\ StepInv'
<1>1. PICK h, frames, rest : h = header /\ frames = wire /\ rest = fragment
  OBVIOUS
<1>2. PICK block \in Seq(Items) : block = BlockOf(h)
  BY <1>1, PendingType
<1>3. block \o <<>> = block
  BY ConcatEmptySeq
<1>4. Pending(header, wire, fragment) = Flow(block, Tail(wire)) \o BlockOf(fragment)
  <2>1. block = BlockOf(header) \o Written(Head(wire))
    BY <1>1, <1>2, <1>3
  <2> QED
    BY <2>1, FrontPending
<1>5. Pending(h, Tail(frames), rest) = Pending(h, frames, rest)
  BY <1>1, <1>2, <1>4 DEF Pending
<1>6. ClientInv' /\ wire' = Tail(wire)
  BY FrontTaken
<1>7. header' = h /\ wire' = Tail(frames) /\ fragment' = rest /\ table' = table /\ encoder' = encoder
  BY <1>1, <1>6 DEF Taken, sender
<1>8. InStep(table, encoder, Pending(h, frames, rest))
  BY <1>1 DEF StepInv, Reading, Final
<1>9. InStep(table', encoder', Pending(header', wire', fragment'))
  BY <1>5, <1>7, <1>8
<1> QED
  BY <1>6, <1>9 DEF StepInv

LEMMA ReadDataKeeps == ASSUME TInv, StepInv, ReadData PROVE TInv' /\ StepInv'
<1>1. at = "frames" /\ at \in Reading /\ wire # <<>> /\ Head(wire).type = "data"
      /\ Taken /\ UNCHANGED <<table, header, proxied, answer, log>>
  BY DEF ReadData, Arrives, Reading
<1>2. PICK frame : frame = Head(wire)
  OBVIOUS
<1>3. frame \in Frames
  BY <1>1, <1>2 DEF TInv, ClientInv
<1>4. frame \in DataFrames
  BY <1>1, <1>2, <1>3 DEF Frames, HeadersFrames, ContinuationFrames, DataFrames, OtherFrames
<1>5. PICK s \in Streams, data \in Seq(Pieces), endStream \in BOOLEAN :
        s = frame.stream /\ data = frame.data /\ endStream = frame.endStream
  BY <1>4 DEF DataFrames
<1>6. Written(Head(wire)) = <<>>
  BY <1>2, <1>4 DEF DataFrames, Written
<1>7. ClientInv' /\ StepInv'
  BY <1>1, <1>6, PlainFrame
<1>8. PICK stream \in Stream : stream = [StreamOf(s) EXCEPT !.body = @ \o data]
  <2>1. PICK before \in Stream : before = StreamOf(s)
    BY StreamOfType
  <2>2. PICK body \in Seq(Pieces) : body = before.body \o data
    <3>1. before.body \in Seq(Pieces)
      BY DEF Stream
    <3> QED
      BY <3>1, ConcatProperties
  <2>3. [before EXCEPT !.body = body] \in Stream
    BY DEF Stream
  <2>4. [before EXCEPT !.body = body] = [StreamOf(s) EXCEPT !.body = @ \o data]
    BY <2>1, <2>2
  <2> QED
    BY <2>3, <2>4
<1>9. Store(s, stream, endStream)
  BY <1>2, <1>5, <1>8 DEF ReadData
<1>10. /\ DOMAIN streams' \subseteq Streams /\ \A r \in DOMAIN streams' : streams'[r] \in Stream
       /\ at' \in {"request", "frames"}
       /\ current' \in {None} \cup CompleteRequest
       /\ current' = None <=> at' \notin Handling
  BY <1>9, StoreKeeps
<1>11. header = None /\ header' = None /\ table' \in FitTables
  BY <1>1 DEF TInv, ReadingInv
<1>12. ReadingInv'
  BY <1>10, <1>11 DEF ReadingInv, Reading, Handling
<1>13. AnswerInv'
  BY <1>1, <1>10, NothingAnswered DEF Reading
<1> QED
  BY <1>7, <1>12, <1>13 DEF TInv

LEMMA ReadOtherKeeps == ASSUME TInv, StepInv, ReadOther PROVE TInv' /\ StepInv'
<1>1. /\ at = "frames" /\ at \in Reading /\ wire # <<>> /\ Head(wire).type \in {"control", "ignored"}
      /\ Taken /\ UNCHANGED <<at, reading, current, proxied, answer, log>>
  BY DEF ReadOther, Arrives, Reading
<1>2. Written(Head(wire)) = <<>>
  BY <1>1 DEF Written
<1>3. UNCHANGED <<table, header>>
  BY <1>1 DEF reading
<1>4. ClientInv' /\ StepInv'
  BY <1>1, <1>2, <1>3, PlainFrame
<1> QED
  BY <1>1, <1>4, ClientOnly

LEMMA PrefaceKeeps == ASSUME TInv, StepInv, Preface PROVE TInv' /\ StepInv'
<1>1. at = "preface" /\ at' = "frames" /\ UNCHANGED <<sender, wire, reading, current, proxied, answer, log>>
  BY DEF Preface, Goto
<1>2. ClientInv' /\ ReadingInv'
  BY <1>1 DEF TInv, ClientInv, ReadingInv, sender, reading, Reading, Handling
<1>3. AnswerInv'
  BY <1>1, NothingAnswered DEF Reading
<1>4. StepInv'
  BY <1>1, TablesAlone DEF sender, reading, Final
<1> QED
  BY <1>2, <1>3, <1>4 DEF TInv


----------------------------------------------------------------------------
(* What the server does with a request.                                    *)

Ranges == {NoRange} \cup [first : Nat \cup {NoRange}, last : Nat \cup {NoRange}]

LEMMA PartInside ==
    ASSUME NEW range \in Ranges, range # NoRange, NEW size \in Nat, ParseByteRange(range, size) # NoRange
    PROVE  /\ ParseByteRange(range, size).first \in Nat /\ ParseByteRange(range, size).last \in Nat
           /\ ParseByteRange(range, size).first <= ParseByteRange(range, size).last
           /\ ParseByteRange(range, size).last < size
<1>1. PICK first \in Nat \cup {NoRange}, last \in Nat \cup {NoRange} :
        range = [first |-> first, last |-> last] /\ range.first = first /\ range.last = last
  BY DEF Ranges
<1>2. NoRange \notin Nat
  BY NoRangeAssumption
<1>3. size # 0
  BY DEF ParseByteRange
<1>4. CASE first = NoRange
  <2>1. last \in Nat /\ last # 0
    BY <1>1, <1>2, <1>3, <1>4 DEF ParseByteRange
  <2>2. ParseByteRange(range, size) =
          [first |-> IF last > size THEN 0 ELSE size - last, last |-> size - 1]
    BY <1>1, <1>2, <1>3, <1>4, <2>1 DEF ParseByteRange
  <2> QED
    BY <1>3, <2>1, <2>2
<1>5. CASE first # NoRange
  <2>1. first \in Nat
    BY <1>5
  <2>2. PICK end : end = LastWithin(last, size)
    OBVIOUS
  <2>3. end \in Nat /\ end < size
    BY <1>2, <1>3, <2>2 DEF LastWithin
  <2>4. first < size /\ end >= first
    BY <1>1, <1>3, <1>5, <2>1, <2>2, <2>3 DEF ParseByteRange
  <2>5. ParseByteRange(range, size) = [first |-> first, last |-> end]
    BY <1>1, <1>3, <1>5, <2>1, <2>2, <2>3, <2>4 DEF ParseByteRange
  <2> QED
    BY <2>1, <2>3, <2>4, <2>5
<1> QED
  BY <1>4, <1>5

LEMMA ContentResponseType ==
    ASSUME NEW range \in Ranges, NEW size \in Nat
    PROVE  ContentResponse(range, size) \in [status : {200, 206, 416}, length : Nat]
<1>1. CASE range = NoRange
  BY <1>1 DEF ContentResponse
<1>2. CASE range # NoRange /\ ParseByteRange(range, size) = NoRange
  BY <1>2 DEF ContentResponse
<1>3. CASE range # NoRange /\ ParseByteRange(range, size) # NoRange
  <2>1. PICK part : part = ParseByteRange(range, size)
    OBVIOUS
  <2>2. part.first \in Nat /\ part.last \in Nat /\ part.first <= part.last
    BY <1>3, <2>1, PartInside
  <2>3. part.last - part.first + 1 \in Nat
    BY <2>2
  <2>4. ContentResponse(range, size) = [status |-> 206, length |-> part.last - part.first + 1]
    BY <1>3, <2>1 DEF ContentResponse
  <2> QED
    BY <2>3, <2>4
<1> QED
  BY <1>1, <1>2, <1>3

LEMMA FileAnswerType ==
    ASSUME NEW asked \in Asked, NEW found, NEW read \in Lengths \cup {NoRange}
    PROVE  /\ FileAnswer(asked, found, read) \in [status : {200, 206, 304, 403, 404, 416}, length : Nat]
           /\ FileAnswer(asked, found, read).status \in {206, 416} =>
                /\ asked.range \in Ranges /\ read \in Nat
                /\ FileAnswer(asked, found, read) = ContentResponse(asked.range, read)
<1>1. asked.range \in Ranges /\ (read # NoRange => read \in Nat)
  BY AskedAssumption, LengthsAssumption DEF Ranges
<1>2. PICK a : a = FileAnswer(asked, found, read)
  OBVIOUS
<1>3. \/ a = [status |-> 404, length |-> 1] \/ a = [status |-> 403, length |-> 1]
      \/ a = [status |-> 304, length |-> 0]
      \/ read # NoRange /\ a = ContentResponse(asked.range, read)
  BY <1>2 DEF FileAnswer
<1>4. CASE read # NoRange /\ a = ContentResponse(asked.range, read)
  <2>1. a \in [status : {200, 206, 416}, length : Nat]
    BY <1>1, <1>4, ContentResponseType
  <2> QED
    BY <1>1, <1>2, <1>4, <2>1
<1>5. CASE a = [status |-> 404, length |-> 1] \/ a = [status |-> 403, length |-> 1]
           \/ a = [status |-> 304, length |-> 0]
  BY <1>2, <1>5
<1> QED
  BY <1>3, <1>4, <1>5

\* The Range header is kept with a partial response until it is sent.
FileInv ==
    /\ at # "respond" => file = NoFile
    /\ file.range # NoRange => /\ file.range \in Ranges /\ file.size \in Nat
                               /\ response.status \in {206, 416}
                               /\ response = ContentResponse(file.range, file.size)

\* A step between reading the request and having an answer.
LEMMA HandlingStep ==
    ASSUME TInv, StepInv, at \in Handling, at' \in Handling,
           UNCHANGED <<sender, wire, reading, current>>, AnswerInv'
    PROVE  TInv' /\ StepInv'
<1>1. ClientInv' /\ ReadingInv'
  BY DEF TInv, ClientInv, ReadingInv, sender, reading, Reading, Handling
<1>2. StepInv'
  BY TablesAlone DEF sender, reading, Handling, Final
<1> QED
  BY <1>1, <1>2 DEF TInv

LEMMA RespondKeeps ==
    ASSUME TInv, StepInv, NEW step \in {"request", "connect", "forward", "collect"}, Request(step),
           NEW status \in 100..599, NEW length \in Nat, Respond(status, length),
           candidates' \subseteq Upstreams, timedOut' \in BOOLEAN, reached' \subseteq Upstreams
    PROVE  TInv' /\ StepInv'
<1>1. /\ at = step /\ at' = "respond" /\ UNCHANGED <<sender, wire, reading, current, remaining, log>>
      /\ response' = [status |-> status, length |-> length]
  BY DEF Request, Respond, Goto
<1>2. response' \in [status : Nat, length : Nat] /\ response' # NoAnswer
  BY <1>1 DEF NoAnswer
<1>3. AnswerInv'
  BY <1>1, <1>2 DEF TInv, AnswerInv, log
<1> QED
  BY <1>1, <1>3, HandlingStep DEF Handling

\* A step on the way to an upstream.
LEMMA OnTheWay ==
    ASSUME TInv, StepInv, NEW step \in {"request", "connect", "forward", "collect"}, Request(step),
           at' \in {"request", "connect", "forward", "collect"}, UNCHANGED response,
           candidates' \subseteq Upstreams, timedOut' \in BOOLEAN, reached' \subseteq Upstreams
    PROVE  TInv' /\ StepInv'
<1>1. at = step /\ UNCHANGED <<sender, wire, reading, current, remaining, log>>
  BY DEF Request
<1>2. AnswerInv'
  BY <1>1 DEF TInv, AnswerInv, log
<1> QED
  BY <1>1, <1>2, HandlingStep DEF Handling

LEMMA LocalKeeps ==
    ASSUME TInv, StepInv, TooLarge \/ LocalAnswer \/ RefusePath
    PROVE  TInv' /\ StepInv'
<1>1. Request("request") /\ UNCHANGED <<proxied, file>>
      /\ (Respond(413, 1) \/ Respond(404, 1) \/ Respond(403, 1))
  BY DEF TooLarge, LocalAnswer, RefusePath
<1>2. candidates' \subseteq Upstreams /\ timedOut' \in BOOLEAN /\ reached' \subseteq Upstreams
  BY <1>1 DEF TInv, AnswerInv, proxied
<1>3. PICK status \in 100..599 : Respond(status, 1)
  BY <1>1
<1> QED
  BY <1>1, <1>2, <1>3, RespondKeeps

LEMMA ServeFileKeeps ==
    ASSUME TInv, StepInv, NEW asked \in Asked, NEW found \in Found,
           NEW read \in Lengths \cup {NoRange}, ServeFile(asked, found, read)
    PROVE  TInv' /\ StepInv'
<1>1. PICK status \in {200, 206, 304, 403, 404, 416}, length \in Nat :
        FileAnswer(asked, found, read) = [status |-> status, length |-> length]
  BY FileAnswerType
<1>2. Respond(status, length) /\ Request("request") /\ UNCHANGED proxied
  BY <1>1 DEF ServeFile, Respond
<1>3. candidates' \subseteq Upstreams /\ timedOut' \in BOOLEAN /\ reached' \subseteq Upstreams
  BY <1>2 DEF TInv, AnswerInv, proxied
<1>4. status \in 100..599
  OBVIOUS
<1> QED
  BY <1>2, <1>3, <1>4, RespondKeeps

LEMMA ProxyKeeps ==
    ASSUME TInv, StepInv, NEW upstreams \in {{}, Upstreams}, Proxy(upstreams)
    PROVE  TInv' /\ StepInv'
<1>1. Request("request") /\ at' = "connect" /\ UNCHANGED <<timedOut, reached, response>>
      /\ candidates' = upstreams
  BY DEF Proxy, Goto
<1>2. candidates' \subseteq Upstreams /\ timedOut' \in BOOLEAN /\ reached' \subseteq Upstreams
  BY <1>1 DEF TInv, AnswerInv
<1> QED
  BY <1>1, <1>2, OnTheWay

LEMMA ConnectKeeps ==
    ASSUME TInv, StepInv, NEW u \in Upstreams,
           Connect(u) \/ \E late \in BOOLEAN : ConnectFails(u, late)
    PROVE  TInv' /\ StepInv'
<1>1. /\ Request("connect") /\ at' \in {"forward", "connect"} /\ UNCHANGED <<reached, response>>
      /\ candidates' \in {{u}, candidates \ {u}} /\ timedOut' \in BOOLEAN
  <2>1. CASE Connect(u)
    BY <2>1 DEF Connect, Goto
  <2>2. ASSUME NEW late \in BOOLEAN, ConnectFails(u, late)
        PROVE  /\ Request("connect") /\ at' = "connect" /\ UNCHANGED <<reached, response>>
               /\ candidates' = candidates \ {u} /\ timedOut' \in BOOLEAN
    BY <2>2 DEF ConnectFails, Request
  <2> QED
    BY <2>1, <2>2
<1>2. candidates' \subseteq Upstreams /\ reached' \subseteq Upstreams
  BY <1>1 DEF TInv, AnswerInv
<1> QED
  BY <1>1, <1>2, OnTheWay

LEMMA NoUpstreamLeftKeeps == ASSUME TInv, StepInv, NoUpstreamLeft PROVE TInv' /\ StepInv'
<1>1. /\ Request("connect") /\ timedOut' = FALSE /\ UNCHANGED <<candidates, reached, file>>
      /\ (Respond(504, 1) \/ Respond(502, 1))
  BY DEF NoUpstreamLeft
<1>2. candidates' \subseteq Upstreams /\ timedOut' \in BOOLEAN /\ reached' \subseteq Upstreams
  BY <1>1 DEF TInv, AnswerInv
<1>3. PICK status \in 100..599 : Respond(status, 1)
  BY <1>1
<1> QED
  BY <1>1, <1>2, <1>3, RespondKeeps

LEMMA ForwardKeeps == ASSUME TInv, StepInv, Forward PROVE TInv' /\ StepInv'
<1>1. Request("forward") /\ reached' = reached \cup candidates /\ UNCHANGED <<candidates, timedOut, file>>
  BY DEF Forward
<1>2. candidates' \subseteq Upstreams /\ timedOut' \in BOOLEAN /\ reached' \subseteq Upstreams
  BY <1>1 DEF TInv, AnswerInv
<1>3. CASE at' = "collect" /\ UNCHANGED response
  BY <1>1, <1>2, <1>3, OnTheWay
<1>4. CASE Respond(504, 1)
  <2>1. 504 \in 100..599 /\ 1 \in Nat
    OBVIOUS
  <2> QED
    BY <1>1, <1>2, <1>4, <2>1, RespondKeeps
<1> QED
  BY <1>3, <1>4 DEF Forward, Goto

LEMMA CollectKeeps == ASSUME TInv, StepInv, Collect PROVE TInv' /\ StepInv'
<1>1. Request("collect") /\ UNCHANGED <<proxied, file>>
  BY DEF Collect
<1>2. candidates' \subseteq Upstreams /\ timedOut' \in BOOLEAN /\ reached' \subseteq Upstreams
  BY <1>1 DEF TInv, AnswerInv, proxied
<1>3. PICK status \in {200, 502, 504}, length \in Nat : Respond(status, length)
  BY LengthsAssumption DEF Collect
<1>4. status \in 100..599
  OBVIOUS
<1> QED
  BY <1>1, <1>2, <1>3, <1>4, RespondKeeps

\* A frame of the response is sent.
LEMMA SentType ==
    ASSUME TInv, at \in Handling, NEW frames \in Seq(Sending), NEW type \in {"headers", "data"},
           NEW length \in Nat, NEW endStream \in BOOLEAN, Sent(frames, type, length, endStream)
    PROVE  received' \in Seq(Sending)
<1>1. current \in CompleteRequest
  BY DEF TInv, ReadingInv
<1>2. current.stream \in Streams
  BY <1>1 DEF CompleteRequest
<1>3. PICK frame \in Sending :
        frame = [stream |-> current.stream, type |-> type, length |-> length, endStream |-> endStream]
  BY <1>2 DEF Sending
<1>4. received' = Append(frames, frame)
  BY <1>3 DEF Sent
<1> QED
  BY <1>4, AppendProperties

\* The last frame of a response is sent.
LEMMA DoneKeeps ==
    ASSUME TInv, StepInv, at \in Handling, Done, received' \in Seq(Sending), response' = NoAnswer,
           UNCHANGED <<sender, wire, reading>>
    PROVE  TInv' /\ StepInv'
<1>1. /\ outcomes' = Append(outcomes, current.stream) /\ current' = None /\ reached' = {}
      /\ candidates' = {} /\ remaining' = 0 /\ at' = "frames" /\ timedOut' = timedOut
  BY DEF Done, Goto
<1>2. current \in CompleteRequest
  BY DEF TInv, ReadingInv
<1>3. PICK s \in Streams : s = current.stream
  BY <1>2 DEF CompleteRequest
<1>4. outcomes' \in Seq(Streams)
  <2>1. outcomes \in Seq(Streams)
    BY DEF TInv, AnswerInv
  <2> QED
    BY <1>1, <1>3, <2>1, AppendProperties
<1>5. AnswerInv'
  BY <1>1, <1>4 DEF TInv, AnswerInv, NoAnswer
<1>6. header = None
  BY DEF TInv, ReadingInv, Handling
<1>7. ClientInv' /\ ReadingInv'
  BY <1>1, <1>6 DEF TInv, ClientInv, ReadingInv, sender, reading, Reading, Handling
<1>8. StepInv'
  BY TablesAlone DEF sender, reading, Handling, Final
<1> QED
  BY <1>5, <1>7, <1>8 DEF TInv

LEMMA ResponseHeadersKeeps == ASSUME TInv, StepInv, ResponseHeaders PROVE TInv' /\ StepInv'
<1>1. /\ at = "respond" /\ at \in Handling /\ response' = NoAnswer
      /\ UNCHANGED <<sender, wire, reading>>
      /\ Sent(<<>>, "headers", response.length, response.length = 0)
  BY DEF ResponseHeaders, Handling
<1>2. received' \in Seq(Sending)
  <2>1. PICK none \in Seq(Sending) : none = <<>>
    BY EmptySeq
  <2>2. PICK length \in Nat : length = response.length
    BY DEF TInv, AnswerInv
  <2>3. PICK endStream \in BOOLEAN : endStream = (length = 0)
    OBVIOUS
  <2>4. Sent(none, "headers", length, endStream)
    BY <1>1, <2>1, <2>2, <2>3
  <2> QED
    BY <1>1, <2>4, SentType
<1>3. CASE response.length = 0
  <2>1. Done
    BY <1>3 DEF ResponseHeaders
  <2> QED
    BY <1>1, <1>2, <2>1, DoneKeeps
<1>4. CASE response.length # 0
  <2>1. remaining' = response.length /\ at' = "data" /\ UNCHANGED <<outcomes, current, proxied>>
    BY <1>4 DEF ResponseHeaders, Goto
  <2>2. response.length \in Nat
    BY DEF TInv, AnswerInv
  <2>3. AnswerInv'
    BY <1>1, <1>2, <1>4, <2>1, <2>2 DEF TInv, AnswerInv, proxied, NoAnswer
  <2> QED
    BY <1>1, <2>1, <2>3, HandlingStep DEF Handling
<1> QED
  BY <1>3, <1>4

LEMMA ResponseDataKeeps == ASSUME TInv, StepInv, ResponseData PROVE TInv' /\ StepInv'
<1>1. at = "data" /\ at \in Handling /\ UNCHANGED <<sender, wire, reading, file, response>>
  BY DEF ResponseData, Handling
<1>2. remaining \in Nat /\ FrameSize \in Nat \ {0} /\ received \in Seq(Sending) /\ response = NoAnswer
  BY <1>1, Constants DEF TInv, AnswerInv
<1>3. CASE remaining > FrameSize
  <2>1. /\ Sent(received, "data", FrameSize, FALSE) /\ remaining' = remaining - FrameSize
        /\ UNCHANGED <<at, outcomes, current, proxied>>
    BY <1>3 DEF ResponseData
  <2>2. received' \in Seq(Sending)
    BY <1>1, <1>2, <2>1, SentType
  <2>3. remaining' \in Nat /\ remaining' # 0
    BY <1>2, <1>3, <2>1
  <2>4. AnswerInv'
    BY <1>1, <1>2, <2>1, <2>2, <2>3 DEF TInv, AnswerInv, proxied
  <2> QED
    BY <1>1, <2>1, <2>4, HandlingStep
<1>4. CASE ~(remaining > FrameSize)
  <2>1. Sent(received, "data", remaining, TRUE) /\ Done
    BY <1>4 DEF ResponseData
  <2>2. received' \in Seq(Sending)
    BY <1>1, <1>2, <2>1, SentType
  <2>3. response' = NoAnswer
    BY <1>1, <1>2
  <2> QED
    BY <1>1, <2>1, <2>2, <2>3, DoneKeeps
<1> QED
  BY <1>3, <1>4


----------------------------------------------------------------------------
(* All actions together.                                                   *)

LEMMA ClientKeeps == ASSUME TInv, StepInv, Client PROVE TInv' /\ StepInv'
<1>1. ASSUME NEW s \in Streams, OpenStream(s) \/ SendTrailers(s) \/ ResetStream(s)
      PROVE  TInv' /\ StepInv'
  BY <1>1, OpenStreamKeeps, SendTrailersKeeps, ResetStreamKeeps
<1>2. ASSUME NEW s \in Streams, NEW n \in {0, 1}, NEW endStream \in BOOLEAN, SendData(s, n, endStream)
      PROVE  TInv' /\ StepInv'
  BY <1>2, SendDataKeeps
<1>3. ASSUME NEW type \in {"control", "malformed"}, SendOther(type) PROVE TInv' /\ StepInv'
  BY <1>3, SendOtherKeeps
<1> QED
  BY <1>1, <1>2, <1>3, SendContinuationKeeps, SendGoawayKeeps, LeaveKeeps DEF Client

LEMMA LoopKeeps == ASSUME TInv, StepInv, Loop PROVE TInv' /\ StepInv'
<1>1. CASE ReadFails \/ ReadEnd \/ ReadGoaway
  BY <1>1, FailKeeps, CloseKeeps DEF ReadFails, ReadEnd, ReadGoaway
<1> QED
  BY <1>1, PrefaceKeeps, ReadHeadersKeeps, ReadContinuationKeeps, ReadDataKeeps, ReadOtherKeeps
     DEF Loop

LEMMA AnsweringKeeps == ASSUME TInv, StepInv, Answering PROVE TInv' /\ StepInv'
<1>1. CASE NoServer \/ WriteFails
  BY <1>1, FailKeeps DEF NoServer, WriteFails
<1>2. ASSUME NEW asked \in Asked, NEW found \in Found, NEW read \in Lengths \cup {NoRange},
             ServeFile(asked, found, read)
      PROVE  TInv' /\ StepInv'
  BY <1>2, ServeFileKeeps
<1> QED
  BY <1>1, <1>2, LocalKeeps, ResponseHeadersKeeps, ResponseDataKeeps DEF Answering

LEMMA ProxyingKeeps == ASSUME TInv, StepInv, Proxying PROVE TInv' /\ StepInv'
<1>1. CASE ForwardFails
  BY <1>1, FailKeeps DEF ForwardFails
<1>2. ASSUME NEW upstreams \in {{}, Upstreams}, Proxy(upstreams) PROVE TInv' /\ StepInv'
  BY <1>2, ProxyKeeps
<1>3. ASSUME NEW u \in Upstreams, Connect(u) \/ \E late \in BOOLEAN : ConnectFails(u, late)
      PROVE  TInv' /\ StepInv'
  BY <1>3, ConnectKeeps
<1> QED
  BY <1>1, <1>2, <1>3, NoUpstreamLeftKeeps, ForwardKeeps, CollectKeeps DEF Proxying

LEMMA NothingHappens == ASSUME TInv, StepInv, UNCHANGED vars PROVE TInv' /\ StepInv'
<1>1. UNCHANGED <<sender, wire, at, reading, current, proxied, answer, log>>
  BY DEF vars
<1>2. TInv'
  BY <1>1 DEF TInv, ClientInv, ReadingInv, AnswerInv, sender, reading, proxied, answer, log
<1>3. StepInv'
  BY <1>1 DEF StepInv, sender, reading
<1> QED
  BY <1>2, <1>3

LEMMA StepsKeep == TInv /\ StepInv /\ [Next]_vars => TInv' /\ StepInv'
<1> SUFFICES ASSUME TInv, StepInv, [Next]_vars PROVE TInv' /\ StepInv'
  OBVIOUS
<1> QED
  BY ClientKeeps, LoopKeeps, AnsweringKeeps, ProxyingKeeps, NothingHappens DEF Next

LEMMA TypesFollow == TInv => TypeOK
<1> SUFFICES ASSUME TInv PROVE TypeOK
  OBVIOUS
<1>1. client \in [Streams -> [at : {"idle", "open", "ended", "reset"}, fields : Seq(Field),
                              body : Seq(Pieces), trailers : BOOLEAN]]
      /\ completed \in Seq(Streams) /\ goaway \in BOOLEAN /\ gone \in BOOLEAN
      /\ Len(wire) <= InFlight
  BY DEF TInv, ClientInv, Outline
<1>2. encoder.dynamic \in Seq(Field) /\ encoder.max \in 0..TableSize
  BY DEF TInv, ClientInv, Encoders
<1>3. fragment # None => fragment.stream \in Streams /\ fragment.block # <<>>
  BY DEF TInv, ClientInv, HeaderBlock
<1>4. /\ table.dynamic \in Seq(Field) /\ table.size = SizeOf(table.dynamic)
      /\ table.size <= table.max /\ table.max \in 0..TableSize
  BY DEF TInv, ReadingInv, FitTables, Fits, Counted
<1>5. /\ at \in Reading \cup Handling \cup Final /\ DOMAIN streams \subseteq Streams
      /\ (header = None <=> at # "continuation") /\ (current = None <=> at \notin Handling)
  BY DEF TInv, ReadingInv
<1>6. /\ candidates \subseteq Upstreams /\ timedOut \in BOOLEAN /\ reached \subseteq Upstreams
      /\ response.length \in Nat /\ remaining \in Nat /\ outcomes \in Seq(Streams)
      /\ (response = NoAnswer <=> at # "respond") /\ (remaining = 0 <=> at # "data")
  BY DEF TInv, AnswerInv
<1>7. \A i \in DOMAIN received : received[i].stream \in Streams /\ received[i].length \in Nat
  <2>1. \A i \in DOMAIN received : received[i] \in Sending
    BY DEF TInv, AnswerInv
  <2> QED
    BY <2>1 DEF Sending
<1> QED
  BY <1>1, <1>2, <1>3, <1>4, <1>5, <1>6, <1>7 DEF TypeOK

\* The table that decoding what is outstanding leaves has the encoder's entries.
LEMMA InStepFollows == TInv /\ StepInv => TableInStep
<1> SUFFICES ASSUME StepInv, at \notin Final
             PROVE  Decode(table, Outstanding).ok
                    /\ Decode(table, Outstanding).table.dynamic = encoder.dynamic
  BY DEF TableInStep
<1>1. PICK t2 \in FitTables, h \in Seq(Field) :
        Decode(table, Outstanding) = Good(t2, h) /\ Matches(t2, encoder)
  BY OutstandingIs DEF StepInv, InStep
<1>2. Good(t2, h).ok /\ Good(t2, h).table = t2
  BY GoodIs
<1> QED
  BY <1>1, <1>2 DEF Matches

\* Of every connection, whatever the client sends and however long it lives: the
\* table's counted size is the sum of its entries and within the size allowed, a
\* header block waits only for a continuation, and an answer is kept only while
\* it is sent.
THEOREM Http2Types == Spec => []TypeOK
<1>1. Init => TInv /\ StepInv
  BY TInvInit, StepInvInit
<1>2. TInv /\ StepInv /\ [Next]_vars => TInv' /\ StepInv'
  BY StepsKeep
<1>3. TInv => TypeOK
  BY TypesFollow
<1> QED
  BY <1>1, <1>2, <1>3, PTL DEF Spec

\* Whatever the client's encoder adds, refers to and resizes, and over however
\* many frames its header blocks are split, between those of other streams,
\* HpackDecoder decodes all that is outstanding and then has the encoder's
\* entries: an index never means another field.
THEOREM TablesStayInStep == Spec => []TableInStep
<1>1. Init => TInv /\ StepInv
  BY TInvInit, StepInvInit
<1>2. TInv /\ StepInv /\ [Next]_vars => TInv' /\ StepInv'
  BY StepsKeep
<1>3. TInv /\ StepInv => TableInStep
  BY InStepFollows
<1> QED
  BY <1>1, <1>2, <1>3, PTL DEF Spec


----------------------------------------------------------------------------
(* Byte ranges.                                                            *)

LEMMA NoFileRange == NoFile.range = NoRange
  BY DEF NoFile

\* What remains of a response while nothing is being answered.
LEMMA FileInvInit == Init => FileInv
  BY NoFileRange DEF Init, FileInv

LEMMA FileKept ==
    ASSUME FileInv, at # "respond", at' # "respond", UNCHANGED file
    PROVE  FileInv'
  BY NoFileRange DEF FileInv

LEMMA FileDropped == ASSUME file' = NoFile PROVE FileInv'
<1>1. file'.range = NoRange
  BY NoFileRange
<1> QED
  BY <1>1 DEF FileInv

LEMMA ServeFileRange ==
    ASSUME NEW asked \in Asked, NEW found, NEW read \in Lengths \cup {NoRange},
           ServeFile(asked, found, read)
    PROVE  FileInv'
<1>1. PICK a : a = FileAnswer(asked, found, read)
  OBVIOUS
<1>2. response' = a /\ at' = "respond"
      /\ file' = IF a.status \in {206, 416} THEN [range |-> asked.range, size |-> read] ELSE NoFile
  BY <1>1 DEF ServeFile, Goto
<1>3. CASE a.status \in {206, 416}
  <2>1. asked.range \in Ranges /\ read \in Nat /\ a = ContentResponse(asked.range, read)
    BY <1>1, <1>3, FileAnswerType
  <2>2. file' = [range |-> asked.range, size |-> read]
    BY <1>2, <1>3
  <2>3. file'.range = asked.range /\ file'.size = read
    BY <2>2
  <2> QED
    BY <1>2, <1>3, <2>1, <2>3 DEF FileInv
<1>4. CASE a.status \notin {206, 416}
  BY <1>2, <1>4, FileDropped
<1> QED
  BY <1>3, <1>4

LEMMA FileInvClient == ASSUME FileInv, Client \/ UNCHANGED vars PROVE FileInv'
<1>1. UNCHANGED <<at, answer>>
  BY DEF Client, OpenStream, SendTrailers, SendContinuation, SendData, ResetStream, SendOther,
         SendGoaway, Leave, vars
<1> QED
  BY <1>1 DEF FileInv, answer

LEMMA FileInvFail == ASSUME Fail \/ Close PROVE FileInv'
  BY FileDropped DEF Fail, Close, Return

LEMMA FileInvReading ==
    ASSUME FileInv, NEW s, NEW block, NEW endStream, at \in Reading,
           HeadersRead(s, block, endStream) \/ HeadersWait(s, block, endStream)
    PROVE  FileInv'
<1>1. at # "respond"
  BY DEF Reading
<1>2. \/ Fail
      \/ UNCHANGED answer /\ at' \in {"request", "frames", "continuation"}
  BY DEF HeadersRead, HeadersWait, Store, Goto
<1> QED
  BY <1>1, <1>2, FileInvFail, FileKept DEF answer

LEMMA FileInvLoop == ASSUME FileInv, Loop PROVE FileInv'
<1>1. CASE ReadFails \/ ReadEnd \/ ReadGoaway
  BY <1>1, FileInvFail DEF ReadFails, ReadEnd, ReadGoaway
<1>2. CASE Preface \/ ReadData \/ ReadOther
  <2>1. at # "respond" /\ at' # "respond" /\ UNCHANGED file
    BY <1>2 DEF Preface, ReadData, ReadOther, Store, Goto, Arrives, answer
  <2> QED
    BY <2>1, FileKept
<1>3. CASE ReadHeaders
  <2>1. at \in Reading
    BY <1>3 DEF ReadHeaders, Arrives, Reading
  <2>2. \E s, block, endStream : HeadersRead(s, block, endStream) \/ HeadersWait(s, block, endStream)
    BY <1>3 DEF ReadHeaders
  <2> QED
    BY <2>1, <2>2, FileInvReading
<1>4. CASE ReadContinuation
  <2>1. at \in Reading
    BY <1>4 DEF ReadContinuation, Arrives, Reading
  <2>2. \E s, block, endStream : HeadersRead(s, block, endStream) \/ HeadersWait(s, block, endStream)
    BY <1>4 DEF ReadContinuation
  <2> QED
    BY <2>1, <2>2, FileInvReading
<1> QED
  BY <1>1, <1>2, <1>3, <1>4 DEF Loop

LEMMA FileInvHandling == ASSUME FileInv, Answering \/ Proxying PROVE FileInv'
<1>1. CASE NoServer \/ WriteFails \/ ForwardFails
  BY <1>1, FileInvFail DEF NoServer, WriteFails, ForwardFails
<1>2. CASE TooLarge \/ LocalAnswer \/ RefusePath \/ NoUpstreamLeft \/ Forward \/ Collect
           \/ (\E upstreams \in {{}, Upstreams} : Proxy(upstreams))
           \/ (\E u \in Upstreams : Connect(u) \/ \E late \in BOOLEAN : ConnectFails(u, late))
  <2>1. at # "respond" /\ UNCHANGED file
    BY <1>2 DEF TooLarge, LocalAnswer, RefusePath, NoUpstreamLeft, Forward, Collect, Proxy, Connect,
                ConnectFails, Request
  <2>2. file' = NoFile
    BY <2>1 DEF FileInv
  <2> QED
    BY <2>2, FileDropped
<1>3. CASE \E asked \in Asked, found \in Found, read \in Lengths \cup {NoRange} :
             ServeFile(asked, found, read)
  BY <1>3, ServeFileRange
<1>4. CASE ResponseHeaders
  BY <1>4, FileDropped DEF ResponseHeaders
<1>5. CASE ResponseData
  <2>1. at = "data" /\ UNCHANGED file
    BY <1>5 DEF ResponseData
  <2>2. file' = NoFile
    BY <2>1 DEF FileInv
  <2> QED
    BY <2>2, FileDropped
<1> QED
  BY <1>1, <1>2, <1>3, <1>4, <1>5 DEF Answering, Proxying

\* parse_byte_range finds the positions that are asked for, if there are any.
LEMMA PartIsWanted ==
    ASSUME NEW range \in Ranges, range # NoRange, NEW size \in Nat
    PROVE  /\ ParseByteRange(range, size) = NoRange <=> Wanted(range, size) = {}
           /\ ParseByteRange(range, size) # NoRange =>
                ParseByteRange(range, size).first..ParseByteRange(range, size).last
                  = Wanted(range, size)
<1>1. PICK first \in Nat \cup {NoRange}, last \in Nat \cup {NoRange} :
        range = [first |-> first, last |-> last] /\ range.first = first /\ range.last = last
  BY DEF Ranges
<1>2. NoRange \notin Nat /\ NoRange \notin [first : Nat, last : Nat]
  BY NoRangeAssumption
<1> DEFINE part == ParseByteRange(range, size)
           W == Wanted(range, size)
<1>3. \A p : p \in W <=> /\ p \in 0..(size - 1)
                         /\ IF first = NoRange THEN last # NoRange /\ p + last >= size
                            ELSE p >= first /\ (last = NoRange \/ p <= last)
  BY <1>1 DEF Wanted
<1>4. ASSUME part = NoRange PROVE W = {}
  <2> SUFFICES ASSUME NEW p \in W PROVE FALSE
    OBVIOUS
  <2>1. p \in 0..(size - 1)
    BY <1>3
  <2>2. size # 0 /\ p \in Nat /\ p < size
    BY <2>1
  <2>3. CASE first = NoRange
    <3>1. last \in Nat /\ p + last >= size
      BY <1>3, <2>3
    <3>2. last # 0
      BY <2>2, <3>1
    <3>3. part = [first |-> IF last > size THEN 0 ELSE size - last, last |-> size - 1]
      BY <1>1, <1>2, <2>2, <2>3, <3>1, <3>2 DEF ParseByteRange
    <3>4. part \in [first : Nat, last : Nat]
      BY <2>2, <3>1, <3>3
    <3> QED
      BY <1>2, <1>4, <3>4
  <2>4. CASE first # NoRange
    <3>1. first \in Nat /\ p >= first /\ (last = NoRange \/ p <= last)
      BY <1>3, <2>4
    <3>2. PICK end : end = LastWithin(last, size)
      OBVIOUS
    <3>3. end \in Nat /\ end >= first /\ first < size
      BY <1>2, <2>2, <3>1, <3>2 DEF LastWithin
    <3>4. part = [first |-> first, last |-> end]
      BY <1>1, <2>2, <2>4, <3>1, <3>2, <3>3 DEF ParseByteRange
    <3>5. part \in [first : Nat, last : Nat]
      BY <3>1, <3>3, <3>4
    <3> QED
      BY <1>2, <1>4, <3>5
  <2> QED
    BY <2>3, <2>4
<1>5. ASSUME part # NoRange PROVE part.first..part.last = W /\ W # {}
  <2>1. size # 0
    BY <1>5 DEF ParseByteRange
  <2>2. CASE first = NoRange
    <3>1. last \in Nat /\ last # 0
      BY <1>1, <1>5, <2>1, <2>2 DEF ParseByteRange
    <3>2. part = [first |-> IF last > size THEN 0 ELSE size - last, last |-> size - 1]
      BY <1>1, <1>2, <2>1, <2>2, <3>1 DEF ParseByteRange
    <3>3. part.last = size - 1 /\ part.first = IF last > size THEN 0 ELSE size - last
      BY <3>2
    <3>4. ASSUME NEW p PROVE p \in part.first..part.last <=> p \in W
      BY <1>2, <1>3, <2>1, <2>2, <3>1, <3>3
    <3>5. part.last \in part.first..part.last
      BY <2>1, <3>1, <3>3
    <3> QED
      BY <3>4, <3>5
  <2>3. CASE first # NoRange
    <3>1. first \in Nat
      BY <2>3
    <3>2. PICK end : end = LastWithin(last, size)
      OBVIOUS
    <3>3. end \in Nat /\ end < size /\ end = IF last = NoRange \/ last > size - 1 THEN size - 1 ELSE last
      BY <1>2, <2>1, <3>2 DEF LastWithin
    <3>0. end \in Nat /\ end < size
      BY <2>1, <3>3
    <3> HIDE DEF W
    <3>4. first < size /\ end >= first
      <4>1. ParseByteRange(range, size) # NoRange
        BY <1>5
      <4> HIDE DEF part
      <4> QED
        BY <1>1, <2>1, <2>3, <3>0, <3>1, <3>2, <4>1 DEF ParseByteRange
    <3>5. part = [first |-> first, last |-> end]
      <4>1. ParseByteRange(range, size) = [first |-> first, last |-> end]
        <5> HIDE DEF part
        <5> QED
          BY <1>1, <2>1, <2>3, <3>0, <3>1, <3>2, <3>4 DEF ParseByteRange
      <4> QED
        BY <4>1
    <3>6. part.first = first /\ part.last = end
      BY <3>5
    <3> HIDE DEF part, W
    <3>7. ASSUME NEW p PROVE p \in first..end <=> p \in W
      BY <1>2, <1>3, <2>1, <2>3, <3>1, <3>3
    <3>8. end \in first..end
      BY <3>1, <3>3, <3>4
    <3> QED
      BY <3>6, <3>7, <3>8
  <2> QED
    BY <2>2, <2>3
<1> QED
  BY <1>4, <1>5

LEMMA RangesFollow == FileInv => RangesInside
<1> SUFFICES ASSUME FileInv, at = "respond", file.range # NoRange
             PROVE  LET wanted == Wanted(file.range, file.size)
                    IN  IF wanted = {} THEN response.status = 416
                        ELSE /\ response.status = 206
                             /\ LET part == ParseByteRange(file.range, file.size)
                                IN  part.first..part.last = wanted
                                    /\ response.length = Cardinality(wanted)
  BY DEF RangesInside
<1>1. PICK range \in Ranges, size \in Nat :
        range = file.range /\ size = file.size /\ response = ContentResponse(range, size)
  BY DEF FileInv
<1>2. PICK part : part = ParseByteRange(range, size)
  OBVIOUS
<1>3. /\ part = NoRange <=> Wanted(range, size) = {}
      /\ part # NoRange => part.first..part.last = Wanted(range, size)
  BY <1>1, <1>2, PartIsWanted
<1>4. CASE part = NoRange
  <2>1. response.status = 416
    BY <1>1, <1>2, <1>4 DEF ContentResponse
  <2> QED
    BY <1>1, <1>3, <1>4, <2>1
<1>5. CASE part # NoRange
  <2>1. part.first \in Nat /\ part.last \in Nat /\ part.first <= part.last
    BY <1>1, <1>2, <1>5, PartInside
  <2>2. response = [status |-> 206, length |-> part.last - part.first + 1]
    BY <1>1, <1>2, <1>5 DEF ContentResponse
  <2>3. Cardinality(part.first..part.last) = part.last - part.first + 1
    <3>1. PICK a, b : a = part.first /\ b = part.last /\ a \in Int /\ b \in Int /\ ~(a > b)
      BY <2>1
    <3>2. Cardinality(a..b) = IF a > b THEN 0 ELSE b - a + 1
      BY <3>1, FS_Interval
    <3> QED
      BY <3>1, <3>2
  <2>4. response.status = 206 /\ response.length = part.last - part.first + 1
    BY <2>2
  <2> QED
    BY <1>1, <1>2, <1>3, <1>5, <2>3, <2>4
<1> QED
  BY <1>4, <1>5

\* For files and ranges of every size, suffix ranges and ranges that begin or end
\* behind the file: what build_file_response sends is what was asked for, and it
\* refuses a range (416) only if the file has none of its positions.
THEOREM RangesStayInside == Spec => []RangesInside
<1>1. FileInv /\ [Next]_vars => FileInv'
  BY FileInvClient, FileInvLoop, FileInvHandling DEF Next
<1>2. FileInv => RangesInside
  BY RangesFollow
<1> QED
  BY <1>1, <1>2, FileInvInit, PTL DEF Spec


----------------------------------------------------------------------------
(* The frames of a response.                                               *)

\* What the DATA frames of a response have carried up to each of its frames.
IsTotal(f, r) ==
    /\ f \in [1..Len(r) -> Nat]
    /\ \A i \in 1..Len(r) : f[i] = IF i = 1 THEN 0 ELSE f[i - 1] + r[i].length

WellSent(f, r) ==
    /\ r \in Seq(Sending)
    /\ IsTotal(f, r)
    /\ \A i \in 1..Len(r) :
         /\ r[i].stream = r[1].stream
         /\ r[i].type = IF i = 1 THEN "headers" ELSE "data"
         /\ i > 1 => r[i].length \in 1..FrameSize
         /\ r[i].endStream <=> f[i] = r[1].length
HasEnded(r) == r # <<>> /\ r[Len(r)].endStream

\* What has been sent and what remains make up what was announced.
SendingInv ==
    /\ \E f : /\ WellSent(f, received)
              /\ at = "data" => /\ received # <<>> /\ received[1].stream = current.stream
                                /\ f[Len(received)] + remaining = received[1].length
    /\ HasEnded(received) => outcomes # <<>> /\ outcomes[Len(outcomes)] = received[1].stream
    /\ at \in Reading => received = <<>> \/ HasEnded(received)

LEMMA NothingSent == \E f : WellSent(f, <<>>)
<1> DEFINE f == [i \in 1..0 |-> 0]
<1>1. <<>> \in Seq(Sending) /\ Len(<<>>) = 0
  BY EmptySeq
<1>2. \A i \in 1..Len(<<>>) : FALSE
  BY <1>1
<1>3. IsTotal(f, <<>>)
  BY <1>1, <1>2 DEF IsTotal
<1> HIDE DEF f
<1> QED
  BY <1>1, <1>2, <1>3 DEF WellSent

LEMMA FirstSent ==
    ASSUME NEW frame \in Sending, frame.type = "headers", frame.endStream <=> frame.length = 0
    PROVE  \E f : WellSent(f, <<frame>>) /\ f[Len(<<frame>>)] = 0
<1> DEFINE f == [i \in 1..1 |-> 0]
<1>1. <<frame>> \in Seq(Sending) /\ Len(<<frame>>) = 1 /\ <<frame>>[1] = frame
  OBVIOUS
<1>2. frame.length \in Nat /\ f[1] = 0
  BY DEF Sending
<1>3. f \in [1..1 -> Nat]
  OBVIOUS
<1> HIDE DEF f
<1>4. PICK r : r = <<frame>> /\ r \in Seq(Sending) /\ Len(r) = 1 /\ r[1] = frame
  BY <1>1
<1>5. IsTotal(f, r)
  BY <1>2, <1>3, <1>4 DEF IsTotal
<1>6. WellSent(f, r)
  BY <1>2, <1>4, <1>5 DEF WellSent
<1> QED
  BY <1>2, <1>4, <1>6

LEMMA MoreSent ==
    ASSUME NEW f, NEW r, WellSent(f, r), r # <<>>, NEW frame \in Sending, frame.type = "data",
           frame.stream = r[1].stream, frame.length \in 1..FrameSize,
           frame.endStream <=> f[Len(r)] + frame.length = r[1].length
    PROVE  \E g : /\ WellSent(g, Append(r, frame))
                  /\ g[Len(Append(r, frame))] = f[Len(r)] + frame.length
<1> DEFINE n == Len(r)
           more == Append(r, frame)
           g == [i \in 1..(n + 1) |-> IF i = n + 1 THEN f[n] + frame.length ELSE f[i]]
<1>1. r \in Seq(Sending) /\ IsTotal(f, r)
  BY DEF WellSent
<1>2. n \in Nat /\ n >= 1
  BY <1>1
<1>3. /\ more \in Seq(Sending) /\ Len(more) = n + 1 /\ more[n + 1] = frame
      /\ \A i \in 1..n : more[i] = r[i]
  BY <1>1, AppendProperties
<1>4. f \in [1..n -> Nat] /\ frame.length \in Nat
  BY <1>1 DEF IsTotal, Sending
<1>5. /\ g[n + 1] = f[n] + frame.length /\ \A i \in 1..n : g[i] = f[i]
      /\ g \in [1..(n + 1) -> Nat]
  BY <1>2, <1>4
<1>6. more[1] = r[1]
  BY <1>2, <1>3
<1> HIDE DEF g, more, n
<1>7. ASSUME NEW i \in 1..(n + 1) PROVE g[i] = IF i = 1 THEN 0 ELSE g[i - 1] + more[i].length
  <2>1. CASE i = n + 1
    <3>1. i # 1 /\ n \in 1..n /\ i - 1 = n
      BY <1>2, <2>1
    <3> QED
      BY <1>3, <1>5, <2>1, <3>1
  <2>2. CASE i # n + 1
    <3>1. i \in 1..n /\ (i # 1 => i - 1 \in 1..n)
      BY <1>2, <2>2
    <3>2. f[i] = IF i = 1 THEN 0 ELSE f[i - 1] + r[i].length
      BY <1>1, <3>1 DEF IsTotal, n
    <3> QED
      BY <1>3, <1>5, <3>1, <3>2
  <2> QED
    BY <2>1, <2>2
<1>8. IsTotal(g, more)
  BY <1>3, <1>5, <1>7 DEF IsTotal
<1>9. ASSUME NEW i \in 1..(n + 1)
      PROVE  /\ more[i].stream = more[1].stream
             /\ more[i].type = IF i = 1 THEN "headers" ELSE "data"
             /\ i > 1 => more[i].length \in 1..FrameSize
             /\ more[i].endStream <=> g[i] = more[1].length
  <2>1. CASE i = n + 1
    <3>1. i # 1
      BY <1>2, <2>1
    <3>2. more[i] = frame /\ g[i] = f[n] + frame.length
      BY <1>3, <1>5, <2>1
    <3> QED
      BY <1>6, <3>1, <3>2 DEF n
  <2>2. CASE i # n + 1
    <3>1. i \in 1..n
      BY <1>2, <2>2
    <3>2. /\ r[i].stream = r[1].stream
          /\ r[i].type = IF i = 1 THEN "headers" ELSE "data"
          /\ i > 1 => r[i].length \in 1..FrameSize
          /\ r[i].endStream <=> f[i] = r[1].length
      BY <3>1 DEF WellSent, n
    <3>3. more[i] = r[i] /\ g[i] = f[i]
      BY <1>3, <1>5, <3>1
    <3> QED
      BY <1>6, <3>2, <3>3
  <2> QED
    BY <2>1, <2>2
<1>10. WellSent(g, more)
  BY <1>3, <1>8, <1>9 DEF WellSent
<1> QED
  BY <1>3, <1>5, <1>10 DEF more, n

LEMMA SendingInvInit == Init => SendingInv
<1> SUFFICES ASSUME Init PROVE SendingInv
  OBVIOUS
<1>1. received = <<>> /\ at = "preface"
  BY DEF Init
<1>2. \E f : WellSent(f, received)
  BY <1>1, NothingSent
<1> QED
  BY <1>1, <1>2 DEF SendingInv, HasEnded

LEMMA SendingKept ==
    ASSUME SendingInv, UNCHANGED <<received, outcomes>>, at' \in Reading => at \in Reading,
           at' = "data" => at = "data" /\ UNCHANGED <<current, remaining>>
    PROVE  SendingInv'
<1>1. PICK f : /\ WellSent(f, received)
               /\ at = "data" => /\ received # <<>> /\ received[1].stream = current.stream
                                 /\ f[Len(received)] + remaining = received[1].length
  BY DEF SendingInv
<1>2. /\ HasEnded(received) => outcomes # <<>> /\ outcomes[Len(outcomes)] = received[1].stream
      /\ at \in Reading => received = <<>> \/ HasEnded(received)
  BY DEF SendingInv
<1>3. /\ WellSent(f, received')
      /\ at' = "data" => /\ received' # <<>> /\ received'[1].stream = current'.stream
                         /\ f[Len(received')] + remaining' = received'[1].length
  BY <1>1
<1>4. /\ HasEnded(received') => outcomes' # <<>> /\ outcomes'[Len(outcomes')] = received'[1].stream
      /\ at' \in Reading => received' = <<>> \/ HasEnded(received')
  BY <1>2
<1> QED
  BY <1>3, <1>4 DEF SendingInv

LEMMA SendingDropped == ASSUME Fail \/ Close PROVE SendingInv'
<1>1. received' = <<>> /\ at' \in Final
  BY DEF Fail, Close, Return, Goto, Final
<1>2. PICK f : WellSent(f, <<>>)
  BY NothingSent
<1>3. /\ WellSent(f, received')
      /\ at' = "data" => /\ received' # <<>> /\ received'[1].stream = current'.stream
                         /\ f[Len(received')] + remaining' = received'[1].length
  BY <1>1, <1>2 DEF Final
<1>4. ~HasEnded(received')
  BY <1>1 DEF HasEnded
<1> QED
  BY <1>1, <1>3, <1>4 DEF SendingInv

LEMMA HeadersSent == ASSUME TInv, ResponseHeaders PROVE SendingInv'
<1>1. at = "respond" /\ current \in CompleteRequest /\ response.length \in Nat
  BY DEF ResponseHeaders, TInv, ReadingInv, AnswerInv, Handling
<1>2. PICK s \in Streams, length \in Nat : s = current.stream /\ length = response.length
  BY <1>1 DEF CompleteRequest
<1>3. PICK frame \in Sending :
        /\ frame = [stream |-> s, type |-> "headers", length |-> length, endStream |-> length = 0]
        /\ frame.stream = s /\ frame.type = "headers" /\ frame.length = length
        /\ frame.endStream <=> length = 0
  <2>1. PICK endStream \in BOOLEAN : endStream <=> length = 0
    OBVIOUS
  <2>2. [stream |-> s, type |-> "headers", length |-> length, endStream |-> endStream] \in Sending
    BY DEF Sending
  <2>3. endStream = (length = 0)
    BY <2>1
  <2> QED
    BY <2>1, <2>2, <2>3
<1>4. received' = <<frame>>
  <2>1. received' = Append(<<>>, frame)
    BY <1>2, <1>3 DEF ResponseHeaders, Sent
  <2>2. Append(<<>>, frame) = <<frame>>
    OBVIOUS
  <2> QED
    BY <2>1, <2>2
<1>5. PICK f : WellSent(f, <<frame>>) /\ f[Len(<<frame>>)] = 0
  BY <1>3, FirstSent
<1>6. PICK r : r = <<frame>> /\ r # <<>> /\ Len(r) = 1 /\ r[1] = frame
  <2>1. <<frame>> # <<>> /\ Len(<<frame>>) = 1 /\ <<frame>>[1] = frame
    OBVIOUS
  <2>2. PICK r : r = <<frame>>
    OBVIOUS
  <2> QED
    BY <2>1, <2>2
<1>7. CASE length = 0
  <2>1. at' = "frames" /\ outcomes' = Append(outcomes, s)
    BY <1>2, <1>7 DEF ResponseHeaders, Done, Goto
  <2>2. outcomes \in Seq(Streams)
    BY DEF TInv, AnswerInv
  <2>3. outcomes' # <<>> /\ outcomes'[Len(outcomes')] = s
    BY <2>1, <2>2
  <2>4. HasEnded(r)
    BY <1>3, <1>6, <1>7 DEF HasEnded
  <2> QED
    BY <1>3, <1>4, <1>5, <1>6, <2>1, <2>3, <2>4 DEF SendingInv
<1>8. CASE length # 0
  <2>1. at' = "data" /\ remaining' = length /\ current' = current
    BY <1>2, <1>8 DEF ResponseHeaders, Goto
  <2>2. ~HasEnded(r)
    BY <1>3, <1>6, <1>8 DEF HasEnded
  <2>3. f[Len(received')] + remaining' = received'[1].length
    BY <1>2, <1>3, <1>4, <1>5, <1>6, <2>1
  <2>4. at' \notin Reading /\ received' # <<>> /\ received'[1].stream = current'.stream
    BY <1>2, <1>3, <1>4, <1>6, <2>1 DEF Reading
  <2> QED
    BY <1>4, <1>5, <1>6, <2>2, <2>3, <2>4 DEF SendingInv
<1> QED
  BY <1>7, <1>8

LEMMA DataSent == ASSUME TInv, SendingInv, ResponseData PROVE SendingInv'
<1>1. /\ at = "data" /\ current \in CompleteRequest /\ remaining \in Nat \ {0}
      /\ received \in Seq(Sending) /\ FrameSize \in Nat \ {0} /\ outcomes \in Seq(Streams)
  BY Constants DEF ResponseData, TInv, ReadingInv, AnswerInv, Handling
<1>2. PICK s \in Streams : s = current.stream
  BY <1>1 DEF CompleteRequest
<1>3. PICK f, r : /\ r = received /\ WellSent(f, r) /\ r # <<>> /\ r[1].stream = s
                  /\ f[Len(r)] + remaining = r[1].length
  BY <1>1, <1>2 DEF SendingInv
<1>4. PICK n, had, whole : /\ n = Len(r) /\ had = f[n] /\ whole = r[1].length
                           /\ n \in Nat /\ n >= 1 /\ had \in Nat /\ whole \in Nat
  <2>1. Len(r) \in Nat /\ Len(r) >= 1
    BY <1>1, <1>3
  <2>2. f[Len(r)] \in Nat /\ r[1] \in Sending
    BY <1>1, <1>3, <2>1 DEF WellSent, IsTotal
  <2> QED
    BY <2>1, <2>2 DEF Sending
<1>5. had + remaining = whole
  BY <1>3, <1>4
<1>6. CASE remaining > FrameSize
  <2>1. /\ Sent(received, "data", FrameSize, FALSE) /\ remaining' = remaining - FrameSize
        /\ UNCHANGED <<at, outcomes, current, proxied>>
    BY <1>6 DEF ResponseData
  <2>2. PICK frame \in Sending :
          /\ frame = [stream |-> s, type |-> "data", length |-> FrameSize, endStream |-> FALSE]
          /\ frame.stream = s /\ frame.type = "data" /\ frame.length = FrameSize
          /\ ~frame.endStream
    <3>1. [stream |-> s, type |-> "data", length |-> FrameSize, endStream |-> FALSE] \in Sending
      BY <1>1 DEF Sending
    <3> QED
      BY <3>1
  <2>3. received' = Append(r, frame)
    BY <1>2, <1>3, <2>1, <2>2 DEF Sent
  <2>4. had + FrameSize # whole /\ frame.length \in 1..FrameSize
    BY <1>1, <1>4, <1>5, <1>6, <2>2
  <2>5. PICK g : WellSent(g, Append(r, frame)) /\ g[Len(Append(r, frame))] = f[Len(r)] + frame.length
    BY <1>3, <1>4, <2>2, <2>4, MoreSent
  <2>6. PICK more : /\ more = Append(r, frame) /\ Len(more) = n + 1 /\ more[n + 1] = frame
                    /\ more[1] = r[1] /\ more # <<>>
    <3>1. Len(Append(r, frame)) = n + 1 /\ Append(r, frame)[n + 1] = frame
          /\ Append(r, frame)[1] = r[1]
      BY <1>1, <1>3, <1>4, AppendProperties
    <3>2. PICK more : more = Append(r, frame)
      OBVIOUS
    <3>3. Len(<<>>) = 0 /\ Len(more) # 0
      BY <1>4, <3>1, <3>2
    <3>4. more # <<>>
      BY <3>3
    <3> QED
      BY <3>1, <3>2, <3>4
  <2>7. ~HasEnded(more)
    BY <2>2, <2>6 DEF HasEnded
  <2>8. g[Len(more)] + (remaining - FrameSize) = whole
    BY <1>1, <1>4, <1>5, <1>6, <2>2, <2>5, <2>6
  <2>9. received' = more /\ at' = "data" /\ at' \notin Reading /\ remaining' = remaining - FrameSize
        /\ current'.stream = s
    BY <1>1, <1>2, <2>1, <2>3, <2>6 DEF Reading
  <2> QED
    BY <1>3, <1>4, <2>5, <2>6, <2>7, <2>8, <2>9 DEF SendingInv
<1>7. CASE ~(remaining > FrameSize)
  <2>1. Sent(received, "data", remaining, TRUE) /\ at' = "frames"
        /\ outcomes' = Append(outcomes, s)
    BY <1>2, <1>7 DEF ResponseData, Done, Goto
  <2>2. PICK frame \in Sending :
          /\ frame = [stream |-> s, type |-> "data", length |-> remaining, endStream |-> TRUE]
          /\ frame.stream = s /\ frame.type = "data" /\ frame.length = remaining
          /\ frame.endStream
    <3>1. [stream |-> s, type |-> "data", length |-> remaining, endStream |-> TRUE] \in Sending
      BY <1>1 DEF Sending
    <3> QED
      BY <3>1
  <2>3. received' = Append(r, frame)
    BY <1>2, <1>3, <2>1, <2>2 DEF Sent
  <2>4. frame.length \in 1..FrameSize
    BY <1>1, <1>7, <2>2
  <2>5. PICK g : WellSent(g, Append(r, frame))
    BY <1>3, <1>4, <1>5, <2>2, <2>4, MoreSent
  <2>6. PICK more : more = Append(r, frame) /\ more[1] = r[1]
    <3>1. Append(r, frame)[1] = r[1]
      BY <1>1, <1>3, <1>4, AppendProperties
    <3> QED
      BY <3>1
  <2>7. HasEnded(more)
    <3>1. Len(more) = n + 1 /\ more[n + 1] = frame
      BY <1>1, <1>3, <1>4, <2>6, AppendProperties
    <3>2. Len(<<>>) = 0 /\ Len(more) # 0
      BY <1>4, <3>1
    <3>3. more # <<>>
      BY <3>2
    <3> QED
      BY <2>2, <3>1, <3>3 DEF HasEnded
  <2>8. outcomes' # <<>> /\ outcomes'[Len(outcomes')] = s
    BY <1>1, <2>1
  <2> QED
    BY <1>3, <2>1, <2>3, <2>5, <2>6, <2>7, <2>8 DEF SendingInv
<1> QED
  BY <1>6, <1>7


LEMMA SendingInvClient == ASSUME SendingInv, Client \/ UNCHANGED vars PROVE SendingInv'
<1>1. UNCHANGED <<at, current, answer, log>>
  BY DEF Client, OpenStream, SendTrailers, SendContinuation, SendData, ResetStream, SendOther,
         SendGoaway, Leave, vars
<1> QED
  BY <1>1, SendingKept DEF answer, log

LEMMA SendingInvReading ==
    ASSUME SendingInv, NEW s, NEW block, NEW endStream, at \in Reading,
           HeadersRead(s, block, endStream) \/ HeadersWait(s, block, endStream)
    PROVE  SendingInv'
<1>1. \/ Fail
      \/ UNCHANGED log /\ at' \in {"request", "frames", "continuation"}
  BY DEF HeadersRead, HeadersWait, Store, Goto
<1> QED
  BY <1>1, SendingDropped, SendingKept DEF log

LEMMA SendingInvLoop == ASSUME SendingInv, Loop PROVE SendingInv'
<1>1. CASE ReadFails \/ ReadEnd \/ ReadGoaway
  BY <1>1, SendingDropped DEF ReadFails, ReadEnd, ReadGoaway
<1>2. CASE Preface \/ ReadData \/ ReadOther
  <2>1. at \in Reading /\ at' \in {"frames", "request"} /\ UNCHANGED log
    BY <1>2 DEF Preface, ReadData, ReadOther, Store, Goto, Arrives, Reading
  <2> QED
    BY <2>1, SendingKept DEF log
<1>3. CASE ReadHeaders
  <2>1. at \in Reading
    BY <1>3 DEF ReadHeaders, Arrives, Reading
  <2>2. \E s, block, endStream : HeadersRead(s, block, endStream) \/ HeadersWait(s, block, endStream)
    BY <1>3 DEF ReadHeaders
  <2> QED
    BY <2>1, <2>2, SendingInvReading
<1>4. CASE ReadContinuation
  <2>1. at \in Reading
    BY <1>4 DEF ReadContinuation, Arrives, Reading
  <2>2. \E s, block, endStream : HeadersRead(s, block, endStream) \/ HeadersWait(s, block, endStream)
    BY <1>4 DEF ReadContinuation
  <2> QED
    BY <2>1, <2>2, SendingInvReading
<1> QED
  BY <1>1, <1>2, <1>3, <1>4 DEF Loop

LEMMA SendingInvHandling == ASSUME TInv, SendingInv, Answering \/ Proxying PROVE SendingInv'
<1>1. CASE NoServer \/ WriteFails \/ ForwardFails
  BY <1>1, SendingDropped DEF NoServer, WriteFails, ForwardFails
<1>2. CASE TooLarge \/ LocalAnswer \/ RefusePath \/ NoUpstreamLeft \/ Forward \/ Collect
           \/ (\E asked \in Asked, found \in Found, read \in Lengths \cup {NoRange} :
                 ServeFile(asked, found, read))
           \/ (\E upstreams \in {{}, Upstreams} : Proxy(upstreams))
           \/ (\E u \in Upstreams : Connect(u) \/ \E late \in BOOLEAN : ConnectFails(u, late))
  <2>1. UNCHANGED log /\ at \in {"request", "connect", "forward", "collect"}
        /\ at' \in {"request", "connect", "forward", "collect", "respond"}
    BY <1>2 DEF TooLarge, LocalAnswer, RefusePath, NoUpstreamLeft, Forward, Collect, Proxy, Connect,
                ConnectFails, ServeFile, Request, Respond, Goto
  <2> QED
    BY <2>1, SendingKept DEF log, Reading
<1>3. CASE ResponseHeaders \/ ResponseData
  BY <1>3, HeadersSent, DataSent
<1> QED
  BY <1>1, <1>2, <1>3 DEF Answering, Proxying

\* What the property calls sum is the total of the invariant.
SumOf(r) == CHOOSE f : f = [i \in DOMAIN r |-> IF i = 1 THEN 0 ELSE f[i - 1] + r[i].length]

LEMMA SumIsTotal ==
    ASSUME NEW f, NEW r, r \in Seq(Sending), IsTotal(f, r)
    PROVE  \A i \in DOMAIN r : SumOf(r)[i] = f[i]
<1> DEFINE n == Len(r)
           g == SumOf(r)
           S == {i \in 0..n : i = 0 \/ f[i] = g[i]}
<1>1. n \in Nat /\ DOMAIN r = 1..n
  OBVIOUS
<1>2. f = [i \in DOMAIN r |-> IF i = 1 THEN 0 ELSE f[i - 1] + r[i].length]
  BY <1>1 DEF IsTotal
<1>3. g = [i \in DOMAIN r |-> IF i = 1 THEN 0 ELSE g[i - 1] + r[i].length]
  BY <1>2 DEF SumOf
<1> HIDE DEF g
<1>4. \A i \in 1..n : /\ f[i] = IF i = 1 THEN 0 ELSE f[i - 1] + r[i].length
                      /\ g[i] = IF i = 1 THEN 0 ELSE g[i - 1] + r[i].length
  BY <1>1, <1>2, <1>3
<1> HIDE DEF n
<1>5. 0 \in S
  BY <1>1
<1>6. ASSUME NEW i \in 0..n, i \in S, i < n PROVE i + 1 \in S
  <2>1. i + 1 \in 1..n /\ i + 1 \in 0..n /\ (i + 1) - 1 = i
    BY <1>1, <1>6
  <2>2. /\ f[i + 1] = IF i + 1 = 1 THEN 0 ELSE f[i] + r[i + 1].length
        /\ g[i + 1] = IF i + 1 = 1 THEN 0 ELSE g[i] + r[i + 1].length
    BY <1>4, <2>1
  <2>3. i = 0 \/ f[i] = g[i]
    BY <1>6
  <2>4. f[i + 1] = g[i + 1]
    BY <2>2, <2>3
  <2> QED
    BY <2>1, <2>4
<1> HIDE DEF S
<1>7. 0..n \subseteq S
  BY <1>1, <1>5, <1>6, IntervalInduction
<1>8. ASSUME NEW i \in DOMAIN r PROVE g[i] = f[i]
  <2>1. i \in 0..n /\ i # 0
    BY <1>1
  <2> QED
    BY <1>7, <2>1 DEF S
<1> QED
  BY <1>8 DEF g

LEMMA ResponsesFollow == TInv /\ SendingInv => ResponsesWellFormed
<1> SUFFICES ASSUME TInv, SendingInv PROVE ResponsesWellFormed
  OBVIOUS
<1>1. PICK f : WellSent(f, received)
  BY DEF SendingInv
<1>2. received \in Seq(Sending) /\ IsTotal(f, received) /\ DOMAIN received = 1..Len(received)
  BY <1>1 DEF WellSent
<1>3. \A i \in DOMAIN received : SumOf(received)[i] = f[i]
  BY <1>2, SumIsTotal
<1>4. ASSUME NEW i \in DOMAIN received
      PROVE  /\ received[i].stream = received[1].stream
             /\ received[i].type = IF i = 1 THEN "headers" ELSE "data"
             /\ i > 1 => received[i].length \in 1..FrameSize
             /\ received[i].endStream = (SumOf(received)[i] = received[1].length)
  <2>1. /\ received[i].stream = received[1].stream
        /\ received[i].type = IF i = 1 THEN "headers" ELSE "data"
        /\ i > 1 => received[i].length \in 1..FrameSize
        /\ received[i].endStream <=> f[i] = received[1].length
    BY <1>1, <1>2 DEF WellSent
  <2>2. PICK ends \in BOOLEAN : ends = received[i].endStream
    <3>1. received[i] \in Sending
      BY <1>2
    <3>2. received[i].endStream \in BOOLEAN
      BY <3>1 DEF Sending
    <3> QED
      BY <3>2
  <2>3. ends <=> SumOf(received)[i] = received[1].length
    BY <1>3, <2>1, <2>2
  <2>4. ends = (SumOf(received)[i] = received[1].length)
    BY <2>3
  <2> QED
    BY <2>1, <2>2, <2>4
<1>5. /\ HasEnded(received) => outcomes # <<>> /\ outcomes[Len(outcomes)] = received[1].stream
      /\ at \in Reading => received = <<>> \/ HasEnded(received)
  BY DEF SendingInv
<1> QED
  BY <1>4, <1>5 DEF ResponsesWellFormed, SumOf, HasEnded

\* Of responses of every length and frames of every size: what send_h2_response
\* sends is HEADERS and DATA of one stream, no frame is empty or too large, the
\* length that was announced is sent, the end is told with the last frame and
\* not before, and then there is an outcome for that stream.
THEOREM ResponsesAreWellFormed == Spec => []ResponsesWellFormed
<1>1. Init => TInv /\ StepInv /\ SendingInv
  BY TInvInit, StepInvInit, SendingInvInit
<1>2. TInv /\ SendingInv /\ [Next]_vars => SendingInv'
  BY SendingInvClient, SendingInvLoop, SendingInvHandling DEF Next
<1>3. TInv /\ StepInv /\ [Next]_vars => TInv' /\ StepInv'
  BY StepsKeep
<1>4. TInv /\ SendingInv => ResponsesWellFormed
  BY ResponsesFollow
<1> QED
  BY <1>1, <1>2, <1>3, <1>4, PTL DEF Spec

----------------------------------------------------------------------------
(* Reading ahead: what the server will have read of the frames on the wire,*)
(* if it reads them all and handles no request in between.                 *)

Stored(r, s, stream, endStream) ==
    [table |-> r.table, waits |-> None, over |-> r.over,
     streams |-> [r.streams EXCEPT ![s] = IF endStream THEN NewStream ELSE stream],
     last |-> IF endStream THEN [stream |-> s, headers |-> stream.headers, body |-> stream.body]
              ELSE None,
     ended |-> IF endStream THEN Append(r.ended, s) ELSE r.ended]
Waiting(r, block) ==
    [table |-> r.table, waits |-> block, over |-> r.over, streams |-> r.streams, last |-> None,
     ended |-> r.ended]
Passing(r, over) ==
    [table |-> r.table, waits |-> r.waits, over |-> over, streams |-> r.streams, last |-> None,
     ended |-> r.ended]
Decoding(r, block) ==
    [table |-> Decode(r.table, block).table, waits |-> r.waits, over |-> r.over,
     streams |-> r.streams, last |-> r.last, ended |-> r.ended]

\* A header block, or more of one; a piece of a body.
OnHeaders(r, s, block, endHeaders, endStream) ==
    IF endHeaders
    THEN Stored(Decoding(r, block), s,
                [headers |-> Decode(r.table, block).headers, body |-> r.streams[s].body], endStream)
    ELSE Waiting(r, [stream |-> s, block |-> block, endStream |-> endStream])
OnData(r, s, data, endStream) ==
    Stored(r, s, [headers |-> r.streams[s].headers, body |-> r.streams[s].body \o data], endStream)

ReadOn(r, frame) ==
    IF r.over THEN r
    ELSE IF frame.type = "headers"
      THEN OnHeaders(r, frame.stream, frame.block, frame.endHeaders, frame.endStream)
    ELSE IF frame.type = "continuation" /\ r.waits # None
      THEN OnHeaders(r, r.waits.stream, r.waits.block \o frame.block, frame.endHeaders,
                     r.waits.endStream)
    ELSE IF frame.type = "data" THEN OnData(r, frame.stream, frame.data, frame.endStream)
    ELSE Passing(r, frame.type = "goaway")

\* Where it begins.
Answered(o, c) == IF c = None THEN o ELSE Append(o, c.stream)
Reader == [table |-> table, waits |-> header, over |-> FALSE,
           streams |-> [s \in Streams |-> StreamOf(s)], last |-> current,
           ended |-> Answered(outcomes, current)]

\* A complete request is the one that the client c has sent on its stream.
Intact(c, q) ==
    /\ c[q.stream].at = "ended"
    /\ q.body = c[q.stream].body
    /\ c[q.stream].trailers \/ q.headers = c[q.stream].fields

\* When all is read, a stream is what the client has sent of it: but for its
\* header block if the rest of that is in the fragment.
Follows(stream, sent, partly) ==
    /\ sent.at = "idle" => stream = NewStream /\ sent.body = <<>> /\ ~sent.trailers
    /\ sent.at = "open" => ~sent.trailers /\ stream.body = sent.body
    /\ sent.at = "open" /\ ~partly => stream.headers = sent.fields
    /\ partly => stream.body = sent.body

\* And so is the header block that waits, with the rest that the client keeps.
BlockFollows(r, e, c, rest) ==
    IF rest = None THEN r.waits = None /\ Matches(r.table, e)
    ELSE /\ r.waits # None
         /\ r.waits.stream = rest.stream /\ r.waits.endStream = rest.endStream
         /\ c[rest.stream].at = Now(rest.endStream)
         /\ \E t2 \in FitTables, h \in Seq(Field) :
              /\ Decode(r.table, r.waits.block \o rest.block) = Good(t2, h) /\ Matches(t2, e)
              /\ c[rest.stream].trailers \/ h = c[rest.stream].fields

Partly(rest, s) == rest # None /\ rest.stream = s
InTouch(r, c, e, rest) ==
    /\ \A s \in Streams : Follows(r.streams[s], c[s], Partly(rest, s))
    /\ BlockFollows(r, e, c, rest)

Readers == [table : FitTables, waits : {None} \cup HeaderBlock, over : BOOLEAN,
            streams : [Streams -> Stream], last : {None} \cup CompleteRequest,
            ended : Seq(Streams)]

LEMMA NewStreamType == NewStream \in Stream /\ NewStream.body = <<>>
<1>1. <<>> \in Seq(Field) /\ <<>> \in Seq(Pieces)
  BY EmptySeq
<1> QED
  BY <1>1 DEF NewStream, Stream

LEMMA DecodeGives ==
    ASSUME NEW t \in FitTables, NEW block \in Seq(Items)
    PROVE  Decode(t, block).table \in FitTables /\ Decode(t, block).headers \in Seq(Field)
<1>1. PICK t2 \in FitTables, h \in Seq(Field) :
        Decode(t, block) = Good(t2, h) \/ Decode(t, block) = Bad(t2, h)
  BY DecodeType, DecodingIs
<1> QED
  BY <1>1, GoodIs, BadIs

LEMMA StoredIs ==
    ASSUME NEW r \in Readers, NEW s \in Streams, NEW stream \in Stream, NEW endStream \in BOOLEAN
    PROVE  /\ Stored(r, s, stream, endStream) \in Readers
           /\ Stored(r, s, stream, endStream).table = r.table
           /\ Stored(r, s, stream, endStream).waits = None
           /\ Stored(r, s, stream, endStream).over = r.over
           /\ \A q \in Streams : Stored(r, s, stream, endStream).streams[q] =
                IF q = s THEN (IF endStream THEN NewStream ELSE stream) ELSE r.streams[q]
           /\ Stored(r, s, stream, endStream).ended =
                IF endStream THEN Append(r.ended, s) ELSE r.ended
           /\ Stored(r, s, stream, endStream).last =
                IF endStream THEN [stream |-> s, headers |-> stream.headers, body |-> stream.body]
                ELSE None
<1>1. PICK x : x = Stored(r, s, stream, endStream)
  OBVIOUS
<1>2. PICK kept \in Stream : kept = IF endStream THEN NewStream ELSE stream
  BY NewStreamType
<1>3. PICK m \in [Streams -> Stream] : m = r.streams
  BY DEF Readers
<1>4. x.streams = [m EXCEPT ![s] = kept]
  BY <1>1, <1>2, <1>3 DEF Stored
<1>5. x.streams \in [Streams -> Stream]
      /\ \A q \in Streams : x.streams[q] = IF q = s THEN kept ELSE m[q]
  BY <1>4
<1>6. PICK e \in Seq(Streams) : e = r.ended
  BY DEF Readers
<1>7. PICK e2 \in Seq(Streams) : e2 = IF endStream THEN Append(e, s) ELSE e
  BY AppendProperties
<1>8. PICK c \in {None} \cup CompleteRequest :
        c = IF endStream THEN [stream |-> s, headers |-> stream.headers, body |-> stream.body]
            ELSE None
  <2>1. [stream |-> s, headers |-> stream.headers, body |-> stream.body] \in CompleteRequest
    BY DEF CompleteRequest, Stream
  <2> QED
    BY <2>1
<1>9. x = [table |-> r.table, waits |-> None, over |-> r.over,
           streams |-> [m EXCEPT ![s] = kept], last |-> c, ended |-> e2]
  BY <1>1, <1>2, <1>3, <1>6, <1>7, <1>8 DEF Stored
<1>10. r.table \in FitTables /\ r.over \in BOOLEAN /\ [m EXCEPT ![s] = kept] \in [Streams -> Stream]
  BY <1>4, <1>5 DEF Readers
<1>11. x \in Readers
  BY <1>9, <1>10 DEF Readers
<1>12. x.table = r.table /\ x.waits = None /\ x.over = r.over /\ x.ended = e2 /\ x.last = c
  BY <1>9
<1> QED
  BY <1>1, <1>2, <1>3, <1>5, <1>6, <1>7, <1>8, <1>11, <1>12

LEMMA WaitingIs ==
    ASSUME NEW r \in Readers, NEW block \in HeaderBlock
    PROVE  /\ Waiting(r, block) \in Readers
           /\ Waiting(r, block).table = r.table /\ Waiting(r, block).waits = block
           /\ Waiting(r, block).over = r.over /\ Waiting(r, block).streams = r.streams
           /\ Waiting(r, block).ended = r.ended /\ Waiting(r, block).last = None
  BY DEF Waiting, Readers

LEMMA PassingIs ==
    ASSUME NEW r \in Readers, NEW over \in BOOLEAN
    PROVE  /\ Passing(r, over) \in Readers
           /\ Passing(r, over).table = r.table /\ Passing(r, over).waits = r.waits
           /\ Passing(r, over).over = over /\ Passing(r, over).streams = r.streams
           /\ Passing(r, over).ended = r.ended /\ Passing(r, over).last = None
  BY DEF Passing, Readers

LEMMA DecodingOf ==
    ASSUME NEW r \in Readers, NEW block \in Seq(Items)
    PROVE  /\ Decoding(r, block) \in Readers
           /\ Decoding(r, block).table = Decode(r.table, block).table
           /\ Decoding(r, block).waits = r.waits
           /\ Decoding(r, block).over = r.over /\ Decoding(r, block).streams = r.streams
           /\ Decoding(r, block).ended = r.ended
<1>1. r.table \in FitTables
  BY DEF Readers
<1>2. PICK t \in FitTables : t = Decode(r.table, block).table
  BY <1>1, DecodeGives
<1>3. Decoding(r, block) = [table |-> t, waits |-> r.waits, over |-> r.over,
                            streams |-> r.streams, last |-> r.last, ended |-> r.ended]
  BY <1>2 DEF Decoding
<1> QED
  BY <1>2, <1>3 DEF Readers

\* What is read of a header block that is complete, and of one that is not.
BlockDone(x, r, s, block, endStream) ==
    \E stream \in Stream :
      /\ stream.headers = Decode(r.table, block).headers
      /\ stream.body = r.streams[s].body
      /\ x = Stored(Decoding(r, block), s, stream, endStream)
BlockWaits(x, r, s, block, endStream) ==
    \E h \in HeaderBlock :
      /\ h.stream = s /\ h.block = block /\ h.endStream = endStream
      /\ x = Waiting(r, h)
DataDone(x, r, s, data, endStream) ==
    \E stream \in Stream :
      /\ stream.headers = r.streams[s].headers
      /\ stream.body = r.streams[s].body \o data
      /\ x = Stored(r, s, stream, endStream)

LEMMA OnHeadersIs ==
    ASSUME NEW r \in Readers, NEW s \in Streams, NEW block \in Seq(Items),
           NEW endHeaders \in BOOLEAN, NEW endStream \in BOOLEAN
    PROVE  /\ OnHeaders(r, s, block, endHeaders, endStream) \in Readers
           /\ endHeaders =>
                BlockDone(OnHeaders(r, s, block, endHeaders, endStream), r, s, block, endStream)
           /\ ~endHeaders =>
                BlockWaits(OnHeaders(r, s, block, endHeaders, endStream), r, s, block, endStream)
<1>1. PICK x : x = OnHeaders(r, s, block, endHeaders, endStream)
  OBVIOUS
<1>2. r.table \in FitTables /\ r.streams[s] \in Stream
  BY DEF Readers
<1>3. PICK h \in Seq(Field), b \in Seq(Pieces) :
        h = Decode(r.table, block).headers /\ b = r.streams[s].body
  BY <1>2, DecodeGives DEF Stream
<1>4. PICK stream \in Stream : stream = [headers |-> h, body |-> b]
  BY DEF Stream
<1>5. PICK waits \in HeaderBlock : waits = [stream |-> s, block |-> block, endStream |-> endStream]
  BY DEF HeaderBlock, Items
<1>6. CASE endHeaders
  <2>1. x = Stored(Decoding(r, block), s, stream, endStream)
    BY <1>1, <1>3, <1>4, <1>6 DEF OnHeaders
  <2>2. Decoding(r, block) \in Readers
    BY DecodingOf
  <2>3. x \in Readers
    BY <2>1, <2>2, StoredIs
  <2>4. stream.headers = h /\ stream.body = b
    BY <1>4
  <2>5. BlockDone(x, r, s, block, endStream)
    BY <1>3, <2>1, <2>4 DEF BlockDone
  <2> QED
    BY <1>1, <1>6, <2>3, <2>5
<1>7. CASE ~endHeaders
  <2>1. x = Waiting(r, waits)
    BY <1>1, <1>5, <1>7 DEF OnHeaders
  <2>2. x \in Readers
    BY <2>1, WaitingIs
  <2>3. waits.stream = s /\ waits.block = block /\ waits.endStream = endStream
    BY <1>5
  <2>4. BlockWaits(x, r, s, block, endStream)
    BY <2>1, <2>3 DEF BlockWaits
  <2> QED
    BY <1>1, <1>7, <2>2, <2>4
<1> QED
  BY <1>6, <1>7

LEMMA OnDataIs ==
    ASSUME NEW r \in Readers, NEW s \in Streams, NEW data \in Seq(Pieces), NEW endStream \in BOOLEAN
    PROVE  /\ OnData(r, s, data, endStream) \in Readers
           /\ DataDone(OnData(r, s, data, endStream), r, s, data, endStream)
<1>1. r.streams[s] \in Stream
  BY DEF Readers
<1>2. PICK h \in Seq(Field), b \in Seq(Pieces) : h = r.streams[s].headers /\ b = r.streams[s].body
  BY <1>1 DEF Stream
<1>3. PICK body \in Seq(Pieces) : body = b \o data
  BY ConcatProperties
<1>4. PICK stream \in Stream : stream = [headers |-> h, body |-> body]
  BY DEF Stream
<1>5. stream.headers = h /\ stream.body = body
  BY <1>4
<1>6. OnData(r, s, data, endStream) = Stored(r, s, stream, endStream)
  BY <1>2, <1>3, <1>4 DEF OnData
<1>7. Stored(r, s, stream, endStream) \in Readers
  BY StoredIs
<1>8. stream.headers = r.streams[s].headers /\ stream.body = r.streams[s].body \o data
  BY <1>2, <1>3, <1>5
<1>9. DataDone(OnData(r, s, data, endStream), r, s, data, endStream)
  BY <1>6, <1>8 DEF DataDone
<1> QED
  BY <1>6, <1>7, <1>9

LEMMA ReadOnOver == ASSUME NEW r, r.over, NEW frame PROVE ReadOn(r, frame) = r
  BY DEF ReadOn

LEMMA ReadOnType ==
    ASSUME NEW r \in Readers, NEW frame \in Frames
    PROVE  ReadOn(r, frame) \in Readers
<1>1. CASE r.over
  BY <1>1, ReadOnOver
<1>2. CASE ~r.over /\ frame \in HeadersFrames
  <2>1. /\ frame.type = "headers" /\ frame.stream \in Streams /\ frame.block \in Seq(Items)
        /\ frame.endHeaders \in BOOLEAN /\ frame.endStream \in BOOLEAN
    BY <1>2 DEF HeadersFrames
  <2>2. ReadOn(r, frame) = OnHeaders(r, frame.stream, frame.block, frame.endHeaders, frame.endStream)
    BY <1>2, <2>1 DEF ReadOn
  <2> QED
    BY <2>1, <2>2, OnHeadersIs
<1>3. CASE ~r.over /\ frame \in ContinuationFrames /\ r.waits # None
  <2>1. /\ frame.type = "continuation" /\ frame.block \in Seq(Items) /\ frame.endHeaders \in BOOLEAN
    BY <1>3 DEF ContinuationFrames
  <2>2. r.waits \in HeaderBlock
    BY <1>3 DEF Readers
  <2>3. PICK s \in Streams, b \in Seq(Items), endStream \in BOOLEAN :
          s = r.waits.stream /\ b = r.waits.block /\ endStream = r.waits.endStream
    BY <2>2 DEF HeaderBlock, Items
  <2>4. PICK block \in Seq(Items) : block = b \o frame.block
    BY <2>1, ConcatProperties
  <2>5. ReadOn(r, frame) = OnHeaders(r, s, block, frame.endHeaders, endStream)
    BY <1>3, <2>1, <2>3, <2>4 DEF ReadOn
  <2> QED
    BY <2>1, <2>5, OnHeadersIs
<1>4. CASE ~r.over /\ frame \in DataFrames
  <2>1. /\ frame.type = "data" /\ frame.stream \in Streams /\ frame.data \in Seq(Pieces)
        /\ frame.endStream \in BOOLEAN
    BY <1>4 DEF DataFrames
  <2>2. ReadOn(r, frame) = OnData(r, frame.stream, frame.data, frame.endStream)
    BY <1>4, <2>1 DEF ReadOn
  <2> QED
    BY <2>1, <2>2, OnDataIs
<1>5. CASE ~r.over /\ (frame \in OtherFrames \/ (frame \in ContinuationFrames /\ r.waits = None))
  <2>1. frame.type \notin {"headers", "data"} /\ (frame.type = "continuation" => r.waits = None)
    BY <1>5 DEF OtherFrames, ContinuationFrames
  <2>2. ReadOn(r, frame) = Passing(r, frame.type = "goaway")
    BY <1>5, <2>1 DEF ReadOn
  <2> QED
    BY <2>2, PassingIs
<1>6. \/ frame \in HeadersFrames \/ frame \in ContinuationFrames
      \/ frame \in DataFrames \/ frame \in OtherFrames
  BY DEF Frames
<1>7. CASE ~r.over
  <2>1. CASE frame \in ContinuationFrames
    BY <1>3, <1>5, <1>7, <2>1
  <2>2. CASE frame \in OtherFrames
    BY <1>5, <1>7, <2>2
  <2>3. CASE frame \in HeadersFrames
    BY <1>2, <1>7, <2>3
  <2>4. CASE frame \in DataFrames
    BY <1>4, <1>7, <2>4
  <2> QED
    BY <1>6, <2>1, <2>2, <2>3, <2>4
<1> QED
  BY <1>1, <1>7

----------------------------------------------------------------------------
(* Runs over the frames on the wire.                                       *)

\* f has what is read of each number of them, from r.
IsRun(f, r, frames) ==
    /\ f \in [0..Len(frames) -> Readers]
    /\ f[0] = r
    /\ \A i \in 1..Len(frames) : f[i] = ReadOn(f[i - 1], frames[i])

LEMMA RunEmpty == ASSUME NEW r \in Readers PROVE \E f : IsRun(f, r, <<>>)
<1> DEFINE f == [i \in 0..0 |-> r]
<1>1. Len(<<>>) = 0
  OBVIOUS
<1>2. f \in [0..0 -> Readers] /\ f[0] = r
  OBVIOUS
<1> HIDE DEF f
<1>3. IsRun(f, r, <<>>)
  BY <1>1, <1>2 DEF IsRun
<1> QED
  BY <1>3

RunsOn(f, g, r, frames, frame) ==
    /\ IsRun(g, r, Append(frames, frame))
    /\ \A k \in 0..Len(frames) : g[k] = f[k]
    /\ g[Len(frames) + 1] = ReadOn(f[Len(frames)], frame)

LEMMA RunAppend ==
    ASSUME NEW f, NEW r, NEW frames \in Seq(Frames), IsRun(f, r, frames), NEW frame \in Frames
    PROVE  \E g : RunsOn(f, g, r, frames, frame)
<1> DEFINE n == Len(frames)
           all == Append(frames, frame)
           next == ReadOn(f[n], frame)
           g == [i \in 0..(n + 1) |-> IF i = n + 1 THEN next ELSE f[i]]
<1>1. n \in Nat /\ Len(all) = n + 1 /\ all[n + 1] = frame /\ \A i \in 1..n : all[i] = frames[i]
  BY AppendProperties
<1>2. /\ f \in [0..n -> Readers] /\ f[0] = r
      /\ \A i \in 1..n : f[i] = ReadOn(f[i - 1], frames[i])
  BY DEF IsRun
<1> HIDE DEF n, all
<1>3. next \in Readers
  BY <1>1, <1>2, ReadOnType
<1>4. next = ReadOn(f[n], frame)
  OBVIOUS
<1> HIDE DEF next
<1>5. g \in [0..(n + 1) -> Readers]
  BY <1>1, <1>2, <1>3
<1>6. \A k \in 0..n : g[k] = f[k]
  BY <1>1
<1>7. g[n + 1] = next
  BY <1>1
<1> HIDE DEF g
<1>8. ASSUME NEW i \in 1..(n + 1) PROVE g[i] = ReadOn(g[i - 1], all[i])
  <2>1. i - 1 \in 0..n /\ g[i - 1] = f[i - 1]
    BY <1>1, <1>6
  <2>2. CASE i = n + 1
    <3>1. i - 1 = n
      BY <1>1, <2>2
    <3> QED
      BY <1>1, <1>4, <1>7, <2>1, <2>2, <3>1
  <2>3. CASE i # n + 1
    <3>1. i \in 1..n /\ g[i] = f[i]
      BY <1>1, <1>6, <2>3
    <3> QED
      BY <1>1, <1>2, <2>1, <3>1
  <2> QED
    BY <2>2, <2>3
<1>9. g[0] = r
  BY <1>1, <1>2, <1>6
<1>10. IsRun(g, r, all)
  BY <1>1, <1>5, <1>8, <1>9 DEF IsRun
<1>11. RunsOn(f, g, r, frames, frame)
  BY <1>4, <1>6, <1>7, <1>10 DEF RunsOn, n, all
<1> QED
  BY <1>11

RunsFrom(f, g, r, frames) ==
    /\ IsRun(g, r, frames)
    /\ \A k \in 0..Len(frames) : g[k] = f[k + 1]

LEMMA RunTail ==
    ASSUME NEW f, NEW r, NEW frames \in Seq(Frames), IsRun(f, r, frames), frames # <<>>
    PROVE  /\ Tail(frames) \in Seq(Frames) /\ Len(frames) = Len(Tail(frames)) + 1
           /\ f[1] = ReadOn(r, Head(frames))
           /\ \E g : RunsFrom(f, g, ReadOn(r, Head(frames)), Tail(frames))
<1> DEFINE n == Len(frames)
           rest == Tail(frames)
           m == Len(rest)
           g == [i \in 0..m |-> f[i + 1]]
<1>1. /\ rest \in Seq(Frames) /\ m = n - 1 /\ n \in Nat \ {0} /\ m \in Nat
      /\ Head(frames) = frames[1] /\ \A i \in 1..m : rest[i] = frames[i + 1]
  BY HeadTailProperties
<1>2. /\ f \in [0..n -> Readers] /\ f[0] = r
      /\ \A i \in 1..n : f[i] = ReadOn(f[i - 1], frames[i])
  BY DEF IsRun
<1> HIDE DEF n, rest, m
<1>3. f[1] = ReadOn(r, Head(frames))
  <2>1. 1 \in 1..n /\ 1 - 1 = 0
    BY <1>1
  <2> QED
    BY <1>1, <1>2, <2>1
<1>4. g \in [0..m -> Readers]
  <2> SUFFICES ASSUME NEW i \in 0..m PROVE f[i + 1] \in Readers
    OBVIOUS
  <2>1. i + 1 \in 0..n
    BY <1>1
  <2> QED
    BY <1>2, <2>1
<1>5. g[0] = f[1]
  BY <1>1
<1>6. \A k \in 0..m : g[k] = f[k + 1]
  OBVIOUS
<1> HIDE DEF g
<1>7. ASSUME NEW i \in 1..m PROVE g[i] = ReadOn(g[i - 1], rest[i])
  <2>1. i - 1 \in 0..m /\ i \in 0..m /\ (i - 1) + 1 = i /\ i + 1 \in 1..n /\ (i + 1) - 1 = i
    BY <1>1
  <2>2. g[i] = f[i + 1] /\ g[i - 1] = f[i]
    BY <1>6, <2>1
  <2>3. f[i + 1] = ReadOn(f[i], frames[i + 1])
    BY <1>2, <2>1
  <2> QED
    BY <1>1, <2>2, <2>3
<1>8. IsRun(g, f[1], rest)
  BY <1>4, <1>5, <1>7 DEF IsRun, m
<1>9. RunsFrom(f, g, ReadOn(r, Head(frames)), rest)
  BY <1>3, <1>6, <1>8 DEF RunsFrom, m
<1> QED
  BY <1>1, <1>3, <1>9 DEF n, rest, m

\* The request that was read last is answered: it has no part in what follows.
RunsLike(f, g, r, frames) ==
    /\ IsRun(g, r, frames)
    /\ \A k \in 1..Len(frames) : g[k] = f[k]

LEMMA ReadOnPassing ==
    ASSUME NEW r \in Readers, ~r.over, NEW frame
    PROVE  ReadOn(Passing(r, FALSE), frame) = ReadOn(r, frame)
<1>1. PICK q : q = Passing(r, FALSE)
  OBVIOUS
<1>2. q.table = r.table /\ q.waits = r.waits /\ q.over = r.over /\ q.streams = r.streams
      /\ q.ended = r.ended
  <2>1. r.over = FALSE
    BY DEF Readers
  <2> QED
    BY <1>1, <2>1, PassingIs
<1>3. ASSUME NEW s, NEW block, NEW endHeaders, NEW endStream
      PROVE  OnHeaders(q, s, block, endHeaders, endStream) = OnHeaders(r, s, block, endHeaders, endStream)
  <2>1. PICK d : d = Decoding(q, block)
    OBVIOUS
  <2>2. PICK e : e = Decoding(r, block)
    OBVIOUS
  <2>3. /\ d.table = e.table /\ d.over = e.over /\ d.streams = e.streams /\ d.ended = e.ended
    BY <1>2, <2>1, <2>2 DEF Decoding
  <2>4. \A stream : Stored(d, s, stream, endStream) = Stored(e, s, stream, endStream)
    BY <2>3 DEF Stored
  <2>5. \A h : Waiting(q, h) = Waiting(r, h)
    BY <1>2 DEF Waiting
  <2> QED
    BY <1>2, <2>1, <2>2, <2>4, <2>5 DEF OnHeaders
<1>4. ASSUME NEW s, NEW data, NEW endStream
      PROVE  OnData(q, s, data, endStream) = OnData(r, s, data, endStream)
  <2>1. \A stream : Stored(q, s, stream, endStream) = Stored(r, s, stream, endStream)
    BY <1>2 DEF Stored
  <2> QED
    BY <1>2, <2>1 DEF OnData
<1>5. \A over : Passing(q, over) = Passing(r, over)
  BY <1>2 DEF Passing
<1>6. ~q.over
  BY <1>2
<1>7. CASE frame.type = "headers"
  BY <1>1, <1>3, <1>6, <1>7 DEF ReadOn
<1>8. CASE frame.type = "continuation"
  <2>1. CASE r.waits = None
    BY <1>1, <1>2, <1>5, <1>6, <1>8, <2>1 DEF ReadOn
  <2>2. CASE r.waits # None
    <3>1. PICK w : w = r.waits /\ w = q.waits
      BY <1>2
    <3>2. ReadOn(r, frame) = OnHeaders(r, w.stream, w.block \o frame.block, frame.endHeaders, w.endStream)
      BY <1>8, <2>2, <3>1 DEF ReadOn
    <3>3. ReadOn(q, frame) = OnHeaders(q, w.stream, w.block \o frame.block, frame.endHeaders, w.endStream)
      BY <1>6, <1>8, <2>2, <3>1 DEF ReadOn
    <3> QED
      BY <1>1, <1>3, <3>2, <3>3
  <2> QED
    BY <2>1, <2>2
<1>9. CASE frame.type = "data"
  BY <1>1, <1>4, <1>6, <1>9 DEF ReadOn
<1>10. CASE frame.type \notin {"headers", "continuation", "data"}
  BY <1>1, <1>5, <1>6, <1>10 DEF ReadOn
<1> QED
  BY <1>7, <1>8, <1>9, <1>10

LEMMA RunAnswered ==
    ASSUME NEW f, NEW r \in Readers, NEW frames \in Seq(Frames), IsRun(f, r, frames), ~r.over
    PROVE  \E g : RunsLike(f, g, Passing(r, FALSE), frames)
<1> DEFINE n == Len(frames)
           q == Passing(r, FALSE)
           g == [i \in 0..n |-> IF i = 0 THEN q ELSE f[i]]
<1>1. n \in Nat
  OBVIOUS
<1>2. /\ f \in [0..n -> Readers] /\ f[0] = r
      /\ \A i \in 1..n : f[i] = ReadOn(f[i - 1], frames[i])
  BY DEF IsRun
<1> HIDE DEF n
<1>3. q \in Readers
  BY PassingIs
<1>4. \A frame : ReadOn(q, frame) = ReadOn(r, frame)
  BY ReadOnPassing
<1> HIDE DEF q
<1>5. g \in [0..n -> Readers] /\ g[0] = q /\ \A k \in 1..n : g[k] = f[k]
  BY <1>1, <1>2, <1>3
<1> HIDE DEF g
<1>6. ASSUME NEW i \in 1..n PROVE g[i] = ReadOn(g[i - 1], frames[i])
  <2>1. g[i] = ReadOn(f[i - 1], frames[i])
    BY <1>2, <1>5
  <2>2. CASE i = 1
    <3>1. i - 1 = 0
      BY <2>2
    <3> QED
      BY <1>2, <1>4, <1>5, <2>1, <3>1
  <2>3. CASE i # 1
    <3>1. i - 1 \in 1..n
      BY <1>1, <2>3
    <3> QED
      BY <1>5, <2>1, <3>1
  <2> QED
    BY <2>2, <2>3
<1>7. IsRun(g, q, frames)
  BY <1>5, <1>6 DEF IsRun, n
<1>8. RunsLike(f, g, Passing(r, FALSE), frames)
  BY <1>5, <1>7 DEF RunsLike, n, q
<1> QED
  BY <1>8

\* Behind a GOAWAY nothing is read.
LEMMA RunOver ==
    ASSUME NEW f, NEW r, NEW frames \in Seq(Frames), IsRun(f, r, frames), frames # <<>>, f[1].over
    PROVE  f[Len(frames)] = f[1]
<1> DEFINE n == Len(frames)
           S == {i \in 1..n : f[i] = f[1]}
<1>1. n \in Nat \ {0}
  OBVIOUS
<1>2. \A i \in 1..n : f[i] = ReadOn(f[i - 1], frames[i])
  BY DEF IsRun
<1> HIDE DEF n
<1>3. 1 \in S
  BY <1>1
<1>4. ASSUME NEW i \in 1..n, i \in S, i < n PROVE i + 1 \in S
  <2>1. i + 1 \in 1..n /\ (i + 1) - 1 = i /\ f[i] = f[1]
    BY <1>1, <1>4
  <2>2. f[i + 1] = ReadOn(f[1], frames[i + 1])
    BY <1>2, <2>1
  <2>3. f[i + 1] = f[1]
    BY <2>2, ReadOnOver
  <2> QED
    BY <2>1, <2>3
<1> HIDE DEF S
<1>5. 1..n \subseteq S
  BY <1>1, <1>3, <1>4, IntervalInduction
<1>6. n \in S
  BY <1>1, <1>5
<1> QED
  BY <1>6 DEF S, n

\* What has ended stays so.
LEMMA ReadOnEnded ==
    ASSUME NEW r \in Readers, NEW frame \in Frames
    PROVE  ReadOn(r, frame).ended = r.ended \/ \E s \in Streams : ReadOn(r, frame).ended = Append(r.ended, s)
<1>1. PICK x : x = ReadOn(r, frame)
  OBVIOUS
<1>2. CASE r.over
  BY <1>1, <1>2, ReadOnOver
<1>3. ASSUME NEW s \in Streams, NEW block \in Seq(Items), NEW endHeaders \in BOOLEAN,
             NEW endStream \in BOOLEAN, x = OnHeaders(r, s, block, endHeaders, endStream)
      PROVE  x.ended = r.ended \/ x.ended = Append(r.ended, s)
  <2>1. CASE endHeaders
    <3>1. BlockDone(x, r, s, block, endStream)
      BY <1>3, <2>1, OnHeadersIs
    <3>2. PICK stream \in Stream : x = Stored(Decoding(r, block), s, stream, endStream)
      BY <3>1 DEF BlockDone
    <3>3. PICK d \in Readers : d = Decoding(r, block) /\ d.ended = r.ended
      BY DecodingOf
    <3>4. Stored(d, s, stream, endStream).ended = IF endStream THEN Append(d.ended, s) ELSE d.ended
      BY DEF Stored
    <3> QED
      BY <3>2, <3>3, <3>4
  <2>2. CASE ~endHeaders
    <3>1. BlockWaits(x, r, s, block, endStream)
      BY <1>3, <2>2, OnHeadersIs
    <3>2. PICK h \in HeaderBlock : x = Waiting(r, h)
      BY <3>1 DEF BlockWaits
    <3> QED
      BY <3>2, WaitingIs
  <2> QED
    BY <2>1, <2>2
<1>4. CASE ~r.over /\ frame \in HeadersFrames
  <2>1. /\ frame.type = "headers" /\ frame.stream \in Streams /\ frame.block \in Seq(Items)
        /\ frame.endHeaders \in BOOLEAN /\ frame.endStream \in BOOLEAN
    BY <1>4 DEF HeadersFrames
  <2>2. x = OnHeaders(r, frame.stream, frame.block, frame.endHeaders, frame.endStream)
    BY <1>1, <1>4, <2>1 DEF ReadOn
  <2> QED
    BY <1>1, <1>3, <2>1, <2>2
<1>5. CASE ~r.over /\ frame \in ContinuationFrames /\ r.waits # None
  <2>1. /\ frame.type = "continuation" /\ frame.block \in Seq(Items) /\ frame.endHeaders \in BOOLEAN
    BY <1>5 DEF ContinuationFrames
  <2>2. r.waits \in HeaderBlock
    BY <1>5 DEF Readers
  <2>3. PICK s \in Streams, b \in Seq(Items), endStream \in BOOLEAN :
          s = r.waits.stream /\ b = r.waits.block /\ endStream = r.waits.endStream
    BY <2>2 DEF HeaderBlock, Items
  <2>4. PICK block \in Seq(Items) : block = b \o frame.block
    BY <2>1, ConcatProperties
  <2>5. x = OnHeaders(r, s, block, frame.endHeaders, endStream)
    BY <1>1, <1>5, <2>1, <2>3, <2>4 DEF ReadOn
  <2> QED
    BY <1>1, <1>3, <2>1, <2>5
<1>6. CASE ~r.over /\ frame \in DataFrames
  <2>1. /\ frame.type = "data" /\ frame.stream \in Streams /\ frame.data \in Seq(Pieces)
        /\ frame.endStream \in BOOLEAN
    BY <1>6 DEF DataFrames
  <2>2. x = OnData(r, frame.stream, frame.data, frame.endStream)
    BY <1>1, <1>6, <2>1 DEF ReadOn
  <2>3. PICK stream \in Stream : x = Stored(r, frame.stream, stream, frame.endStream)
    BY <2>1, <2>2, OnDataIs DEF DataDone
  <2>4. PICK s \in Streams, endStream \in BOOLEAN : s = frame.stream /\ endStream = frame.endStream
    BY <2>1
  <2>5. Stored(r, s, stream, endStream).ended = IF endStream THEN Append(r.ended, s) ELSE r.ended
    BY DEF Stored
  <2>6. x.ended = r.ended \/ x.ended = Append(r.ended, s)
    BY <2>3, <2>4, <2>5
  <2> QED
    BY <1>1, <2>6
<1>7. CASE ~r.over /\ (frame \in OtherFrames \/ (frame \in ContinuationFrames /\ r.waits = None))
  <2>1. frame.type \notin {"headers", "data"} /\ (frame.type = "continuation" => r.waits = None)
    BY <1>7 DEF OtherFrames, ContinuationFrames
  <2>2. x = Passing(r, frame.type = "goaway")
    BY <1>1, <1>7, <2>1 DEF ReadOn
  <2>3. x.ended = r.ended
    BY <2>2, PassingIs
  <2> QED
    BY <1>1, <2>3
<1> QED
  BY <1>2, <1>4, <1>5, <1>6, <1>7 DEF Frames

LEMMA RunEnded ==
    ASSUME NEW f, NEW r, NEW frames \in Seq(Frames), IsRun(f, r, frames)
    PROVE  \E more \in Seq(Streams) : f[Len(frames)].ended = r.ended \o more
<1> DEFINE n == Len(frames)
           S == {i \in 0..n : \E more \in Seq(Streams) : f[i].ended = r.ended \o more}
<1>1. n \in Nat /\ \A i \in 1..n : frames[i] \in Frames
  OBVIOUS
<1>2. /\ f \in [0..n -> Readers] /\ f[0] = r
      /\ \A i \in 1..n : f[i] = ReadOn(f[i - 1], frames[i])
  BY DEF IsRun
<1> HIDE DEF n
<1>3. r.ended \in Seq(Streams)
  <2>1. r \in Readers
    BY <1>1, <1>2
  <2> QED
    BY <2>1 DEF Readers
<1>4. 0 \in S
  <2>1. <<>> \in Seq(Streams) /\ r.ended \o <<>> = r.ended
    BY <1>3, EmptySeq, ConcatEmptySeq
  <2>2. f[0].ended = r.ended \o <<>>
    BY <1>2, <2>1
  <2>3. \E more \in Seq(Streams) : f[0].ended = r.ended \o more
    BY <2>1, <2>2
  <2> QED
    BY <1>1, <2>3
<1>5. ASSUME NEW i \in 0..n, i \in S, i < n PROVE i + 1 \in S
  <2>1. i + 1 \in 1..n /\ (i + 1) - 1 = i /\ i + 1 \in 0..n
    BY <1>1, <1>5
  <2>2. PICK more \in Seq(Streams) : f[i].ended = r.ended \o more
    BY <1>5
  <2>3. f[i + 1] = ReadOn(f[i], frames[i + 1]) /\ f[i] \in Readers /\ frames[i + 1] \in Frames
    BY <1>1, <1>2, <2>1
  <2>4. CASE f[i + 1].ended = f[i].ended
    BY <2>1, <2>2, <2>4
  <2>5. ASSUME NEW s \in Streams, f[i + 1].ended = Append(f[i].ended, s)
        PROVE  i + 1 \in S
    <3>1. PICK e \in Seq(Streams) : e = r.ended
      BY <1>3
    <3>2. PICK one \in Seq(Streams) : one = <<s>>
      <4>1. <<s>> \in Seq(Streams)
        BY <2>5
      <4> QED
        BY <4>1
    <3>3. PICK longer \in Seq(Streams) : longer = more \o one
      BY ConcatProperties
    <3>4. (e \o more) \o one = e \o longer
      BY <3>3
    <3>5. Append(e \o more, s) = (e \o more) \o one
      BY <3>2
    <3>6. Append(e \o more, s) = e \o longer
      BY <3>4, <3>5
    <3>7. f[i + 1].ended = r.ended \o longer
      BY <2>2, <2>5, <3>1, <3>6
    <3> QED
      BY <2>1, <3>7
  <2> QED
    BY <2>3, <2>4, <2>5, ReadOnEnded
<1> HIDE DEF S
<1>6. 0..n \subseteq S
  BY <1>1, <1>4, <1>5, IntervalInduction
<1>7. n \in S
  BY <1>1, <1>6
<1> QED
  BY <1>7 DEF S, n

----------------------------------------------------------------------------
(* What the client sends.                                                  *)

\* A reader that is where the client is.
Ahead(r, c, e, rest, done, over) ==
    /\ r.last # None => Intact(c, r.last)
    /\ r.ended = done /\ r.over = over
    /\ ~over => InTouch(r, c, e, rest)

\* A run over what is on the wire meets complete requests only as they were sent,
\* and ends where the client is.
Foreseen(f, frames, c, e, rest, done, over) ==
    /\ \A k \in 0..Len(frames) : f[k].last # None => Intact(c, f[k].last)
    /\ Ahead(f[Len(frames)], c, e, rest, done, over)

FutureInv ==
    at \notin Final =>
      \E f : IsRun(f, Reader, wire) /\ Foreseen(f, wire, client, encoder, fragment, completed, goaway)

\* What has been completed is not changed.
Lasting(c, c2) == \A s \in Streams : c[s].at = "ended" => c2[s] = c[s]

LEMMA IntactLasts ==
    ASSUME NEW c, NEW c2, Lasting(c, c2), NEW q \in CompleteRequest, Intact(c, q)
    PROVE  Intact(c2, q)
<1>1. q.stream \in Streams
  BY DEF CompleteRequest
<1>2. c2[q.stream] = c[q.stream]
  BY <1>1 DEF Intact, Lasting
<1> QED
  BY <1>2 DEF Intact

\* One frame more.
LEMMA ForeseenOn ==
    ASSUME NEW r, NEW f, NEW frames \in Seq(Frames), IsRun(f, r, frames), NEW frame \in Frames,
           NEW c, NEW e, NEW rest, NEW done, NEW over,
           Foreseen(f, frames, c, e, rest, done, over),
           NEW c2, NEW e2, NEW rest2, NEW done2, NEW over2, Lasting(c, c2),
           \A x \in Readers : Ahead(x, c, e, rest, done, over) =>
                                Ahead(ReadOn(x, frame), c2, e2, rest2, done2, over2)
    PROVE  \E g : IsRun(g, r, Append(frames, frame))
                    /\ Foreseen(g, Append(frames, frame), c2, e2, rest2, done2, over2)
<1> DEFINE n == Len(frames)
<1>1. PICK g : RunsOn(f, g, r, frames, frame)
  BY RunAppend
<1>2. /\ IsRun(g, r, Append(frames, frame)) /\ Len(Append(frames, frame)) = n + 1 /\ n \in Nat
      /\ \A k \in 0..n : g[k] = f[k]
      /\ g[n + 1] = ReadOn(f[n], frame)
  BY <1>1, AppendProperties DEF RunsOn
<1>3. \A k \in 0..n : f[k] \in Readers
  BY DEF IsRun
<1>4. Ahead(f[n], c, e, rest, done, over)
  BY DEF Foreseen
<1>5. \A k \in 0..n : f[k].last # None => Intact(c, f[k].last)
  BY DEF Foreseen
<1> HIDE DEF n
<1>6. Ahead(g[n + 1], c2, e2, rest2, done2, over2)
  <2>1. f[n] \in Readers
    BY <1>2, <1>3
  <2> QED
    BY <1>2, <1>4, <2>1
<1>7. ASSUME NEW k \in 0..(n + 1), g[k].last # None PROVE Intact(c2, g[k].last)
  <2>1. CASE k = n + 1
    BY <1>6, <1>7, <2>1 DEF Ahead
  <2>2. CASE k # n + 1
    <3>1. k \in 0..n /\ g[k] = f[k]
      BY <1>2, <2>2
    <3>2. f[k].last \in CompleteRequest
      BY <1>3, <1>7, <3>1 DEF Readers
    <3>3. Intact(c, f[k].last)
      BY <1>5, <1>7, <3>1
    <3> QED
      BY <3>1, <3>2, <3>3, IntactLasts
  <2> QED
    BY <2>1, <2>2
<1>8. Foreseen(g, Append(frames, frame), c2, e2, rest2, done2, over2)
  BY <1>2, <1>6, <1>7 DEF Foreseen
<1> QED
  BY <1>2, <1>8

\* A frame is sent, and nothing read.
SentTo(frame, c2, e2, rest2, done2, over2) ==
    \A x \in Readers : Ahead(x, client, encoder, fragment, completed, goaway) =>
                         Ahead(ReadOn(x, frame), c2, e2, rest2, done2, over2)

LEMMA ReaderKept ==
    ASSUME UNCHANGED <<table, streams, header, current, outcomes>>
    PROVE  Reader' = Reader
  BY DEF Reader, StreamOf, NewStream, Answered

LEMMA SentFrame ==
    ASSUME TInv, FutureInv, at \in Reading, NEW frame \in Frames, Put(frame),
           UNCHANGED <<at, reading, current, log>>,
           NEW c2, NEW e2, NEW rest2, NEW done2, NEW over2,
           client' = c2, encoder' = e2, fragment' = rest2, completed' = done2, goaway' = over2,
           Lasting(client, c2), SentTo(frame, c2, e2, rest2, done2, over2)
    PROVE  FutureInv'
<1>1. PICK f : IsRun(f, Reader, wire) /\ Foreseen(f, wire, client, encoder, fragment, completed, goaway)
  BY DEF FutureInv, Reading, Final
<1>2. wire \in Seq(Frames)
  BY DEF TInv, ClientInv
<1>3. PICK r, frames, c, e, rest, done, over :
        r = Reader /\ frames = wire /\ c = client /\ e = encoder /\ rest = fragment
        /\ done = completed /\ over = goaway
  OBVIOUS
<1>4. \E g : IsRun(g, r, Append(frames, frame))
               /\ Foreseen(g, Append(frames, frame), c2, e2, rest2, done2, over2)
  BY <1>1, <1>2, <1>3, ForeseenOn DEF SentTo
<1>5. Reader' = r /\ wire' = Append(frames, frame)
  BY <1>3, ReaderKept DEF Put, reading, log
<1>6. \E g : IsRun(g, Reader', wire')
               /\ Foreseen(g, wire', client', encoder', fragment', completed', goaway')
  BY <1>4, <1>5
<1> QED
  BY <1>6 DEF FutureInv

\* Behind a GOAWAY nothing matters but what has been completed.
LEMMA SentBehind ==
    ASSUME NEW frame, goaway = TRUE, NEW c2, NEW e2, NEW rest2, Lasting(client, c2)
    PROVE  SentTo(frame, c2, e2, rest2, completed, goaway)
<1> SUFFICES ASSUME NEW x \in Readers, Ahead(x, client, encoder, fragment, completed, goaway)
             PROVE  Ahead(ReadOn(x, frame), c2, e2, rest2, completed, goaway)
  BY DEF SentTo
<1>1. x.over /\ x.ended = completed /\ (x.last # None => Intact(client, x.last))
  BY DEF Ahead
<1>2. ReadOn(x, frame) = x
  BY <1>1, ReadOnOver
<1>3. x.last # None => x.last \in CompleteRequest
  BY DEF Readers
<1>4. x.last # None => Intact(c2, x.last)
  BY <1>1, <1>3, IntactLasts
<1> QED
  BY <1>1, <1>2, <1>4 DEF Ahead

\* A part of a header block, whose end is this or is kept.
LEMMA BlockSent ==
    ASSUME NEW x \in Readers, ~x.over, NEW s \in Streams, NEW block \in Seq(Items),
           NEW whole \in Seq(Items), NEW h \in Seq(Field), NEW t2, NEW e2,
           Decode(x.table, whole) = Good(t2, h), Matches(t2, e2),
           NEW endHeaders \in BOOLEAN, NEW endStream \in BOOLEAN,
           NEW left \in {None} \cup HeaderBlock,
           endHeaders => left = None /\ block = whole,
           ~endHeaders => left # None /\ left.stream = s /\ left.endStream = endStream
                            /\ block \o left.block = whole,
           NEW c2, c2[s].at = Now(endStream), c2[s].body = x.streams[s].body,
           c2[s].trailers \/ h = c2[s].fields,
           c2[s].at = "open" => ~c2[s].trailers,
           \A q \in Streams \ {s} : Follows(x.streams[q], c2[q], FALSE),
           NEW done2, done2 = IF endHeaders /\ endStream THEN Append(x.ended, s) ELSE x.ended
    PROVE  Ahead(OnHeaders(x, s, block, endHeaders, endStream), c2, e2, left, done2, FALSE)
<1>1. PICK y \in Readers : y = OnHeaders(x, s, block, endHeaders, endStream)
  BY OnHeadersIs
<1>2. x.over = FALSE /\ t2 \in FitTables
  BY DEF Readers, Matches
<1>3. CASE endHeaders
  <2>1. BlockDone(y, x, s, block, endStream)
    BY <1>1, <1>3, OnHeadersIs
  <2>2. PICK stream \in Stream :
          /\ stream.headers = Decode(x.table, block).headers
          /\ stream.body = x.streams[s].body
          /\ y = Stored(Decoding(x, block), s, stream, endStream)
    BY <2>1 DEF BlockDone
  <2>3. Decode(x.table, block).headers = h /\ Decode(x.table, block).table = t2
    BY <1>3, GoodIs
  <2>4. PICK d \in Readers : d = Decoding(x, block) /\ d.table = t2 /\ d.over = x.over
                             /\ d.streams = x.streams /\ d.ended = x.ended
    BY <2>3, DecodingOf
  <2>5. y = Stored(d, s, stream, endStream)
    BY <2>2, <2>4
  <2>6. y.table = t2 /\ y.waits = None /\ y.over = FALSE
    BY <1>2, <2>4, <2>5 DEF Stored
  <2>7. /\ y.ended = done2
        /\ y.last = IF endStream THEN [stream |-> s, headers |-> stream.headers, body |-> stream.body]
                    ELSE None
    BY <1>3, <2>4, <2>5 DEF Stored
  <2>8. \A q \in Streams : y.streams[q] = IF q = s THEN (IF endStream THEN NewStream ELSE stream)
                                          ELSE x.streams[q]
    <3>1. PICK m \in [Streams -> Stream] : m = x.streams
      BY DEF Readers
    <3>2. y.streams = [m EXCEPT ![s] = IF endStream THEN NewStream ELSE stream]
      BY <2>4, <2>5, <3>1 DEF Stored
    <3> QED
      BY <3>1, <3>2
  <2>9. y.last # None => Intact(c2, y.last)
    <3> SUFFICES ASSUME endStream
                 PROVE  Intact(c2, y.last)
      BY <2>7
    <3>1. y.last.stream = s /\ y.last.headers = h /\ y.last.body = x.streams[s].body
      <4>1. y.last = [stream |-> s, headers |-> stream.headers, body |-> stream.body]
        BY <2>7
      <4>2. y.last = [stream |-> s, headers |-> h, body |-> x.streams[s].body]
        BY <1>3, <2>2, <2>3, <4>1
      <4> QED
        BY <4>2
    <3>2. c2[s].at = "ended"
      BY DEF Now
    <3> QED
      BY <3>1, <3>2 DEF Intact
  <2>10. left = None
    BY <1>3
  <2>11. ASSUME NEW q \in Streams PROVE Follows(y.streams[q], c2[q], Partly(left, q))
    <3>0. Partly(left, q) = FALSE
      BY <2>10 DEF Partly
    <3>1. CASE q # s
      BY <2>8, <3>0, <3>1
    <3>2. CASE q = s /\ endStream
      <4>1. c2[s].at = "ended"
        BY <3>2 DEF Now
      <4> QED
        BY <3>0, <3>2, <4>1 DEF Follows
    <3>3. CASE q = s /\ ~endStream
      <4>1. c2[s].at = "open"
        BY <3>3 DEF Now
      <4>2. y.streams[s] = stream /\ stream.headers = h
        BY <2>2, <2>3, <2>8, <3>3
      <4> QED
        BY <2>2, <3>0, <3>3, <4>1, <4>2 DEF Follows
    <3> QED
      BY <3>1, <3>2, <3>3
  <2>12. BlockFollows(y, e2, c2, left)
    BY <2>6, <2>10 DEF BlockFollows
  <2> QED
    BY <1>1, <2>6, <2>7, <2>9, <2>11, <2>12 DEF Ahead, InTouch
<1>4. CASE ~endHeaders
  <2>1. BlockWaits(y, x, s, block, endStream)
    BY <1>1, <1>4, OnHeadersIs
  <2>2. PICK w \in HeaderBlock :
          /\ w.stream = s /\ w.block = block /\ w.endStream = endStream
          /\ y = Waiting(x, w)
    BY <2>1 DEF BlockWaits
  <2>3. /\ y.table = x.table /\ y.waits = w /\ y.over = FALSE /\ y.streams = x.streams
        /\ y.ended = x.ended /\ y.last = None
    BY <1>2, <2>2, WaitingIs
  <2>4. left # None /\ left.stream = s /\ left.endStream = endStream /\ block \o left.block = whole
    BY <1>4
  <2>5. ASSUME NEW q \in Streams PROVE Follows(y.streams[q], c2[q], Partly(left, q))
    <3>1. CASE q # s
      <4>1. Partly(left, q) = FALSE
        BY <2>4, <3>1 DEF Partly
      <4> QED
        BY <2>3, <3>1, <4>1
    <3>2. CASE q = s
      <4>1. Partly(left, q) = TRUE
        BY <2>4, <3>2 DEF Partly
      <4>2. c2[s].at # "idle"
        BY DEF Now
      <4> QED
        BY <2>3, <3>2, <4>1, <4>2 DEF Follows
    <3> QED
      BY <3>1, <3>2
  <2>6. w # None
    BY Constants
  <2>7. Decode(y.table, w.block \o left.block) = Good(t2, h)
    BY <2>2, <2>3, <2>4
  <2>8. BlockFollows(y, e2, c2, left)
    BY <1>2, <2>2, <2>3, <2>4, <2>6, <2>7 DEF BlockFollows
  <2>9. y.ended = done2
    BY <1>4, <2>3
  <2> QED
    BY <1>1, <2>3, <2>5, <2>8, <2>9 DEF Ahead, InTouch
<1> QED
  BY <1>3, <1>4

\* What a block says that the encoder has written, to a decoder like it.
LEMMA WholeBlockSays ==
    ASSUME NEW start, NEW first, Starts(start, first), NEW t, Matches(t, encoder),
           NEW fields \in Seq(Field), NEW written \in Blocks(start, fields)
    PROVE  /\ first \o written.block \in Seq(Items)
           /\ \E t2 \in FitTables : Decode(t, first \o written.block) = Good(t2, fields)
                                    /\ Matches(t2, written.encoder)
<1>1. PICK t1 \in FitTables : Decode(t, first) = Good(t1, <<>>) /\ Matches(t1, start)
  BY FirstIsRead
<1>2. first \in Seq(Items) /\ t \in FitTables /\ <<>> \in Seq(Field)
  BY FirstIsRead, EmptySeq DEF Matches
<1>3. Says(written, t1, fields)
  BY <1>1, BlocksSay
<1>4. PICK block \in Seq(Items) : block = written.block
  BY <1>3 DEF Says
<1>5. PICK t2 \in FitTables : Decode(t1, block) = Good(t2, fields) /\ Matches(t2, written.encoder)
  BY <1>3, <1>4 DEF Says, Matches
<1>6. IsBehind(<<>>, Decode(t1, block), Decode(t, first \o block))
  BY <1>1, <1>2, DecodeConcat
<1>7. PICK t4 \in FitTables, f \in Seq(Field) :
        \/ Decode(t1, block) = Good(t4, f) /\ Decode(t, first \o block) = Good(t4, <<>> \o f)
        \/ Decode(t1, block) = Bad(t4, f) /\ Decode(t, first \o block) = Bad(t4, <<>> \o f)
  BY <1>6 DEF IsBehind
<1>8. Good(t2, fields).ok /\ ~Bad(t4, f).ok /\ Good(t2, fields).table = t2
      /\ Good(t2, fields).headers = fields /\ Good(t4, f).table = t4 /\ Good(t4, f).headers = f
  BY GoodIs, BadIs
<1>9. <<>> \o f = f
  BY ConcatEmptySeq
<1>10. Decode(t, first \o block) = Good(t2, fields)
  BY <1>5, <1>7, <1>8, <1>9
<1>11. first \o block \in Seq(Items)
  BY <1>2, ConcatProperties
<1> QED
  BY <1>4, <1>5, <1>10, <1>11

\* A header block of stream s is begun, and o is what the client has sent then.
Begins(s, fields, start, first, endStream, o) ==
    /\ at \in Reading /\ fragment = None /\ Starts(start, first)
    /\ PutHeaders(s, fields, start, first, endStream)
    /\ UNCHANGED <<goaway, at, reading, current, log>>
    /\ client' = [client EXCEPT ![s] = o] /\ client[s].at \in {"idle", "open"}
    /\ o.at = Now(endStream) /\ o.body = client[s].body /\ (o.trailers \/ fields = o.fields)
    /\ o.at = "open" => ~o.trailers

LEMMA HeadersForeseen ==
    ASSUME TInv, StepInv, FutureInv, NEW s \in Streams, NEW fields \in Seq(Field),
           NEW start, NEW first, NEW endStream \in BOOLEAN, NEW o \in Outline,
           Begins(s, fields, start, first, endStream, o)
    PROVE  FutureInv'
<1>0. /\ at \in Reading /\ fragment = None /\ Starts(start, first)
      /\ PutHeaders(s, fields, start, first, endStream)
      /\ UNCHANGED <<goaway, at, reading, current, log>>
      /\ client' = [client EXCEPT ![s] = o] /\ client[s].at \in {"idle", "open"}
      /\ o.at = Now(endStream) /\ o.body = client[s].body /\ (o.trailers \/ fields = o.fields)
      /\ o.at = "open" => ~o.trailers
  BY DEF Begins
<1>1. PICK written \in Blocks(start, fields) :
        LET block == first \o written.block
        IN  \E n \in 1..Len(block) :
              /\ encoder' = written.encoder
              /\ Put(HeadersFrame(s, SubSeq(block, 1, n), n = Len(block), endStream))
              /\ fragment' = IF n = Len(block) THEN None
                             ELSE [stream |-> s, block |-> SubSeq(block, n + 1, Len(block)),
                                   endStream |-> endStream]
              /\ Ended(s, endStream /\ n = Len(block))
  BY <1>0 DEF PutHeaders
<1>2. \A t : Matches(t, encoder) =>
        /\ first \o written.block \in Seq(Items)
        /\ \E t2 \in FitTables : Decode(t, first \o written.block) = Good(t2, fields)
                                 /\ Matches(t2, written.encoder)
  BY <1>0, WholeBlockSays
<1>3. PICK block : block = first \o written.block
  OBVIOUS
<1>4. PICK t0 : Matches(t0, encoder)
  BY <1>0 DEF StepInv, InStep, Reading, Final
<1>5. block \in Seq(Items)
  BY <1>0, <1>2, <1>3, <1>4
<1>6. PICK n \in 1..Len(block) :
        /\ encoder' = written.encoder
        /\ Put(HeadersFrame(s, SubSeq(block, 1, n), n = Len(block), endStream))
        /\ fragment' = IF n = Len(block) THEN None
                       ELSE [stream |-> s, block |-> SubSeq(block, n + 1, Len(block)),
                             endStream |-> endStream]
        /\ Ended(s, endStream /\ n = Len(block))
  BY <1>0, <1>1, <1>3
<1>7. PICK front \in Seq(Items), end \in Seq(Items) :
        /\ front = SubSeq(block, 1, n) /\ end = SubSeq(block, n + 1, Len(block))
        /\ front \o end = block /\ (n = Len(block) => front = block)
  <2>1. SubSeq(block, 1, n) \in Seq(Items) /\ SubSeq(block, n + 1, Len(block)) \in Seq(Items)
        /\ SubSeq(block, 1, n) \o SubSeq(block, n + 1, Len(block)) = block
        /\ (n = Len(block) => SubSeq(block, 1, n) = block)
    BY <1>0, <1>5, SplitAt
  <2> QED
    BY <1>0, <2>1
<1>8. PICK whole \in BOOLEAN : whole <=> n = Len(block)
  OBVIOUS
<1>9. PICK left \in {None} \cup HeaderBlock :
        /\ left = fragment'
        /\ whole => left = None
        /\ ~whole => /\ left # None /\ left.stream = s /\ left.endStream = endStream
                     /\ left.block = end
  <2>1. PICK h \in HeaderBlock : h = [stream |-> s, block |-> end, endStream |-> endStream]
    BY <1>0 DEF HeaderBlock, Items
  <2>2. fragment' = IF whole THEN None ELSE h
    BY <1>0, <1>6, <1>7, <1>8, <2>1
  <2>3. h # None /\ h.stream = s /\ h.endStream = endStream /\ h.block = end
    BY <1>0, <2>1, Constants
  <2> QED
    BY <1>0, <2>2, <2>3
<1>10. PICK frame \in HeadersFrames :
         /\ frame = [type |-> "headers", stream |-> s, block |-> front, endHeaders |-> whole,
                     endStream |-> endStream]
         /\ Put(frame)
  <2>1. PICK frame \in HeadersFrames :
          frame = [type |-> "headers", stream |-> s, block |-> front, endHeaders |-> whole,
                   endStream |-> endStream]
    BY <1>0 DEF HeadersFrames
  <2>2. whole = (n = Len(block))
    BY <1>0, <1>8
  <2>3. frame = HeadersFrame(s, SubSeq(block, 1, n), n = Len(block), endStream)
    BY <1>0, <1>7, <2>1, <2>2 DEF HeadersFrame
  <2>4. Put(frame)
    BY <1>0, <1>6, <2>3
  <2> QED
    BY <1>0, <2>1, <2>4
<1>11. PICK c, c2, e2, done, done2 :
         c = client /\ c2 = client' /\ e2 = encoder' /\ done = completed /\ done2 = completed'
  OBVIOUS
<1>12. c \in [Streams -> Outline] /\ c2 = [c EXCEPT ![s] = o]
  BY <1>0, <1>11 DEF TInv, ClientInv
<1>13. c2[s] = o /\ \A q \in Streams : q # s => c2[q] = c[q]
  BY <1>0, <1>12
<1>14. done2 = IF whole /\ endStream /\ ~goaway THEN Append(done, s) ELSE done
  BY <1>0, <1>6, <1>8, <1>11 DEF Ended
<1>15. Lasting(c, c2)
  BY <1>0, <1>11, <1>13 DEF Lasting
<1>16. ASSUME goaway = FALSE, NEW x \in Readers, Ahead(x, c, encoder, None, done, FALSE)
       PROVE  Ahead(ReadOn(x, frame), c2, e2, left, done2, FALSE)
  <2>1. /\ x.ended = done /\ ~x.over
        /\ \A q \in Streams : Follows(x.streams[q], c[q], Partly(None, q))
        /\ Matches(x.table, encoder)
    BY <1>0, <1>16 DEF Ahead, InTouch, BlockFollows
  <2>2. \A q \in Streams : Partly(None, q) = FALSE
    BY <1>0 DEF Partly
  <2>3. PICK t2 \in FitTables : Decode(x.table, block) = Good(t2, fields) /\ Matches(t2, e2)
    BY <1>0, <1>2, <1>3, <1>6, <1>11, <2>1
  <2>4. \A q \in Streams \ {s} : Follows(x.streams[q], c2[q], FALSE)
    BY <1>0, <1>13, <2>1, <2>2
  <2>5. c2[s].body = x.streams[s].body
    <3>1. Follows(x.streams[s], c[s], FALSE)
      BY <1>0, <2>1, <2>2
    <3>2. x.streams[s].body = c[s].body
      BY <1>0, <1>11, <3>1, NewStreamType DEF Follows
    <3> QED
      BY <1>0, <1>11, <1>13, <3>2
  <2>6. ReadOn(x, frame) = OnHeaders(x, s, front, whole, endStream)
    <3>1. frame.type = "headers" /\ frame.stream = s /\ frame.block = front
          /\ frame.endHeaders = whole /\ frame.endStream = endStream
      BY <1>0, <1>10
    <3> QED
      BY <1>0, <2>1, <3>1 DEF ReadOn
  <2>7. /\ whole => left = None /\ front = block
        /\ ~whole => left # None /\ left.stream = s /\ left.endStream = endStream
                       /\ front \o left.block = block
    BY <1>0, <1>7, <1>8, <1>9
  <2>8. c2[s].at = Now(endStream) /\ (c2[s].trailers \/ fields = c2[s].fields)
        /\ (c2[s].at = "open" => ~c2[s].trailers)
    BY <1>0, <1>13
  <2>9. done2 = IF whole /\ endStream THEN Append(x.ended, s) ELSE x.ended
    BY <1>0, <1>14, <1>16, <2>1
  <2>10. Ahead(OnHeaders(x, s, front, whole, endStream), c2, e2, left, done2, FALSE)
    BY <1>0, <1>5, <2>1, <2>3, <2>4, <2>5, <2>7, <2>8, <2>9, BlockSent
  <2> QED
    BY <1>0, <2>6, <2>10
<1>17. SentTo(frame, c2, e2, left, done2, goaway)
  <2>1. CASE goaway = FALSE
    BY <1>0, <1>11, <1>16, <2>1 DEF SentTo
  <2>2. CASE goaway = TRUE
    <3>1. done2 = completed
      BY <1>0, <1>11, <1>14, <2>2
    <3>2. SentTo(frame, c2, e2, left, completed, goaway)
      BY <1>0, <1>11, <1>15, <2>2, SentBehind
    <3> QED
      BY <1>0, <3>1, <3>2
  <2> QED
    BY <1>0, <2>1, <2>2 DEF TInv, ClientInv
<1>18. frame \in Frames
  BY <1>0 DEF Frames
<1>19. client' = c2 /\ encoder' = e2 /\ fragment' = left /\ completed' = done2 /\ goaway' = goaway
  BY <1>0, <1>9, <1>11
<1> QED
  BY <1>0, <1>10, <1>11, <1>15, <1>17, <1>18, <1>19, SentFrame

\* What a client has sent of a stream, with a second field changed.
Outlined(a, f, b, t) == [at |-> a, fields |-> f, body |-> b, trailers |-> t]
WithFields(d, s, a, x) == [d EXCEPT ![s].at = a, ![s].fields = x]
WithBody(d, s, a, x) == [d EXCEPT ![s].at = a, ![s].body = x]
WithTrailers(d, s, a, x) == [d EXCEPT ![s].at = a, ![s].trailers = x]

Changed(d, s, o) == [d EXCEPT ![s] = o]

LEMMA TwoFields ==
    ASSUME NEW d \in [Streams -> Outline], NEW s \in Streams, NEW a, NEW x
    PROVE  /\ WithFields(d, s, a, x) = Changed(d, s, Outlined(a, x, d[s].body, d[s].trailers))
           /\ WithBody(d, s, a, x) = Changed(d, s, Outlined(a, d[s].fields, x, d[s].trailers))
           /\ WithTrailers(d, s, a, x) = Changed(d, s, Outlined(a, d[s].fields, d[s].body, x))
<1>1. PICK p : p = d[s] /\ p \in Outline
  OBVIOUS
<1>2. PICK a0, f, b, t : p = [at |-> a0, fields |-> f, body |-> b, trailers |-> t]
  BY <1>1 DEF Outline
<1>3. p.fields = f /\ p.body = b /\ p.trailers = t
  BY <1>2
<1>4. PICK o : o = [at |-> a, fields |-> f, body |-> b, trailers |-> t]
  OBVIOUS
<1>5. [p EXCEPT !.at = a] = o
  BY <1>2, <1>4
<1>6. PICK d1 : d1 = [d EXCEPT ![s] = o]
  OBVIOUS
<1>7. d1[s] = o
  BY <1>6
<1>8. [d EXCEPT ![s].at = a] = d1
  BY <1>1, <1>5, <1>6, Zenon
<1>9. \A v : [d1 EXCEPT ![s] = v] = Changed(d, s, v)
  BY <1>6 DEF Changed
<1>10. /\ [o EXCEPT !.fields = x] = Outlined(a, x, b, t)
       /\ [o EXCEPT !.body = x] = Outlined(a, f, x, t)
       /\ [o EXCEPT !.trailers = x] = Outlined(a, f, b, x)
  BY <1>4 DEF Outlined
<1>11. /\ [d1 EXCEPT ![s].fields = x] = Changed(d, s, Outlined(a, x, b, t))
       /\ [d1 EXCEPT ![s].body = x] = Changed(d, s, Outlined(a, f, x, t))
       /\ [d1 EXCEPT ![s].trailers = x] = Changed(d, s, Outlined(a, f, b, x))
  BY <1>7, <1>9, <1>10, Zenon
<1>12. /\ WithFields(d, s, a, x) = [[d EXCEPT ![s].at = a] EXCEPT ![s].fields = x]
       /\ WithBody(d, s, a, x) = [[d EXCEPT ![s].at = a] EXCEPT ![s].body = x]
       /\ WithTrailers(d, s, a, x) = [[d EXCEPT ![s].at = a] EXCEPT ![s].trailers = x]
  BY Zenon DEF WithFields, WithBody, WithTrailers
<1>13. f = d[s].fields /\ b = d[s].body /\ t = d[s].trailers
  BY <1>1, <1>3
<1> QED
  BY <1>8, <1>11, <1>12, <1>13, Zenon

LEMMA OpenStreamForeseen ==
    ASSUME TInv, StepInv, FutureInv, NEW s \in Streams, OpenStream(s)
    PROVE  FutureInv'
<1>1. PICK fields \in Requests, endStream \in BOOLEAN :
        /\ client' = [client EXCEPT ![s].at = Now(endStream), ![s].fields = fields]
        /\ \/ PutHeaders(s, fields, encoder, <<>>, endStream)
           \/ \E n \in TableSizes :
                PutHeaders(s, fields, EncoderResize(encoder, n), <<Resize(n)>>, endStream)
  BY DEF OpenStream
<1>2. fields \in Seq(Field)
  BY Constants
<1>3. PICK start, first : Starts(start, first) /\ PutHeaders(s, fields, start, first, endStream)
  BY <1>1 DEF Starts
<1>4. fragment = None /\ at \in Reading /\ ~goaway /\ client[s].at = "idle"
      /\ UNCHANGED <<goaway, at, reading, current, log>>
  BY DEF OpenStream, MaySend
<1>5. PICK c \in [Streams -> Outline] : c = client
  BY DEF TInv, ClientInv
<1>6. Now(endStream) \in {"ended", "open"}
  BY DEF Now
<1>7. PICK o \in Outline : o = [at |-> Now(endStream), fields |-> fields, body |-> c[s].body,
                                trailers |-> c[s].trailers]
  BY <1>2, <1>6 DEF Outline
<1>8. client' = [client EXCEPT ![s] = o]
  <2>1. client' = WithFields(c, s, Now(endStream), fields)
    BY <1>1, <1>5, Zenon DEF WithFields
  <2>2. WithFields(c, s, Now(endStream), fields) = Changed(c, s, o)
    <3>1. o = Outlined(Now(endStream), fields, c[s].body, c[s].trailers)
      BY <1>7 DEF Outlined
    <3> QED
      BY <1>5, <3>1, TwoFields
  <2> QED
    BY <1>5, <2>1, <2>2 DEF Changed
<1>9. ~c[s].trailers
  <2>1. PICK f : IsRun(f, Reader, wire) /\ Foreseen(f, wire, client, encoder, fragment, completed, goaway)
    BY <1>4 DEF FutureInv, Reading, Final
  <2>2. PICK x : x = f[Len(wire)] /\ Ahead(x, client, encoder, fragment, completed, goaway)
    BY <2>1 DEF Foreseen
  <2>3. Follows(x.streams[s], client[s], Partly(fragment, s))
    BY <1>4, <2>2 DEF Ahead, InTouch
  <2> QED
    BY <1>4, <1>5, <2>3 DEF Follows
<1>10. o.at = Now(endStream) /\ o.body = client[s].body /\ fields = o.fields /\ ~o.trailers
  BY <1>5, <1>7, <1>9
<1>11. Begins(s, fields, start, first, endStream, o)
  BY <1>3, <1>4, <1>8, <1>10 DEF Begins
<1> QED
  BY <1>2, <1>11, HeadersForeseen

LEMMA SendTrailersForeseen ==
    ASSUME TInv, StepInv, FutureInv, NEW s \in Streams, SendTrailers(s)
    PROVE  FutureInv'
<1>1. Trailers \in Seq(Field)
  BY Constants
<1>2. Starts(encoder, <<>>) /\ PutHeaders(s, Trailers, encoder, <<>>, TRUE)
  BY DEF Starts, SendTrailers
<1>3. fragment = None /\ at \in Reading /\ client[s].at = "open"
      /\ UNCHANGED <<goaway, at, reading, current, log>>
  BY DEF SendTrailers, MaySend
<1>4. PICK c \in [Streams -> Outline] : c = client
  BY DEF TInv, ClientInv
<1>5. PICK o \in Outline : o = [at |-> "ended", fields |-> c[s].fields, body |-> c[s].body,
                                trailers |-> TRUE]
  BY DEF Outline
<1>6. client' = [client EXCEPT ![s] = o]
  <2>0. PICK yes : yes = TRUE
    OBVIOUS
  <2>1. client' = WithTrailers(c, s, "ended", yes)
    BY <1>4, <2>0, Zenon DEF SendTrailers, WithTrailers
  <2>2. WithTrailers(c, s, "ended", yes) = Changed(c, s, o)
    <3>1. o = Outlined("ended", c[s].fields, c[s].body, yes)
      BY <1>5, <2>0 DEF Outlined
    <3> QED
      BY <1>4, <3>1, TwoFields
  <2> QED
    BY <1>4, <2>1, <2>2 DEF Changed
<1>7. o.at = Now(TRUE) /\ o.body = client[s].body /\ (o.trailers \/ Trailers = o.fields)
      /\ (o.at = "open" => ~o.trailers) /\ client[s].at \in {"idle", "open"}
  BY <1>3, <1>4, <1>5 DEF Now
<1>8. Begins(s, Trailers, encoder, <<>>, TRUE, o)
  BY <1>2, <1>3, <1>6, <1>7 DEF Begins
<1> QED
  BY <1>1, <1>8, HeadersForeseen

LEMMA ConcatItems ==
    ASSUME NEW x \in Seq(Items), NEW y \in Seq(Items), NEW z \in Seq(Items)
    PROVE  (x \o y) \o z = x \o (y \o z)
  BY ConcatAssociative

\* The rest of a header block, an item at a time.
LEMMA SendContinuationForeseen ==
    ASSUME TInv, FutureInv, SendContinuation
    PROVE  FutureInv'
<1>1. fragment \in HeaderBlock /\ fragment # None /\ fragment.block # <<>> /\ at \in Reading
  BY DEF SendContinuation, TInv, ClientInv, MaySend
<1>2. PICK s \in Streams, block \in Seq(Items), endStream \in BOOLEAN :
        fragment = [stream |-> s, block |-> block, endStream |-> endStream]
  BY <1>1 DEF HeaderBlock, Items
<1>3. fragment.stream = s /\ fragment.block = block /\ fragment.endStream = endStream
      /\ block # <<>>
  BY <1>1, <1>2
<1>4. PICK item \in Items, rest \in Seq(Items) :
        item = Head(block) /\ rest = Tail(block) /\ block = <<item>> \o rest
        /\ Len(rest) = Len(block) - 1 /\ <<item>> \in Seq(Items)
  <2>1. Head(block) \in Items /\ Tail(block) \in Seq(Items) /\ Len(Tail(block)) = Len(block) - 1
        /\ block = <<Head(block)>> \o Tail(block)
    BY <1>3
  <2>2. <<Head(block)>> \in Seq(Items)
    BY <2>1
  <2> QED
    BY <2>1, <2>2
<1>5. PICK whole \in BOOLEAN : whole <=> Len(block) = 1
  OBVIOUS
<1>6. PICK one \in Seq(Items) : one = <<item>>
  BY <1>4
<1>7. PICK frame \in ContinuationFrames :
        /\ frame = [type |-> "continuation", stream |-> s, block |-> one, endHeaders |-> whole]
        /\ Put(frame)
  <2>1. PICK frame \in ContinuationFrames :
          frame = [type |-> "continuation", stream |-> s, block |-> one, endHeaders |-> whole]
    BY DEF ContinuationFrames
  <2>2. whole = (Len(block) = 1)
    BY <1>5
  <2>3. frame = ContinuationFrame(s, <<Head(block)>>, Len(block) = 1)
    BY <1>4, <1>6, <2>1, <2>2 DEF ContinuationFrame
  <2>4. Put(frame)
    BY <1>3, <2>3 DEF SendContinuation
  <2> QED
    BY <2>1, <2>4
<1>8. PICK left \in {None} \cup HeaderBlock :
        /\ left = fragment'
        /\ whole => left = None
        /\ ~whole => /\ left # None /\ left.stream = s /\ left.endStream = endStream
                     /\ left.block = rest
  <2>1. PICK h \in HeaderBlock : h = [stream |-> s, block |-> rest, endStream |-> endStream]
    BY DEF HeaderBlock, Items
  <2>2. fragment' = IF whole THEN None ELSE h
    <3>1. CASE whole
      BY <1>3, <1>5, <3>1 DEF SendContinuation
    <3>2. CASE ~whole
      <4>1. fragment' = [fragment EXCEPT !.block = Tail(@)]
        BY <1>3, <1>5, <3>2 DEF SendContinuation
      <4>2. fragment' = [stream |-> s, block |-> rest, endStream |-> endStream]
        BY <1>2, <1>4, <4>1
      <4> QED
        BY <2>1, <3>2, <4>2
    <3> QED
      BY <3>1, <3>2
  <2>3. h # None /\ h.stream = s /\ h.endStream = endStream /\ h.block = rest
    BY <2>1, Constants
  <2> QED
    BY <2>2, <2>3
<1>9. PICK c, e, f, done, done2 :
        c = client /\ e = encoder /\ f = fragment /\ done = completed /\ done2 = completed'
  OBVIOUS
<1>10. UNCHANGED <<client, encoder, goaway, at, reading, current, log>>
  BY DEF SendContinuation
<1>11. done2 = IF whole /\ endStream /\ ~goaway THEN Append(done, s) ELSE done
  BY <1>3, <1>5, <1>9 DEF SendContinuation, Ended
<1>12. f # None /\ f.stream = s /\ f.block = block /\ f.endStream = endStream
  BY <1>1, <1>3, <1>9
<1>13. ASSUME goaway = FALSE, NEW x \in Readers, Ahead(x, c, e, f, done, FALSE)
       PROVE  Ahead(ReadOn(x, frame), c, e, left, done2, FALSE)
  <2>1. /\ x.ended = done /\ ~x.over
        /\ \A q \in Streams : Follows(x.streams[q], c[q], Partly(f, q))
        /\ BlockFollows(x, e, c, f)
    BY <1>13 DEF Ahead, InTouch
  <2>2. x.waits # None /\ x.waits.stream = s /\ x.waits.endStream = endStream
        /\ c[s].at = Now(endStream)
    BY <1>12, <2>1 DEF BlockFollows
  <2>3. PICK t2 \in FitTables, h \in Seq(Field) :
          /\ Decode(x.table, x.waits.block \o block) = Good(t2, h) /\ Matches(t2, e)
          /\ c[s].trailers \/ h = c[s].fields
    BY <1>12, <2>1 DEF BlockFollows
  <2>4. PICK b \in Seq(Items) : b = x.waits.block
    <3>1. x.waits \in HeaderBlock
      BY <2>2 DEF Readers
    <3> QED
      BY <3>1 DEF HeaderBlock, Items
  <2>5. PICK front \in Seq(Items), all \in Seq(Items) :
          front = b \o one /\ all = b \o block
    BY ConcatProperties
  <2>6. front \o rest = all /\ (whole => front = all)
    <3>1. front \o rest = all
      <4>1. one \in Seq(Items) /\ rest \in Seq(Items) /\ b \in Seq(Items)
        BY <1>4, <1>6, <2>4
      <4>2. (b \o one) \o rest = b \o (one \o rest)
        BY <4>1, ConcatItems
      <4> QED
        BY <1>4, <1>6, <2>5, <4>2
    <3>2. CASE whole
      <4>1. Len(rest) = 0
        BY <1>4, <1>5, <3>2
      <4>2. rest = <<>>
        BY <4>1
      <4> QED
        BY <3>1, <4>2, ConcatEmptySeq
    <3> QED
      BY <3>1, <3>2
  <2>7. Follows(x.streams[s], c[s], TRUE) /\ \A q \in Streams \ {s} : Follows(x.streams[q], c[q], FALSE)
    <3>1. \A q \in Streams : Partly(f, q) = (q = s)
      BY <1>12 DEF Partly
    <3>2. Partly(f, s) = TRUE /\ \A q \in Streams \ {s} : Partly(f, q) = FALSE
      BY <3>1
    <3>3. Follows(x.streams[s], c[s], Partly(f, s))
      BY <2>1
    <3> QED
      BY <2>1, <3>2, <3>3
  <2>8. c[s].body = x.streams[s].body /\ (c[s].at = "open" => ~c[s].trailers)
    BY <2>7 DEF Follows
  <2>9. ReadOn(x, frame) = OnHeaders(x, s, front, whole, endStream)
    <3>1. frame.type = "continuation" /\ frame.block = one /\ frame.endHeaders = whole
      BY <1>7
    <3> QED
      BY <2>1, <2>2, <2>4, <2>5, <3>1 DEF ReadOn
  <2>10. /\ whole => left = None /\ front = all
         /\ ~whole => left # None /\ left.stream = s /\ left.endStream = endStream
                        /\ front \o left.block = all
    BY <1>8, <2>6
  <2>11. done2 = IF whole /\ endStream THEN Append(x.ended, s) ELSE x.ended
    BY <1>11, <1>13, <2>1
  <2>12. Decode(x.table, all) = Good(t2, h)
    BY <2>3, <2>4, <2>5
  <2>13. \A q \in Streams \ {s} : Follows(x.streams[q], c[q], FALSE)
    BY <2>7
  <2>14. Ahead(OnHeaders(x, s, front, whole, endStream), c, e, left, done2, FALSE)
    BY <2>1, <2>2, <2>3, <2>8, <2>10, <2>11, <2>12, <2>13, BlockSent
  <2> QED
    BY <2>9, <2>14
<1>14. Lasting(client, c)
  BY <1>9 DEF Lasting
<1>15. SentTo(frame, c, e, left, done2, goaway)
  <2>1. CASE goaway = FALSE
    BY <1>9, <1>13, <2>1 DEF SentTo
  <2>2. CASE goaway = TRUE
    <3>1. done2 = completed
      BY <1>9, <1>11, <2>2
    <3>2. SentTo(frame, c, e, left, completed, goaway)
      BY <1>14, <2>2, SentBehind
    <3> QED
      BY <3>1, <3>2
  <2> QED
    BY <2>1, <2>2 DEF TInv, ClientInv
<1>16. frame \in Frames
  BY DEF Frames
<1>17. client' = c /\ encoder' = e /\ fragment' = left /\ completed' = done2 /\ goaway' = goaway
       /\ UNCHANGED <<at, reading, current, log>>
  BY <1>8, <1>9, <1>10
<1> QED
  BY <1>1, <1>7, <1>14, <1>15, <1>16, <1>17, SentFrame

\* A piece of a body, and the end of it.
LEMMA DataSentAhead ==
    ASSUME NEW x \in Readers, ~x.over, NEW s \in Streams, NEW data \in Seq(Pieces),
           NEW endStream \in BOOLEAN, NEW c, NEW e,
           \A q \in Streams : Follows(x.streams[q], c[q], FALSE), c[s].at = "open",
           BlockFollows(x, e, c, None),
           NEW o, o.at = Now(endStream), o.body = c[s].body \o data, o.fields = c[s].fields,
           o.trailers = c[s].trailers,
           NEW c2, c2[s] = o, \A q \in Streams \ {s} : c2[q] = c[q],
           NEW done2, done2 = IF endStream THEN Append(x.ended, s) ELSE x.ended
    PROVE  Ahead(OnData(x, s, data, endStream), c2, e, None, done2, FALSE)
<1>1. PICK y \in Readers : y = OnData(x, s, data, endStream)
  BY OnDataIs
<1>2. PICK stream \in Stream :
        /\ stream.headers = x.streams[s].headers
        /\ stream.body = x.streams[s].body \o data
        /\ y = Stored(x, s, stream, endStream)
  <2>1. DataDone(y, x, s, data, endStream)
    BY <1>1, OnDataIs
  <2> QED
    BY <2>1 DEF DataDone
<1>3. x.over = FALSE /\ x.waits = None /\ Matches(x.table, e)
  BY DEF Readers, BlockFollows
<1>4. y.table = x.table /\ y.waits = None /\ y.over = FALSE /\ y.ended = done2
      /\ y.last = IF endStream THEN [stream |-> s, headers |-> stream.headers, body |-> stream.body]
                  ELSE None
  BY <1>2, <1>3 DEF Stored
<1>5. \A q \in Streams : y.streams[q] = IF q = s THEN (IF endStream THEN NewStream ELSE stream)
                                        ELSE x.streams[q]
  <2>1. PICK m \in [Streams -> Stream] : m = x.streams
    BY DEF Readers
  <2>2. y.streams = [m EXCEPT ![s] = IF endStream THEN NewStream ELSE stream]
    BY <1>2, <2>1 DEF Stored
  <2> QED
    BY <2>1, <2>2
<1>6. stream.headers = c[s].fields /\ stream.body = o.body /\ ~c[s].trailers
  <2>1. Follows(x.streams[s], c[s], FALSE)
    OBVIOUS
  <2>2. x.streams[s].headers = c[s].fields /\ x.streams[s].body = c[s].body /\ ~c[s].trailers
    BY <2>1 DEF Follows
  <2> QED
    BY <1>2, <2>2
<1>7. y.last # None => Intact(c2, y.last)
  <2> SUFFICES ASSUME endStream
               PROVE  Intact(c2, y.last)
    BY <1>4
  <2>1. y.last = [stream |-> s, headers |-> stream.headers, body |-> stream.body]
    BY <1>4
  <2>2. y.last.stream = s /\ y.last.headers = c[s].fields /\ y.last.body = o.body
    BY <1>6, <2>1
  <2>3. c2[s].at = "ended" /\ c2[s].body = o.body /\ c2[s].fields = c[s].fields
    BY DEF Now
  <2> QED
    BY <2>2, <2>3 DEF Intact
<1>8. \A q \in Streams : Partly(None, q) = FALSE
  BY DEF Partly
<1>9. ASSUME NEW q \in Streams PROVE Follows(y.streams[q], c2[q], Partly(None, q))
  <2>0. Partly(None, q) = FALSE
    BY <1>8
  <2>1. CASE q # s
    BY <1>5, <2>0, <2>1
  <2>2. CASE q = s /\ endStream
    <3>1. c2[s].at = "ended"
      BY <2>2 DEF Now
    <3> QED
      BY <2>0, <2>2, <3>1 DEF Follows
  <2>3. CASE q = s /\ ~endStream
    <3>1. c2[s].at = "open" /\ c2[s].body = o.body /\ c2[s].fields = c[s].fields
          /\ c2[s].trailers = c[s].trailers
      BY <2>3 DEF Now
    <3>2. y.streams[s] = stream
      BY <1>5, <2>3
    <3> QED
      BY <1>6, <2>0, <2>3, <3>1, <3>2 DEF Follows
  <2> QED
    BY <2>1, <2>2, <2>3
<1>10. BlockFollows(y, e, c2, None)
  BY <1>3, <1>4 DEF BlockFollows
<1> QED
  BY <1>1, <1>4, <1>7, <1>9, <1>10 DEF Ahead, InTouch

LEMMA SendDataForeseen ==
    ASSUME TInv, TInv', FutureInv, NEW s \in Streams, NEW n \in {0, 1}, NEW endStream \in BOOLEAN,
           SendData(s, n, endStream)
    PROVE  FutureInv'
<1>1. PICK c \in [Streams -> Outline] : c = client
  BY DEF TInv, ClientInv
<1>2. PICK data : data = IF n = 0 THEN <<>> ELSE <<<<s, Len(client[s].body) + 1>>>>
  OBVIOUS
<1>3. /\ client' = [client EXCEPT ![s].at = Now(endStream), ![s].body = @ \o data]
      /\ Put(DataFrame(s, data, endStream))
  BY <1>2 DEF SendData
<1>4. PICK frame \in Frames : frame = DataFrame(s, data, endStream)
  <2>1. PICK w \in Seq(Frames) : w = wire
    BY DEF TInv, ClientInv
  <2>2. PICK w2 \in Seq(Frames) : w2 = wire'
    BY DEF TInv, ClientInv
  <2>3. w2 = Append(w, DataFrame(s, data, endStream))
    BY <1>3, <2>1, <2>2 DEF Put
  <2>4. w2[Len(w) + 1] = DataFrame(s, data, endStream) /\ Len(w) + 1 \in 1..Len(w2)
    BY <2>3
  <2> QED
    BY <2>2, <2>4
<1>5. frame.type = "data" /\ frame.stream = s /\ frame.data = data /\ frame.endStream = endStream
  BY <1>4 DEF DataFrame
<1>6. data \in Seq(Pieces)
  BY <1>5 DEF Frames, HeadersFrames, ContinuationFrames, DataFrames, OtherFrames
<1>7. PICK body \in Seq(Pieces) : body = c[s].body \o data
  <2>1. c[s].body \in Seq(Pieces)
    BY DEF Outline
  <2> QED
    BY <1>6, <2>1, ConcatProperties
<1>8. Now(endStream) \in {"ended", "open"}
  BY DEF Now
<1>9. PICK o \in Outline : o = [at |-> Now(endStream), fields |-> c[s].fields, body |-> body,
                                trailers |-> c[s].trailers]
  BY <1>7, <1>8 DEF Outline
<1>10. client' = [client EXCEPT ![s] = o]
  <2>1. client' = WithBody(c, s, Now(endStream), c[s].body \o data)
    BY <1>1, <1>3, Zenon DEF WithBody
  <2>2. o = Outlined(Now(endStream), c[s].fields, body, c[s].trailers)
    BY <1>9 DEF Outlined
  <2>3. WithBody(c, s, Now(endStream), body) = Changed(c, s, o)
    BY <1>1, <2>2, TwoFields
  <2> QED
    BY <1>1, <1>7, <2>1, <2>3 DEF Changed
<1>11. fragment = None /\ at \in Reading /\ c[s].at = "open" /\ Put(frame) /\ Ended(s, endStream)
       /\ UNCHANGED <<encoder, fragment, goaway, at, reading, current, log>>
  BY <1>1, <1>3, <1>4 DEF SendData, MaySend
<1>12. PICK c2, e, done, done2 :
         c2 = client' /\ e = encoder /\ done = completed /\ done2 = completed'
  OBVIOUS
<1>13. c2[s] = o /\ \A q \in Streams : q # s => c2[q] = c[q]
  BY <1>1, <1>10, <1>12
<1>14. done2 = IF endStream /\ ~goaway THEN Append(done, s) ELSE done
  BY <1>11, <1>12 DEF Ended
<1>15. Lasting(client, c2)
  BY <1>1, <1>11, <1>13 DEF Lasting
<1>16. ASSUME goaway = FALSE, NEW x \in Readers, Ahead(x, c, e, None, done, FALSE)
       PROVE  Ahead(ReadOn(x, frame), c2, e, None, done2, FALSE)
  <2>1. /\ x.ended = done /\ ~x.over
        /\ \A q \in Streams : Follows(x.streams[q], c[q], Partly(None, q))
        /\ BlockFollows(x, e, c, None)
    BY <1>16 DEF Ahead, InTouch
  <2>2. \A q \in Streams : Partly(None, q) = FALSE
    BY DEF Partly
  <2>3. \A q \in Streams : Follows(x.streams[q], c[q], FALSE)
    BY <2>1, <2>2
  <2>4. ReadOn(x, frame) = OnData(x, s, data, endStream)
    BY <1>5, <2>1 DEF ReadOn
  <2>5. done2 = IF endStream THEN Append(x.ended, s) ELSE x.ended
    BY <1>14, <1>16, <2>1
  <2>6. o.at = Now(endStream) /\ o.body = c[s].body \o data /\ o.fields = c[s].fields
        /\ o.trailers = c[s].trailers
    BY <1>7, <1>9
  <2>7. c[s].at = "open" /\ c2[s] = o /\ \A q \in Streams \ {s} : c2[q] = c[q]
    BY <1>11, <1>13
  <2>8. Ahead(OnData(x, s, data, endStream), c2, e, None, done2, FALSE)
    BY <1>6, <2>1, <2>3, <2>5, <2>6, <2>7, DataSentAhead
  <2> QED
    BY <2>4, <2>8
<1>17. SentTo(frame, c2, e, None, done2, goaway)
  <2>1. CASE goaway = FALSE
    BY <1>1, <1>11, <1>12, <1>16, <2>1 DEF SentTo
  <2>2. CASE goaway = TRUE
    <3>1. done2 = completed
      BY <1>12, <1>14, <2>2
    <3>2. SentTo(frame, c2, e, None, completed, goaway)
      BY <1>15, <2>2, SentBehind
    <3> QED
      BY <3>1, <3>2
  <2> QED
    BY <2>1, <2>2 DEF TInv, ClientInv
<1>18. client' = c2 /\ encoder' = e /\ fragment' = None /\ completed' = done2 /\ goaway' = goaway
       /\ UNCHANGED <<at, reading, current, log>>
  BY <1>11, <1>12
<1> QED
  BY <1>11, <1>15, <1>17, <1>18, SentFrame

\* Frames that say nothing of a request: c2 differs from c in streams reset.
LEMMA BareForeseen ==
    ASSUME TInv, FutureInv, NEW type \in {"control", "malformed", "ignored", "goaway"},
           Put([type |-> type]), MaySend,
           UNCHANGED <<encoder, fragment, completed, at, reading, current, log>>,
           goaway' = (goaway \/ type = "goaway"), type = "goaway" => fragment = None /\ ~goaway,
           \A q \in Streams : client'[q] = client[q] \/ (client[q].at = "open" /\ client'[q].at = "reset"),
           fragment = None \/ client' = client
    PROVE  FutureInv'
<1>1. PICK frame \in Frames : frame = [type |-> type]
  BY DEF OtherFrames, Frames
<1>2. Put(frame) /\ at \in Reading /\ frame.type = type
  BY <1>1 DEF MaySend
<1>3. PICK c, c2, e, rest, done, over :
        c = client /\ c2 = client' /\ e = encoder /\ rest = fragment /\ done = completed
        /\ over = goaway
  OBVIOUS
<1>4. PICK over2 \in BOOLEAN : over2 <=> (over \/ type = "goaway")
  OBVIOUS
<1>5. over \in BOOLEAN /\ goaway' = over2
  BY <1>3, <1>4 DEF TInv, ClientInv
<1>6. \A q \in Streams : c2[q] = c[q] \/ (c[q].at = "open" /\ c2[q].at = "reset")
  BY <1>3
<1>7. Lasting(c, c2)
  BY <1>6 DEF Lasting
<1>8. ASSUME over = FALSE, NEW x \in Readers, Ahead(x, c, e, rest, done, over)
      PROVE  Ahead(ReadOn(x, frame), c2, e, rest, done, over2)
  <2>1. /\ x.ended = done /\ ~x.over
        /\ \A q \in Streams : Follows(x.streams[q], c[q], Partly(rest, q))
        /\ BlockFollows(x, e, c, rest)
    BY <1>8 DEF Ahead, InTouch
  <2>2. PICK y : y = Passing(x, over2) /\ y.table = x.table /\ y.waits = x.waits
                 /\ y.over = over2 /\ y.streams = x.streams /\ y.ended = x.ended /\ y.last = None
    BY PassingIs
  <2>3. ReadOn(x, frame) = y
    <3>1. over2 = (type = "goaway")
      BY <1>4, <1>8
    <3> QED
      BY <1>2, <2>1, <2>2, <3>1 DEF ReadOn
  <2>4. ASSUME NEW q \in Streams PROVE Follows(y.streams[q], c2[q], Partly(rest, q))
    <3>1. Follows(x.streams[q], c[q], Partly(rest, q))
      BY <2>1
    <3>2. CASE c2[q] = c[q]
      BY <2>2, <3>1, <3>2
    <3>3. CASE c2[q] # c[q]
      <4>1. c2[q].at = "reset" /\ rest = None
        BY <1>3, <1>6, <3>3
      <4>2. Partly(rest, q) = FALSE
        BY <4>1 DEF Partly
      <4> QED
        BY <4>1, <4>2 DEF Follows
    <3> QED
      BY <3>2, <3>3
  <2>5. BlockFollows(y, e, c2, rest)
    <3>1. CASE rest = None
      BY <2>1, <2>2, <3>1 DEF BlockFollows
    <3>2. CASE rest # None
      <4>1. c2 = c
        BY <1>3, <3>2
      <4> QED
        BY <2>1, <2>2, <3>2, <4>1 DEF BlockFollows
    <3> QED
      BY <3>1, <3>2
  <2> QED
    BY <2>1, <2>2, <2>3, <2>4, <2>5 DEF Ahead, InTouch
<1>9. SentTo(frame, c2, e, rest, done, over2)
  <2>1. CASE over = FALSE
    BY <1>3, <1>8, <2>1 DEF SentTo
  <2>2. CASE over = TRUE
    <3>1. over2 = goaway
      BY <1>3, <1>4, <2>2
    <3>2. SentTo(frame, c2, e, rest, completed, goaway)
      BY <1>3, <1>7, <2>2, SentBehind
    <3> QED
      BY <1>3, <3>1, <3>2
  <2> QED
    BY <1>5, <2>1, <2>2
<1>10. client' = c2 /\ encoder' = e /\ fragment' = rest /\ completed' = done /\ goaway' = over2
       /\ Lasting(client, c2) /\ UNCHANGED <<at, reading, current, log>>
  BY <1>3, <1>5, <1>7
<1> QED
  BY <1>2, <1>9, <1>10, SentFrame

LEMMA ResetStreamForeseen ==
    ASSUME TInv, FutureInv, NEW s \in Streams, ResetStream(s)
    PROVE  FutureInv'
<1>1. PICK c \in [Streams -> Outline] : c = client
  BY DEF TInv, ClientInv
<1>2. c[s].at = "open" /\ client' = [c EXCEPT ![s].at = "reset"] /\ goaway \in BOOLEAN
  BY <1>1 DEF ResetStream, TInv, ClientInv
<1>3. \A q \in Streams : client'[q] = client[q] \/ (client[q].at = "open" /\ client'[q].at = "reset")
  BY <1>1, <1>2 DEF Outline
<1>4. goaway' = (goaway \/ "ignored" = "goaway") /\ ("ignored" = "goaway" => fragment = None /\ ~goaway)
  BY <1>2 DEF ResetStream
<1>5. /\ Put([type |-> "ignored"]) /\ MaySend /\ fragment = None
      /\ UNCHANGED <<encoder, fragment, completed, at, reading, current, log>>
  BY DEF ResetStream
<1> QED
  BY <1>3, <1>4, <1>5, BareForeseen

LEMMA SendOtherForeseen ==
    ASSUME TInv, FutureInv, NEW type \in {"control", "malformed"}, SendOther(type)
    PROVE  FutureInv'
<1>1. /\ Put([type |-> type]) /\ MaySend
      /\ UNCHANGED <<client, encoder, fragment, completed, goaway, at, reading, current, log>>
  BY DEF SendOther, sender
<1>2. goaway' = (goaway \/ type = "goaway") /\ (type = "goaway" => fragment = None /\ ~goaway)
  BY <1>1 DEF TInv, ClientInv
<1> QED
  BY <1>1, <1>2, BareForeseen

LEMMA SendGoawayForeseen == ASSUME TInv, FutureInv, SendGoaway PROVE FutureInv'
<1>1. goaway' = (goaway \/ "goaway" = "goaway") /\ ("goaway" = "goaway" => fragment = None /\ ~goaway)
  BY DEF SendGoaway
<1>2. /\ Put([type |-> "goaway"]) /\ MaySend
      /\ UNCHANGED <<client, encoder, fragment, completed, at, reading, current, log>>
  BY DEF SendGoaway
<1> QED
  BY <1>1, <1>2, BareForeseen

\* What leaves the reader and what is to be read alone.
LEMMA FutureKept ==
    ASSUME FutureInv, at \notin Final,
           UNCHANGED <<client, encoder, fragment, completed, goaway, wire, reading, current, outcomes>>
    PROVE  FutureInv'
<1>1. PICK f : IsRun(f, Reader, wire) /\ Foreseen(f, wire, client, encoder, fragment, completed, goaway)
  BY DEF FutureInv
<1>2. Reader' = Reader
  BY ReaderKept DEF reading
<1>3. IsRun(f, Reader', wire') /\ Foreseen(f, wire', client', encoder', fragment', completed', goaway')
  BY <1>1, <1>2
<1> QED
  BY <1>3 DEF FutureInv

LEMMA LeaveForeseen == ASSUME FutureInv, Leave PROVE FutureInv'
<1>1. at \notin Final
  BY DEF Leave, Reading, Final
<1> QED
  BY <1>1, FutureKept DEF Leave, log

LEMMA ClientForeseen ==
    ASSUME TInv, StepInv, TInv', FutureInv, Client
    PROVE  FutureInv'
<1>1. ASSUME NEW s \in Streams, OpenStream(s) PROVE FutureInv'
  BY <1>1, OpenStreamForeseen
<1>2. ASSUME NEW s \in Streams, SendTrailers(s) PROVE FutureInv'
  BY <1>2, SendTrailersForeseen
<1>3. ASSUME NEW s \in Streams, ResetStream(s) PROVE FutureInv'
  BY <1>3, ResetStreamForeseen
<1>4. ASSUME NEW s \in Streams, NEW n \in {0, 1}, NEW endStream \in BOOLEAN, SendData(s, n, endStream)
      PROVE  FutureInv'
  BY <1>4, SendDataForeseen
<1>5. ASSUME NEW type \in {"control", "malformed"}, SendOther(type) PROVE FutureInv'
  BY <1>5, SendOtherForeseen
<1> QED
  BY <1>1, <1>2, <1>3, <1>4, <1>5, SendContinuationForeseen, SendGoawayForeseen, LeaveForeseen
     DEF Client

----------------------------------------------------------------------------
(* What the server reads.                                                  *)

\* The frame at the front is read as it was foreseen.
LEMMA ReadFront ==
    ASSUME TInv, FutureInv, at \notin Final, wire # <<>>, Taken,
           Reader' = ReadOn(Reader, Head(wire))
    PROVE  FutureInv'
<1>1. PICK f : IsRun(f, Reader, wire) /\ Foreseen(f, wire, client, encoder, fragment, completed, goaway)
  BY DEF FutureInv
<1>2. PICK r, frames, c, e, rest, done, over :
        r = Reader /\ frames = wire /\ c = client /\ e = encoder /\ rest = fragment
        /\ done = completed /\ over = goaway
  OBVIOUS
<1>3. frames \in Seq(Frames) /\ frames # <<>> /\ IsRun(f, r, frames)
      /\ Foreseen(f, frames, c, e, rest, done, over)
  BY <1>1, <1>2 DEF TInv, ClientInv
<1>4. PICK tail, next : tail = Tail(frames) /\ next = ReadOn(r, Head(frames))
  OBVIOUS
<1>5. /\ tail \in Seq(Frames) /\ Len(frames) = Len(tail) + 1
      /\ \E g : RunsFrom(f, g, next, tail)
  BY <1>3, <1>4, RunTail
<1>6. PICK g : RunsFrom(f, g, next, tail)
  BY <1>5
<1>7. IsRun(g, next, tail) /\ \A k \in 0..Len(tail) : g[k] = f[k + 1]
  BY <1>6 DEF RunsFrom
<1>8. PICK n \in Nat : n = Len(tail) /\ Len(frames) = n + 1
  BY <1>5
<1>9. ASSUME NEW k \in 0..n, g[k].last # None PROVE Intact(c, g[k].last)
  <2>1. k + 1 \in 0..(n + 1) /\ g[k] = f[k + 1]
    BY <1>7, <1>8
  <2>2. \A i \in 0..(n + 1) : f[i].last # None => Intact(c, f[i].last)
    BY <1>3, <1>8 DEF Foreseen
  <2> QED
    BY <1>9, <2>1, <2>2
<1>10. g[n] = f[n + 1]
  BY <1>7, <1>8
<1>11. Ahead(g[n], c, e, rest, done, over)
  BY <1>3, <1>8, <1>10 DEF Foreseen
<1>12. Foreseen(g, tail, c, e, rest, done, over)
  BY <1>8, <1>9, <1>11 DEF Foreseen
<1>13. Reader' = next /\ wire' = tail /\ client' = c /\ encoder' = e /\ fragment' = rest
       /\ completed' = done /\ goaway' = over
  BY <1>2, <1>4 DEF Taken, sender
<1>14. IsRun(g, Reader', wire') /\ Foreseen(g, wire', client', encoder', fragment', completed', goaway')
  BY <1>7, <1>12, <1>13
<1> QED
  BY <1>14 DEF FutureInv

\* The map of streams as the reader has it.
LEMMA StoreReads ==
    ASSUME TInv, NEW s \in Streams, NEW stream \in Stream, NEW endStream \in BOOLEAN,
           Store(s, stream, endStream), current = None, header' = None, outcomes' = outcomes,
           NEW x, x.table = table', x.over = FALSE, x.streams = Reader.streams,
           x.ended = Reader.ended
    PROVE  Reader' = Stored(x, s, stream, endStream)
<1>1. PICK m : m = [q \in Streams |-> StreamOf(q)]
  OBVIOUS
<1>2. Reader.streams = m /\ Reader.ended = outcomes
  BY <1>1 DEF Reader, Answered
<1>3. PICK kept : kept = IF endStream THEN NewStream ELSE stream
  OBVIOUS
<1>4. PICK d, old, d2, new :
        /\ d = DOMAIN streams /\ old = streams /\ new = streams'
        /\ d2 = IF endStream THEN d \ {s} ELSE d \cup {s}
        /\ new = [q \in d2 |-> IF q = s THEN stream ELSE old[q]]
  BY DEF Store
<1>5. PICK m2 : m2 = [q \in Streams |-> IF q \in d2 THEN new[q] ELSE NewStream]
  OBVIOUS
<1>6. m2 = [m EXCEPT ![s] = kept]
  <2>1. \A q \in Streams : m[q] = IF q \in d THEN old[q] ELSE NewStream
    BY <1>1, <1>4 DEF StreamOf
  <2>2. DOMAIN m = Streams /\ DOMAIN m2 = Streams
    BY <1>1, <1>5
  <2>3. ASSUME NEW q \in Streams PROVE m2[q] = IF q = s THEN kept ELSE m[q]
    <3>1. CASE q = s
      <4>1. CASE endStream
        <5>1. q \notin d2
          BY <1>4, <3>1, <4>1
        <5> QED
          BY <1>3, <1>5, <3>1, <4>1, <5>1
      <4>2. CASE ~endStream
        <5>1. q \in d2 /\ new[q] = stream
          BY <1>4, <3>1, <4>2
        <5> QED
          BY <1>3, <1>5, <3>1, <4>2, <5>1
      <4> QED
        BY <4>1, <4>2
    <3>2. CASE q # s
      <4>1. q \in d2 <=> q \in d
        BY <1>4, <3>2
      <4>2. q \in d => new[q] = old[q]
        BY <1>4, <3>2, <4>1
      <4> QED
        BY <1>5, <2>1, <3>2, <4>1, <4>2
    <3> QED
      BY <3>1, <3>2
  <2>4. m = [q \in Streams |-> m[q]] /\ m2 = [q \in Streams |-> m2[q]]
    BY <1>1, <1>5
  <2> QED
    BY <2>2, <2>3, <2>4
<1>7. DOMAIN streams' = d2
  BY <1>4
<1>8. Reader'.streams = m2
  BY <1>4, <1>5, <1>7 DEF Reader, StreamOf, NewStream
<1>9. PICK c2 : c2 = IF endStream THEN [stream |-> s, headers |-> stream.headers, body |-> stream.body]
                     ELSE None
  OBVIOUS
<1>10. current' = c2
  BY <1>9 DEF Store
<1>11. endStream => c2 # None /\ c2.stream = s
  <2>1. endStream => c2 \in CompleteRequest
    BY <1>9 DEF CompleteRequest, Stream
  <2> QED
    BY <1>9, <2>1, Constants
<1>12. PICK o, e2 : o = outcomes /\ e2 = IF endStream THEN Append(o, s) ELSE o
  OBVIOUS
<1>13. Answered(o, c2) = e2
  BY <1>9, <1>11, <1>12 DEF Answered
<1>14. Reader' = [table |-> x.table, waits |-> None, over |-> FALSE, streams |-> m2, last |-> c2,
                  ended |-> e2]
  <2>1. Reader' = [table |-> table', waits |-> header', over |-> FALSE,
                   streams |-> Reader'.streams, last |-> current',
                   ended |-> Answered(outcomes', current')]
    BY DEF Reader
  <2>2. Answered(outcomes', current') = e2
    BY <1>10, <1>12, <1>13
  <2> QED
    BY <1>8, <1>10, <2>1, <2>2
<1>15. Stored(x, s, stream, endStream) =
         [table |-> x.table, waits |-> None, over |-> FALSE, streams |-> m2, last |-> c2, ended |-> e2]
  BY <1>2, <1>3, <1>6, <1>9, <1>12 DEF Stored
<1> QED
  BY <1>14, <1>15

LEMMA ReaderIs ==
    /\ Reader.table = table /\ Reader.waits = header /\ Reader.over = FALSE
    /\ \A s \in Streams : Reader.streams[s] = StreamOf(s)
    /\ Reader.last = current /\ Reader.ended = Answered(outcomes, current)
  BY DEF Reader

LEMMA Ending == ASSUME Fail \/ Close PROVE FutureInv'
  BY DEF FutureInv, Fail, Close, Return, Goto, Final

LEMMA HeadersReadForeseen ==
    ASSUME TInv, FutureInv, at \in Reading, wire # <<>>, NEW s \in Streams, NEW block \in Seq(Items),
           NEW endStream \in BOOLEAN, HeadersRead(s, block, endStream),
           ReadOn(Reader, Head(wire)) = OnHeaders(Reader, s, block, TRUE, endStream)
    PROVE  FutureInv'
<1>1. PICK t \in FitTables : t = table
  BY DEF TInv, ReadingInv
<1>2. PICK decoded : decoded = Decode(t, block)
  OBVIOUS
<1>3. CASE ~decoded.ok
  <2>1. Fail
    BY <1>1, <1>2, <1>3 DEF HeadersRead
  <2> QED
    BY <2>1, Ending
<1>4. CASE decoded.ok
  <2>1. /\ table' = decoded.table
        /\ header' = None
        /\ Store(s, [StreamOf(s) EXCEPT !.headers = decoded.headers], endStream)
        /\ Taken /\ UNCHANGED <<proxied, answer, log>>
    BY <1>1, <1>2, <1>4 DEF HeadersRead
  <2>2. PICK headers \in Seq(Field) : headers = decoded.headers
    BY <1>2, DecodeGives
  <2>3. PICK before \in Stream : before = StreamOf(s)
    BY StreamOfType
  <2>4. PICK stream \in Stream :
          /\ stream = [StreamOf(s) EXCEPT !.headers = decoded.headers]
          /\ stream = [headers |-> headers, body |-> before.body]
    <3>1. [before EXCEPT !.headers = headers] = [headers |-> headers, body |-> before.body]
      BY DEF Stream
    <3>2. [headers |-> headers, body |-> before.body] \in Stream
      BY DEF Stream
    <3> QED
      BY <2>2, <2>3, <3>1, <3>2
  <2>5. PICK r : r = Reader
    OBVIOUS
  <2>6. r.table = t /\ r.over = FALSE /\ r.streams[s] = before
    BY <1>1, <2>3, <2>5, ReaderIs
  <2>7. PICK x : x = Decoding(r, block)
    OBVIOUS
  <2>8. x.table = decoded.table /\ x.over = FALSE /\ x.streams = r.streams /\ x.ended = r.ended
    BY <1>2, <2>6, <2>7 DEF Decoding
  <2>9. current = None /\ outcomes' = outcomes
    BY <2>1 DEF TInv, ReadingInv, Reading, Handling, log
  <2>10. Store(s, stream, endStream)
    BY <2>1, <2>4
  <2>11. Reader' = Stored(x, s, stream, endStream)
    BY <2>1, <2>5, <2>8, <2>9, <2>10, StoreReads
  <2>12. OnHeaders(r, s, block, TRUE, endStream) = Stored(x, s, stream, endStream)
    BY <1>2, <2>2, <2>4, <2>6, <2>7 DEF OnHeaders
  <2>13. Reader' = ReadOn(Reader, Head(wire))
    BY <2>5, <2>11, <2>12
  <2>14. at \notin Final
    BY DEF Reading, Final
  <2> QED
    BY <2>1, <2>13, <2>14, ReadFront
<1> QED
  BY <1>3, <1>4

LEMMA HeadersWaitForeseen ==
    ASSUME TInv, FutureInv, at \in Reading, wire # <<>>, NEW s \in Streams, NEW block \in Seq(Items),
           NEW endStream \in BOOLEAN, HeadersWait(s, block, endStream),
           ReadOn(Reader, Head(wire)) = OnHeaders(Reader, s, block, FALSE, endStream)
    PROVE  FutureInv'
<1>1. PICK waits : waits = [stream |-> s, block |-> block, endStream |-> endStream]
  OBVIOUS
<1>2. header' = waits /\ Taken /\ UNCHANGED <<table, streams, current, log>>
  BY <1>1 DEF HeadersWait
<1>3. current = None /\ outcomes' = outcomes /\ at \notin Final
  BY <1>2 DEF TInv, ReadingInv, Reading, Handling, Final, log
<1>4. PICK m, o : m = [q \in Streams |-> StreamOf(q)] /\ o = outcomes
  OBVIOUS
<1>5. [q \in Streams |-> StreamOf(q)]' = m
  BY <1>2, <1>4 DEF StreamOf, NewStream
<1>6. Reader' = [table |-> table', waits |-> waits, over |-> FALSE, streams |-> m, last |-> None,
                 ended |-> o]
  BY <1>2, <1>3, <1>4, <1>5 DEF Reader, Answered
<1>7. Reader = [table |-> table, waits |-> header, over |-> FALSE, streams |-> m, last |-> None,
                ended |-> o]
  BY <1>3, <1>4 DEF Reader, Answered
<1>8. OnHeaders(Reader, s, block, FALSE, endStream) = Waiting(Reader, waits)
  BY <1>1 DEF OnHeaders
<1>9. Reader' = Waiting(Reader, waits)
  BY <1>2, <1>6, <1>7 DEF Waiting
<1> QED
  BY <1>2, <1>3, <1>8, <1>9, ReadFront

LEMMA ReadHeadersForeseen == ASSUME TInv, FutureInv, ReadHeaders PROVE FutureInv'
<1>1. at \in Reading /\ wire # <<>> /\ Head(wire).type = "headers"
  BY DEF ReadHeaders, Arrives, Reading
<1>2. PICK frame : frame = Head(wire)
  OBVIOUS
<1>3. frame \in Frames
  BY <1>1, <1>2 DEF TInv, ClientInv
<1>4. frame \in HeadersFrames
  BY <1>1, <1>2, <1>3 DEF Frames, HeadersFrames, ContinuationFrames, DataFrames, OtherFrames
<1>5. PICK s \in Streams, block \in Seq(Items), endHeaders \in BOOLEAN, endStream \in BOOLEAN :
        s = frame.stream /\ block = frame.block /\ endHeaders = frame.endHeaders
        /\ endStream = frame.endStream
  BY <1>4 DEF HeadersFrames
<1>6. PICK r : r = Reader /\ r.over = FALSE
  BY ReaderIs
<1>7. ReadOn(r, frame) = OnHeaders(r, s, block, endHeaders, endStream)
  BY <1>1, <1>2, <1>5, <1>6 DEF ReadOn
<1>8. IF endHeaders THEN HeadersRead(s, block, endStream) ELSE HeadersWait(s, block, endStream)
  BY <1>2, <1>5 DEF ReadHeaders
<1>9. CASE endHeaders = TRUE
  BY <1>1, <1>2, <1>6, <1>7, <1>8, <1>9, HeadersReadForeseen
<1>10. CASE endHeaders = FALSE
  BY <1>1, <1>2, <1>6, <1>7, <1>8, <1>10, HeadersWaitForeseen
<1> QED
  BY <1>9, <1>10

LEMMA ReadContinuationForeseen == ASSUME TInv, FutureInv, ReadContinuation PROVE FutureInv'
<1>1. at \in Reading /\ at = "continuation" /\ wire # <<>> /\ Head(wire).type = "continuation"
  BY DEF ReadContinuation, Arrives, Reading
<1>2. PICK frame : frame = Head(wire)
  OBVIOUS
<1>3. frame \in Frames
  BY <1>1, <1>2 DEF TInv, ClientInv
<1>4. frame \in ContinuationFrames
  BY <1>1, <1>2, <1>3 DEF Frames, HeadersFrames, ContinuationFrames, DataFrames, OtherFrames
<1>5. PICK more \in Seq(Items), endHeaders \in BOOLEAN : more = frame.block /\ endHeaders = frame.endHeaders
  BY <1>4 DEF ContinuationFrames
<1>6. header \in HeaderBlock /\ header # None
  BY <1>1 DEF TInv, ReadingInv
<1>7. PICK s \in Streams, before \in Seq(Items), endStream \in BOOLEAN :
        s = header.stream /\ before = header.block /\ endStream = header.endStream
  BY <1>6 DEF HeaderBlock, Items
<1>8. PICK block \in Seq(Items) : block = before \o more
  BY <1>5, <1>7, ConcatProperties
<1>9. PICK r : r = Reader /\ r.over = FALSE /\ r.waits = header
  BY ReaderIs
<1>10. ReadOn(r, frame) = OnHeaders(r, s, block, endHeaders, endStream)
  BY <1>1, <1>2, <1>5, <1>6, <1>7, <1>8, <1>9 DEF ReadOn
<1>11. IF endHeaders THEN HeadersRead(s, block, endStream) ELSE HeadersWait(s, block, endStream)
  BY <1>2, <1>5, <1>7, <1>8 DEF ReadContinuation
<1>12. CASE endHeaders = TRUE
  BY <1>1, <1>2, <1>9, <1>10, <1>11, <1>12, HeadersReadForeseen
<1>13. CASE endHeaders = FALSE
  BY <1>1, <1>2, <1>9, <1>10, <1>11, <1>13, HeadersWaitForeseen
<1> QED
  BY <1>12, <1>13

LEMMA ReadDataForeseen == ASSUME TInv, FutureInv, ReadData PROVE FutureInv'
<1>1. at = "frames" /\ at \notin Final /\ wire # <<>> /\ Head(wire).type = "data"
      /\ Taken /\ UNCHANGED <<table, header, proxied, answer, log>>
  BY DEF ReadData, Arrives, Final
<1>2. PICK frame : frame = Head(wire)
  OBVIOUS
<1>3. frame \in Frames
  BY <1>1, <1>2 DEF TInv, ClientInv
<1>4. frame \in DataFrames
  BY <1>1, <1>2, <1>3 DEF Frames, HeadersFrames, ContinuationFrames, DataFrames, OtherFrames
<1>5. PICK s \in Streams, data \in Seq(Pieces), endStream \in BOOLEAN :
        s = frame.stream /\ data = frame.data /\ endStream = frame.endStream
  BY <1>4 DEF DataFrames
<1>6. PICK before \in Stream : before = StreamOf(s)
  BY StreamOfType
<1>7. PICK body \in Seq(Pieces) : body = before.body \o data
  <2>1. before.body \in Seq(Pieces)
    BY DEF Stream
  <2> QED
    BY <2>1, ConcatProperties
<1>8. PICK stream \in Stream :
        /\ stream = [StreamOf(s) EXCEPT !.body = @ \o data]
        /\ stream = [headers |-> before.headers, body |-> body]
  <2>1. [before EXCEPT !.body = body] = [headers |-> before.headers, body |-> body]
    BY DEF Stream
  <2>2. [headers |-> before.headers, body |-> body] \in Stream
    BY DEF Stream
  <2>3. [before EXCEPT !.body = body] = [StreamOf(s) EXCEPT !.body = @ \o data]
    BY <1>6, <1>7
  <2> QED
    BY <2>1, <2>2, <2>3
<1>9. Store(s, stream, endStream)
  BY <1>2, <1>5, <1>8 DEF ReadData
<1>10. PICK r : r = Reader
  OBVIOUS
<1>11. r.table = table /\ r.over = FALSE /\ r.streams[s] = before
  BY <1>6, <1>10, ReaderIs
<1>12. current = None /\ outcomes' = outcomes /\ header' = None /\ r.table = table'
  BY <1>1, <1>11 DEF TInv, ReadingInv, Handling, log
<1>13. Reader' = Stored(r, s, stream, endStream)
  BY <1>9, <1>10, <1>11, <1>12, StoreReads
<1>14. ReadOn(r, frame) = OnData(r, s, data, endStream)
  BY <1>1, <1>2, <1>5, <1>11 DEF ReadOn
<1>15. OnData(r, s, data, endStream) = Stored(r, s, stream, endStream)
  BY <1>7, <1>8, <1>11 DEF OnData
<1>16. Reader' = ReadOn(Reader, Head(wire))
  BY <1>2, <1>10, <1>13, <1>14, <1>15
<1> QED
  BY <1>1, <1>16, ReadFront

LEMMA ReadOtherForeseen == ASSUME TInv, FutureInv, ReadOther PROVE FutureInv'
<1>1. /\ at = "frames" /\ at \notin Final /\ wire # <<>> /\ Head(wire).type \in {"control", "ignored"}
      /\ Taken /\ UNCHANGED <<at, reading, current, proxied, answer, log>>
  BY DEF ReadOther, Arrives, Final
<1>2. PICK r, frame : r = Reader /\ frame = Head(wire)
  OBVIOUS
<1>3. Reader' = r
  BY <1>1, <1>2, ReaderKept DEF reading, log
<1>4. current = None
  BY <1>1 DEF TInv, ReadingInv, Handling
<1>5. r = Passing(r, FALSE) /\ r.over = FALSE
  BY <1>2, <1>4 DEF Reader, Passing
<1>6. ReadOn(r, frame) = Passing(r, FALSE)
  BY <1>1, <1>2, <1>5 DEF ReadOn
<1> QED
  BY <1>1, <1>2, <1>3, <1>5, <1>6, ReadFront

LEMMA LoopForeseen == ASSUME TInv, FutureInv, Loop PROVE FutureInv'
<1>1. CASE Preface
  <2>1. at \notin Final
    BY <1>1 DEF Preface, Final
  <2> QED
    BY <1>1, <2>1, FutureKept DEF Preface, sender, log
<1>2. CASE ReadFails \/ ReadGoaway \/ ReadEnd
  BY <1>2, Ending DEF ReadFails, ReadGoaway, ReadEnd
<1> QED
  BY <1>1, <1>2, ReadHeadersForeseen, ReadContinuationForeseen, ReadDataForeseen, ReadOtherForeseen
     DEF Loop

----------------------------------------------------------------------------
(* What the server handles and how it ends.                                *)

\* A request is answered: it is no longer what was read last.
LEMMA DoneForeseen ==
    ASSUME TInv, FutureInv, at \in Handling, Done, UNCHANGED <<sender, wire, reading>>
    PROVE  FutureInv'
<1>1. PICK f : IsRun(f, Reader, wire) /\ Foreseen(f, wire, client, encoder, fragment, completed, goaway)
  BY DEF FutureInv, Handling, Final
<1>2. PICK r, frames, c, e, rest, done, over :
        r = Reader /\ frames = wire /\ c = client /\ e = encoder /\ rest = fragment
        /\ done = completed /\ over = goaway
  OBVIOUS
<1>3. frames \in Seq(Frames) /\ IsRun(f, r, frames) /\ Foreseen(f, frames, c, e, rest, done, over)
  BY <1>1, <1>2 DEF TInv, ClientInv
<1>4. PICK n \in Nat : n = Len(frames)
  BY <1>3
<1>5. r \in Readers /\ f[0] = r /\ r.over = FALSE
  <2>1. f \in [0..n -> Readers] /\ f[0] = r
    BY <1>3, <1>4 DEF IsRun
  <2> QED
    BY <1>2, <2>1, ReaderIs
<1>6. PICK q : q = Passing(r, FALSE)
  OBVIOUS
<1>7. q.table = r.table /\ q.waits = r.waits /\ q.over = FALSE /\ q.streams = r.streams
      /\ q.ended = r.ended /\ q.last = None
  BY <1>5, <1>6, PassingIs
<1>8. PICK g : RunsLike(f, g, q, frames)
  BY <1>3, <1>5, <1>6, RunAnswered
<1>9. IsRun(g, q, frames) /\ \A k \in 1..n : g[k] = f[k]
  BY <1>4, <1>8 DEF RunsLike
<1>10. g[0] = q
  BY <1>9 DEF IsRun
<1>11. ASSUME NEW k \in 0..n, g[k].last # None PROVE Intact(c, g[k].last)
  <2>1. k \in 1..n
    BY <1>7, <1>10, <1>11
  <2>2. \A i \in 0..n : f[i].last # None => Intact(c, f[i].last)
    BY <1>3, <1>4 DEF Foreseen
  <2> QED
    BY <1>9, <1>11, <2>1, <2>2
<1>12. Ahead(g[n], c, e, rest, done, over)
  <2>1. Ahead(f[n], c, e, rest, done, over)
    BY <1>3, <1>4 DEF Foreseen
  <2>2. CASE n = 0
    <3>1. g[n] = q /\ f[n] = r
      BY <1>5, <1>10, <2>2
    <3> QED
      BY <1>5, <1>7, <2>1, <3>1 DEF Ahead, InTouch, BlockFollows
  <2>3. CASE n # 0
    <3>1. g[n] = f[n]
      BY <1>9, <2>3
    <3> QED
      BY <2>1, <3>1
  <2> QED
    BY <2>2, <2>3
<1>13. Foreseen(g, frames, c, e, rest, done, over)
  BY <1>4, <1>11, <1>12 DEF Foreseen
<1>14. Reader' = q
  <2>1. current # None /\ current' = None /\ outcomes' = Append(outcomes, current.stream)
    BY DEF TInv, ReadingInv, Done
  <2>2. PICK m, o, p : m = [x \in Streams |-> StreamOf(x)] /\ o = Answered(outcomes, current)
                       /\ p = Answered(outcomes', current')
    OBVIOUS
  <2>3. p = o
    BY <2>1, <2>2 DEF Answered
  <2>4. [x \in Streams |-> StreamOf(x)]' = m
    BY <2>2 DEF StreamOf, NewStream, reading
  <2>5. Reader' = [table |-> table, waits |-> header, over |-> FALSE, streams |-> m, last |-> None,
                   ended |-> o]
    BY <2>1, <2>2, <2>3, <2>4 DEF Reader, reading
  <2>6. Reader = [table |-> table, waits |-> header, over |-> FALSE, streams |-> m,
                  last |-> current, ended |-> o]
    BY <2>2 DEF Reader
  <2> QED
    BY <1>2, <1>6, <2>5, <2>6 DEF Passing
<1>15. wire' = frames /\ client' = c /\ encoder' = e /\ fragment' = rest /\ completed' = done
       /\ goaway' = over
  BY <1>2 DEF sender
<1>16. IsRun(g, Reader', wire') /\ Foreseen(g, wire', client', encoder', fragment', completed', goaway')
  BY <1>9, <1>13, <1>14, <1>15
<1> QED
  BY <1>16 DEF FutureInv

\* A step of a request that is handled still.
LEMMA HandlingForeseen ==
    ASSUME FutureInv, at \in Handling, UNCHANGED <<sender, wire, reading, current, outcomes>>
    PROVE  FutureInv'
<1>1. at \notin Final
  BY DEF Handling, Final
<1> QED
  BY <1>1, FutureKept DEF sender

LEMMA ServerForeseen == ASSUME TInv, FutureInv, Answering \/ Proxying PROVE FutureInv'
<1>1. CASE NoServer \/ WriteFails \/ ForwardFails
  BY <1>1, Ending DEF NoServer, WriteFails, ForwardFails
<1>2. CASE TooLarge \/ LocalAnswer \/ RefusePath \/ NoUpstreamLeft \/ Forward \/ Collect
           \/ (\E asked \in Asked, found \in Found, read \in Lengths \cup {NoRange} :
                 ServeFile(asked, found, read))
           \/ (\E upstreams \in {{}, Upstreams} : Proxy(upstreams))
           \/ (\E u \in Upstreams : Connect(u) \/ \E late \in BOOLEAN : ConnectFails(u, late))
  <2>1. at \in {"request", "connect", "forward", "collect"}
        /\ UNCHANGED <<sender, wire, reading, current, outcomes>>
    BY <1>2 DEF TooLarge, LocalAnswer, RefusePath, NoUpstreamLeft, Forward, Collect, Proxy, Connect,
                ConnectFails, ServeFile, Request, log
  <2> QED
    BY <2>1, HandlingForeseen DEF Handling
<1>3. CASE ResponseHeaders \/ ResponseData
  <2>1. at \in Handling /\ UNCHANGED <<sender, wire, reading>>
        /\ (Done \/ UNCHANGED <<outcomes, current>>)
    BY <1>3 DEF ResponseHeaders, ResponseData, Handling
  <2>2. CASE Done
    BY <2>1, <2>2, DoneForeseen
  <2>3. CASE UNCHANGED <<outcomes, current>>
    BY <2>1, <2>3, HandlingForeseen
  <2> QED
    BY <2>1, <2>2, <2>3
<1> QED
  BY <1>1, <1>2, <1>3 DEF Answering, Proxying

LEMMA FutureInvInit == ASSUME Init PROVE FutureInv
<1>1. PICK c, e, m, t, s : c = client /\ e = encoder /\ t = table /\ s = streams
                           /\ m = [q \in Streams |-> NewStream]
  OBVIOUS
<1>2. PICK none : none = <<>>
  OBVIOUS
<1>3. /\ c = [q \in Streams |-> [at |-> "idle", fields |-> none, body |-> none, trailers |-> FALSE]]
      /\ e = EmptyEncoder(TableSize) /\ t = EmptyTable(TableSize) /\ s = none
      /\ wire = none /\ fragment = None /\ completed = none /\ goaway = FALSE
      /\ header = None /\ current = None /\ outcomes = none
  BY <1>1, <1>2 DEF Init
<1>4. t \in FitTables /\ Matches(t, e)
  <2>1. t \in FitTables /\ t.dynamic = <<>> /\ t.max = TableSize
    BY <1>3, Constants, EmptyTableFits
  <2> QED
    BY <1>3, <2>1, Constants, EmptySeq DEF EmptyEncoder, Encoders, Matches
<1>5. m \in [Streams -> Stream] /\ none \in Seq(Streams)
  BY <1>1, <1>2, NewStreamType, EmptySeq
<1>6. [q \in Streams |-> StreamOf(q)] = m
  <2>1. DOMAIN none = {}
    BY <1>2
  <2>2. \A q \in Streams : q \notin DOMAIN streams
    BY <1>1, <1>3, <2>1
  <2> QED
    BY <1>1, <2>2 DEF StreamOf
<1>7. PICK r : r = [table |-> t, waits |-> None, over |-> FALSE, streams |-> m, last |-> None,
                    ended |-> none]
  OBVIOUS
<1>8. r \in Readers
  BY <1>4, <1>5, <1>7 DEF Readers
<1>9. Reader = r
  BY <1>1, <1>3, <1>6, <1>7 DEF Reader, Answered
<1>10. PICK f : IsRun(f, r, <<>>)
  BY <1>8, RunEmpty
<1>11. f[0] = r /\ Len(<<>>) = 0
  BY <1>10 DEF IsRun
<1>12. r.table = t /\ r.waits = None /\ r.over = FALSE /\ r.last = None /\ r.ended = none
       /\ \A q \in Streams : r.streams[q] = NewStream
  BY <1>1, <1>7
<1>13. \A q \in Streams : Partly(None, q) = FALSE
  BY DEF Partly
<1>14. ASSUME NEW q \in Streams PROVE Follows(r.streams[q], c[q], Partly(None, q))
  <2>1. c[q] = [at |-> "idle", fields |-> none, body |-> none, trailers |-> FALSE]
    BY <1>3
  <2>2. c[q].at = "idle" /\ c[q].body = <<>> /\ ~c[q].trailers
    BY <1>2, <2>1
  <2> QED
    BY <1>12, <1>13, <2>2 DEF Follows
<1>15. BlockFollows(r, e, c, None)
  BY <1>4, <1>12 DEF BlockFollows
<1>16. Ahead(r, c, e, None, none, FALSE)
  BY <1>12, <1>14, <1>15 DEF Ahead, InTouch
<1>17. Foreseen(f, <<>>, c, e, None, none, FALSE)
  <2>1. \A k \in 0..0 : f[k].last = None
    BY <1>11, <1>12
  <2> QED
    BY <1>11, <1>16, <2>1 DEF Foreseen
<1>18. IsRun(f, Reader, wire) /\ Foreseen(f, wire, client, encoder, fragment, completed, goaway)
  BY <1>1, <1>2, <1>3, <1>9, <1>10, <1>17
<1> QED
  BY <1>18 DEF FutureInv

LEMMA FutureInvNext ==
    ASSUME TInv, StepInv, TInv', FutureInv, [Next]_vars
    PROVE  FutureInv'
<1>1. CASE UNCHANGED vars
  <2>1. CASE at \in Final
    BY <1>1, <2>1 DEF FutureInv, vars
  <2>2. CASE at \notin Final
    BY <1>1, <2>2, FutureKept DEF vars, sender, log
  <2> QED
    BY <2>1, <2>2
<1> QED
  BY <1>1, ClientForeseen, LoopForeseen, ServerForeseen DEF Next

\* What is noted at the end.
EndInv ==
    /\ at = "closed" => outcomes = completed
    /\ at = "failed" => outcomes = <<>>

LEMMA EndOpen == ASSUME at' \notin Final PROVE EndInv'
  BY DEF EndInv, Final
LEMMA EndFailed == ASSUME Fail PROVE EndInv'
  BY DEF EndInv, Fail, Return, Goto
LEMMA EndClosed == ASSUME Close, outcomes = completed PROVE EndInv'
  BY DEF EndInv, Close, Return, Goto, sender

LEMMA EndGoaway == ASSUME TInv, FutureInv, ReadGoaway PROVE EndInv'
<1>1. at = "frames" /\ wire # <<>> /\ Head(wire).type = "goaway" /\ Close
  BY DEF ReadGoaway, Arrives
<1>2. PICK f : IsRun(f, Reader, wire) /\ Foreseen(f, wire, client, encoder, fragment, completed, goaway)
  BY <1>1 DEF FutureInv, Final
<1>3. PICK r, frames, frame : r = Reader /\ frames = wire /\ frame = Head(frames)
  OBVIOUS
<1>4. frames \in Seq(Frames) /\ frames # <<>> /\ IsRun(f, r, frames) /\ frame.type = "goaway"
  BY <1>1, <1>2, <1>3 DEF TInv, ClientInv
<1>5. PICK y : y = f[1] /\ y = ReadOn(r, frame)
  BY <1>3, <1>4, RunTail
<1>6. current = None
  BY <1>1 DEF TInv, ReadingInv, Handling
<1>7. r.over = FALSE /\ r.ended = outcomes
  BY <1>3, <1>6, ReaderIs DEF Answered
<1>8. y = Passing(r, TRUE)
  BY <1>4, <1>5, <1>7 DEF ReadOn
<1>9. y.over = TRUE /\ y.ended = outcomes
  BY <1>7, <1>8 DEF Passing
<1>10. f[Len(frames)] = y
  BY <1>4, <1>5, <1>9, RunOver
<1>11. f[Len(wire)].ended = completed
  BY <1>2 DEF Foreseen, Ahead
<1>12. outcomes = completed
  BY <1>3, <1>9, <1>10, <1>11
<1> QED
  BY <1>1, <1>12, EndClosed

LEMMA EndOfWire == ASSUME TInv, FutureInv, ReadEnd PROVE EndInv'
<1>1. CASE at = "frames" /\ Close
  <2>1. PICK f : IsRun(f, Reader, wire) /\ Foreseen(f, wire, client, encoder, fragment, completed, goaway)
    BY <1>1 DEF FutureInv, Final
  <2>2. wire = <<>>
    BY DEF ReadEnd
  <2>3. Len(wire) = 0
    BY <2>2
  <2>4. current = None
    BY <1>1 DEF TInv, ReadingInv, Handling
  <2>5. f[0].ended = outcomes
    BY <2>1, <2>4, ReaderIs DEF IsRun, Answered
  <2>6. f[0].ended = completed
    BY <2>1, <2>3 DEF Foreseen, Ahead
  <2> QED
    BY <1>1, <2>5, <2>6, EndClosed
<1> QED
  BY <1>1, EndFailed DEF ReadEnd

LEMMA EndInvNext == ASSUME TInv, FutureInv, EndInv, [Next]_vars PROVE EndInv'
<1>1. CASE UNCHANGED vars
  BY <1>1 DEF EndInv, vars, sender, log
<1>2. CASE Client
  <2>1. at \in Reading /\ at' = at
    BY <1>2 DEF Client, OpenStream, SendTrailers, SendContinuation, SendData, ResetStream, SendOther,
                SendGoaway, Leave, MaySend
  <2> QED
    BY <2>1, EndOpen DEF Reading, Final
<1>3. CASE Loop
  <2>1. CASE Preface \/ ReadData \/ ReadOther
    <3>1. at' \in {"frames", "request"}
      BY <2>1 DEF Preface, ReadData, ReadOther, Store, Goto, Arrives
    <3> QED
      BY <3>1, EndOpen DEF Final
  <2>2. CASE ReadHeaders \/ ReadContinuation
    <3>1. \E s, block, endStream : HeadersRead(s, block, endStream) \/ HeadersWait(s, block, endStream)
      BY <2>2 DEF ReadHeaders, ReadContinuation
    <3>2. Fail \/ at' \in {"request", "frames", "continuation"}
      BY <3>1 DEF HeadersRead, HeadersWait, Store, Goto
    <3> QED
      BY <3>2, EndFailed, EndOpen DEF Final
  <2>3. CASE ReadFails
    BY <2>3, EndFailed DEF ReadFails
  <2> QED
    BY <1>3, <2>1, <2>2, <2>3, EndGoaway, EndOfWire DEF Loop
<1>4. CASE Answering \/ Proxying
  <2>1. CASE NoServer \/ WriteFails \/ ForwardFails
    BY <2>1, EndFailed DEF NoServer, WriteFails, ForwardFails
  <2>2. CASE TooLarge \/ LocalAnswer \/ RefusePath \/ NoUpstreamLeft \/ Forward \/ Collect
             \/ (\E asked \in Asked, found \in Found, read \in Lengths \cup {NoRange} :
                   ServeFile(asked, found, read))
             \/ (\E upstreams \in {{}, Upstreams} : Proxy(upstreams))
             \/ (\E u \in Upstreams : Connect(u) \/ \E late \in BOOLEAN : ConnectFails(u, late))
    <3>1. at' \in {"request", "connect", "forward", "collect", "respond"}
      BY <2>2 DEF TooLarge, LocalAnswer, RefusePath, NoUpstreamLeft, Forward, Collect, Proxy, Connect,
                  ConnectFails, ServeFile, Request, Respond, Goto
    <3> QED
      BY <3>1, EndOpen DEF Final
  <2>3. CASE ResponseHeaders \/ ResponseData
    <3>1. at' \in {"data", "frames"}
      BY <2>3 DEF ResponseHeaders, ResponseData, Done, Goto
    <3> QED
      BY <3>1, EndOpen DEF Final
  <2> QED
    BY <1>4, <2>1, <2>2, <2>3 DEF Answering, Proxying
<1> QED
  BY <1>1, <1>2, <1>3, <1>4 DEF Next

\* The answers are a beginning of what has been completed.
LEMMA AnsweredInOrder == TInv /\ FutureInv /\ EndInv => CompletedAreAnswered
<1> SUFFICES ASSUME TInv, FutureInv, EndInv PROVE CompletedAreAnswered
  OBVIOUS
<1>1. PICK o, done : o = outcomes /\ done = completed
  OBVIOUS
<1>2. o \in Seq(Streams) /\ done \in Seq(Streams)
  BY <1>1 DEF TInv, ClientInv, AnswerInv
<1>3. \E more \in Seq(Streams) : done = o \o more
  <2>1. CASE at \notin Final
    <3>1. PICK f : IsRun(f, Reader, wire) /\ Foreseen(f, wire, client, encoder, fragment, completed, goaway)
      BY <2>1 DEF FutureInv
    <3>2. PICK r, frames : r = Reader /\ frames = wire
      OBVIOUS
    <3>3. frames \in Seq(Frames) /\ IsRun(f, r, frames)
      BY <3>1, <3>2 DEF TInv, ClientInv
    <3>4. PICK more \in Seq(Streams) : f[Len(frames)].ended = r.ended \o more
      BY <3>3, RunEnded
    <3>5. f[Len(wire)].ended = completed
      BY <3>1 DEF Foreseen, Ahead
    <3>6. done = r.ended \o more
      BY <1>1, <3>2, <3>4, <3>5
    <3>7. CASE current = None
      <4>1. r.ended = o
        BY <1>1, <3>2, <3>7, ReaderIs DEF Answered
      <4> QED
        BY <3>6, <4>1
    <3>8. CASE current # None
      <4>1. PICK s \in Streams : r.ended = Append(o, s)
        <5>1. current.stream \in Streams
          BY <3>8 DEF TInv, ReadingInv, CompleteRequest
        <5> QED
          BY <1>1, <3>2, <3>8, <5>1, ReaderIs DEF Answered
      <4>2. PICK one \in Seq(Streams) : one = <<s>>
        <5>1. <<s>> \in Seq(Streams)
          BY <4>1
        <5> QED
          BY <5>1
      <4>3. r.ended = o \o one
        BY <1>2, <4>1, <4>2, AppendIsConcat
      <4>4. (o \o one) \o more = o \o (one \o more) /\ one \o more \in Seq(Streams)
        BY <1>2, <3>4, <4>2, ConcatAssociative, ConcatProperties
      <4> QED
        BY <3>6, <4>3, <4>4
    <3> QED
      BY <3>7, <3>8
  <2>2. CASE at = "closed"
    <3>1. o = done /\ <<>> \in Seq(Streams)
      BY <1>1, <2>2, EmptySeq DEF EndInv
    <3> QED
      BY <1>2, <3>1, ConcatEmptySeq
  <2>3. CASE at = "failed"
    <3>1. o = <<>>
      BY <1>1, <2>3 DEF EndInv
    <3> QED
      BY <1>2, <3>1, ConcatEmptySeq
  <2> QED
    BY <2>1, <2>2, <2>3 DEF Final
<1>4. Len(o) <= Len(done) /\ o = SubSeq(done, 1, Len(o))
  <2>1. PICK more \in Seq(Streams) : done = o \o more
    BY <1>3
  <2>2. Len(done) = Len(o) + Len(more) /\ Len(more) \in Nat /\ Len(o) \in Nat
    BY <1>2, <2>1, ConcatProperties
  <2>3. SubSeq(o \o more, 1, Len(o)) = o
    BY <1>2, <2>1
  <2> QED
    BY <2>1, <2>2, <2>3
<1>5. at = "closed" => outcomes = completed
  BY DEF EndInv
<1> QED
  BY <1>1, <1>4, <1>5 DEF CompletedAreAnswered

\* A request is sent to one upstream: the one that has let itself be connected.
ReachedInv ==
    /\ at \in Reading \cup {"request", "connect", "forward"} => reached = {}
    /\ at = "forward" => \E u \in Upstreams : candidates = {u}
    /\ reached = {} \/ \E u \in Upstreams : reached = {u}

LEMMA ReachedInvInit == Init => ReachedInv
  BY DEF Init, ReachedInv

LEMMA ReachedKept ==
    ASSUME ReachedInv, reached' = reached, at' \notin {"request", "connect", "forward"} \cup Reading
    PROVE  ReachedInv'
  BY DEF ReachedInv, Reading
LEMMA ReachedNone ==
    ASSUME reached' = {}, at' # "forward"
    PROVE  ReachedInv'
  BY DEF ReachedInv
LEMMA ReachedReading ==
    ASSUME ReachedInv, at \in Reading, reached' = reached, at' # "forward"
    PROVE  ReachedInv'
  BY ReachedNone DEF ReachedInv
LEMMA ReachedEnded == ASSUME Fail \/ Close PROVE ReachedInv'
  BY ReachedNone DEF Fail, Close, Return, Goto

LEMMA ReachedInvNext == ASSUME ReachedInv, [Next]_vars PROVE ReachedInv'
<1>1. CASE UNCHANGED vars
  BY <1>1 DEF ReachedInv, vars, proxied
<1>2. CASE Client
  <2>1. at \in Reading /\ at' = at /\ UNCHANGED proxied
    BY <1>2 DEF Client, OpenStream, SendTrailers, SendContinuation, SendData, ResetStream, SendOther,
                SendGoaway, Leave, MaySend
  <2> QED
    BY <2>1, ReachedReading DEF proxied, Reading
<1>3. CASE Loop
  <2>1. CASE Preface \/ ReadData \/ ReadOther
    <3>1. at \in Reading /\ at' \in {"frames", "request"} /\ UNCHANGED proxied
      BY <2>1 DEF Preface, ReadData, ReadOther, Store, Goto, Arrives, Reading
    <3> QED
      BY <3>1, ReachedReading DEF proxied
  <2>2. CASE ReadHeaders \/ ReadContinuation
    <3>1. at \in Reading
      BY <2>2 DEF ReadHeaders, ReadContinuation, Arrives, Reading
    <3>2. \E s, block, endStream : HeadersRead(s, block, endStream) \/ HeadersWait(s, block, endStream)
      BY <2>2 DEF ReadHeaders, ReadContinuation
    <3>3. \/ Fail
          \/ at' \in {"request", "frames", "continuation"} /\ UNCHANGED proxied
      BY <3>2 DEF HeadersRead, HeadersWait, Store, Goto
    <3> QED
      BY <3>1, <3>3, ReachedEnded, ReachedReading DEF proxied
  <2>3. CASE ReadFails \/ ReadGoaway \/ ReadEnd
    BY <2>3, ReachedEnded DEF ReadFails, ReadGoaway, ReadEnd
  <2> QED
    BY <1>3, <2>1, <2>2, <2>3 DEF Loop
<1>4. CASE Answering \/ Proxying
  <2>1. CASE NoServer \/ WriteFails \/ ForwardFails
    BY <2>1, ReachedEnded DEF NoServer, WriteFails, ForwardFails
  <2>2. CASE TooLarge \/ LocalAnswer \/ RefusePath \/ NoUpstreamLeft \/ Collect
             \/ (\E asked \in Asked, found \in Found, read \in Lengths \cup {NoRange} :
                   ServeFile(asked, found, read))
    <3>1. at' = "respond" /\ reached' = reached
      BY <2>2 DEF TooLarge, LocalAnswer, RefusePath, NoUpstreamLeft, Collect, ServeFile, Respond,
                  Goto, proxied
    <3> QED
      BY <3>1, ReachedKept DEF Reading
  <2>3. CASE (\E upstreams \in {{}, Upstreams} : Proxy(upstreams))
             \/ \E u \in Upstreams, late \in BOOLEAN : ConnectFails(u, late)
    <3>1. at \in {"request", "connect"} /\ reached' = reached /\ at' = "connect"
      BY <2>3 DEF Proxy, ConnectFails, Request, Goto
    <3>2. reached' = {}
      BY <3>1 DEF ReachedInv
    <3> QED
      BY <3>1, <3>2, ReachedNone
  <2>4. CASE \E u \in Upstreams : Connect(u)
    <3>1. PICK u \in Upstreams : Connect(u)
      BY <2>4
    <3>2. reached = {} /\ reached' = reached /\ candidates' = {u}
      BY <3>1 DEF Connect, Request, ReachedInv
    <3> QED
      BY <3>2 DEF ReachedInv
  <2>5. CASE Forward
    <3>1. at = "forward" /\ reached' = reached \cup candidates /\ at' \in {"collect", "respond"}
      BY <2>5 DEF Forward, Request, Respond, Goto
    <3>2. PICK u \in Upstreams : candidates = {u}
      BY <3>1 DEF ReachedInv
    <3>3. reached' = {u}
      BY <3>1, <3>2 DEF ReachedInv
    <3> QED
      BY <3>1, <3>3 DEF ReachedInv, Reading
  <2>6. CASE ResponseHeaders \/ ResponseData
    <3>1. \/ Done
          \/ at' = "data" /\ UNCHANGED proxied
      BY <2>6 DEF ResponseHeaders, ResponseData, Goto
    <3>2. CASE Done
      <4>1. reached' = {} /\ at' = "frames"
        BY <3>2 DEF Done, Goto
      <4> QED
        BY <4>1, ReachedNone
    <3>3. CASE at' = "data" /\ UNCHANGED proxied
      BY <3>3, ReachedKept DEF proxied, Reading
    <3> QED
      BY <3>1, <3>2, <3>3
  <2> QED
    BY <1>4, <2>1, <2>2, <2>3, <2>4, <2>5, <2>6 DEF Answering, Proxying
<1> QED
  BY <1>1, <1>2, <1>3, <1>4 DEF Next

LEMMA IntactFollows == TInv /\ FutureInv /\ ReachedInv => RequestsIntact
<1> SUFFICES ASSUME TInv, FutureInv, ReachedInv, at \in Handling
             PROVE  /\ client[current.stream].at = "ended"
                    /\ current.body = client[current.stream].body
                    /\ client[current.stream].trailers
                         \/ current.headers = client[current.stream].fields
                    /\ Cardinality(reached) <= 1
  BY DEF RequestsIntact
<1>1. PICK f : IsRun(f, Reader, wire) /\ Foreseen(f, wire, client, encoder, fragment, completed, goaway)
  BY DEF FutureInv, Handling, Final
<1>2. f[0].last = current /\ current # None
  BY <1>1, ReaderIs DEF IsRun, TInv, ReadingInv
<1>3. 0 \in 0..Len(wire)
  <2>1. wire \in Seq(Frames)
    BY DEF TInv, ClientInv
  <2> QED
    BY <2>1
<1>4. Intact(client, current)
  BY <1>1, <1>2, <1>3 DEF Foreseen
<1>5. Cardinality(reached) <= 1
  <2>1. CASE reached = {}
    BY <2>1, FS_EmptySet
  <2>2. ASSUME NEW u \in Upstreams, reached = {u} PROVE Cardinality(reached) <= 1
    BY <2>2, FS_Singleton
  <2> QED
    BY <2>1, <2>2 DEF ReachedInv
<1> QED
  BY <1>4, <1>5 DEF Intact

\* A request reaches handle_h2_request as the client has sent it, whatever header
\* blocks, bodies and trailers of other streams came between its frames, and goes
\* to one upstream (RequestsIntact), for any number of streams and frames.
THEOREM RequestsStayIntact == Spec => []RequestsIntact
<1>1. Init => TInv /\ StepInv /\ FutureInv /\ ReachedInv
  BY TInvInit, StepInvInit, FutureInvInit, ReachedInvInit
<1>2. TInv /\ StepInv /\ FutureInv /\ ReachedInv /\ [Next]_vars
        => TInv' /\ StepInv' /\ FutureInv' /\ ReachedInv'
  BY StepsKeep, FutureInvNext, ReachedInvNext
<1>3. TInv /\ FutureInv /\ ReachedInv => RequestsIntact
  BY IntactFollows
<1> QED
  BY <1>1, <1>2, <1>3, PTL DEF Spec

\* The task answers requests in the order in which the client completes them, and
\* when it ends without an error, all that were completed before a GOAWAY
\* (CompletedAreAnswered).
THEOREM CompletedGetAnswered == Spec => []CompletedAreAnswered
<1>1. Init => TInv /\ StepInv /\ FutureInv /\ EndInv
  <2>1. Init => EndInv
    BY DEF Init, EndInv
  <2> QED
    BY <2>1, TInvInit, StepInvInit, FutureInvInit
<1>2. TInv /\ StepInv /\ FutureInv /\ EndInv /\ [Next]_vars
        => TInv' /\ StepInv' /\ FutureInv' /\ EndInv'
  BY StepsKeep, FutureInvNext, EndInvNext
<1>3. TInv /\ FutureInv /\ EndInv => CompletedAreAnswered
  BY AnsweredInOrder
<1> QED
  BY <1>1, <1>2, <1>3, PTL DEF Spec
----------------------------------------------------------------------------
(* The paths of file routes, and the tags of files.                        *)

\* The segments of a path are pieces of it, and none is empty.
LEMMA SegmentsType ==
    ASSUME NEW path \in Seq(Characters)
    PROVE  /\ Segments(path) \in Seq(Seq(Characters))
           /\ \A n \in DOMAIN Segments(path) : \E i \in DOMAIN path :
                path[i] = Segments(path)[n][1]
<1> DEFINE starts == {i \in DOMAIN path : path[i] # "/" /\ (i = 1 \/ path[i - 1] = "/")}
           ends(i) == {j \in i..Len(path) : j = Len(path) \/ path[j + 1] = "/"}
           nth(n) == CHOOSE i \in starts : Cardinality(Below(starts, i)) = n - 1
           size == Cardinality(starts)
           piece(n) == SubSeq(path, nth(n), Min(ends(nth(n))))
<1>1. Len(path) \in Nat /\ DOMAIN path = 1..Len(path)
  BY LenProperties
<1>2. starts \in SUBSET (1..Len(path))
  BY <1>1
<1>3. Segments(path) = [n \in 1..size |-> piece(n)]
  BY DEF Segments, Below
<1> HIDE DEF starts
<1>4. size \in Nat /\ \A n \in 1..size : \E i \in starts : Cardinality(Below(starts, i)) = n - 1
  BY <1>1, <1>2, Ranks
<1>5. \A n \in 1..size : nth(n) \in starts
  BY <1>4
<1>6. ASSUME NEW i \in 1..Len(path) PROVE Min(ends(i)) \in i..Len(path)
  <2>1. Len(path) \in ends(i) /\ ends(i) \in SUBSET Nat
    BY <1>1
  <2> HIDE DEF ends
  <2>2. \E m \in ends(i) : \A k \in ends(i) : m <= k
    BY <2>1, LeastElement
  <2>3. Min(ends(i)) \in ends(i)
    BY <2>2 DEF Min
  <2> QED
    BY <2>3 DEF ends
<1>7. ASSUME NEW n \in 1..size
      PROVE  piece(n) \in Seq(Characters) /\ nth(n) \in 1..Len(path) /\ piece(n)[1] = path[nth(n)]
  <2>1. nth(n) \in 1..Len(path)
    BY <1>2, <1>5
  <2> HIDE DEF nth
  <2>2. Min(ends(nth(n))) \in nth(n)..Len(path)
    BY <1>6, <2>1
  <2> DEFINE o == nth(n)
             e == Min(ends(nth(n)))
  <2> HIDE DEF o, e
  <2>3. o \in 1..Len(path) /\ e \in o..Len(path) /\ piece(n) = SubSeq(path, o, e) /\ o = nth(n)
    BY <2>1, <2>2 DEF o, e
  <2>4. SubSeq(path, o, e) \in Seq(Characters) /\ SubSeq(path, o, e)[1] = path[o]
    BY <1>1, <2>3, SubSeqProperties
  <2> QED
    BY <2>3, <2>4
<1> HIDE DEF piece, nth, size
<1>8. Segments(path) \in Seq(Seq(Characters))
  <2>1. [n \in 1..size |-> piece(n)] \in [1..size -> Seq(Characters)]
    BY <1>7
  <2> QED
    BY <1>3, <1>4, <2>1, SeqDef
<1>9. \A n \in DOMAIN Segments(path) : n \in 1..size /\ Segments(path)[n] = piece(n)
  BY <1>3
<1> QED
  BY <1>1, <1>7, <1>8, <1>9

\* What is left behind an alias is a piece of the path.
LEMMA SuffixType ==
    ASSUME NEW path \in Seq(Characters), NEW match \in Seq(Characters), NEW alias \in BOOLEAN
    PROVE  /\ Suffix(alias, match, path) \in Seq(Characters)
           /\ \A i \in DOMAIN Suffix(alias, match, path) : \E k \in DOMAIN path :
                path[k] = Suffix(alias, match, path)[i]
<1>1. CASE Suffix(alias, match, path) = path
  BY <1>1
<1>2. CASE Suffix(alias, match, path) # path
  <2>1. Suffix(alias, match, path) = SubSeq(path, Len(match) + 1, Len(path)) /\ Len(match) <= Len(path)
    BY <1>2 DEF Suffix, IsPrefix
  <2>2. Len(match) \in Nat /\ Len(path) \in Nat /\ DOMAIN path = 1..Len(path)
    BY LenProperties
  <2> DEFINE s == SubSeq(path, Len(match) + 1, Len(path))
  <2>3. /\ s \in Seq(Characters)
        /\ Len(s) = Len(path) - Len(match)
        /\ \A i \in 1..Len(s) : s[i] = path[Len(match) + i]
    <3>1. Len(match) + 1 \in 1..(Len(path) + 1) /\ Len(path) \in Len(match)..Len(path)
      BY <2>1, <2>2
    <3>2. s \in Seq(Characters) /\ Len(s) = Len(path) - Len(match)
      BY <2>1, <2>2, <3>1, SubSeqProperties
    <3>3. \A i \in 1..Len(s) : s[i] = path[Len(match) + i]
      BY <2>1, <2>2, <3>1, <3>2, SubSeqProperties
    <3> QED
      BY <3>2, <3>3
  <2>4. DOMAIN s = 1..Len(s)
    BY <2>3, LenProperties
  <2> HIDE DEF s
  <2>5. \A i \in DOMAIN s : Len(match) + i \in DOMAIN path /\ s[i] = path[Len(match) + i]
    BY <2>2, <2>3, <2>4
  <2>6. Suffix(alias, match, path) = s
    BY <2>1 DEF s
  <2> QED
    BY <2>3, <2>5, <2>6
<1> QED
  BY <1>1, <1>2

\* A path is refused only for a dot in it, and what is found has names only.
LEMMA FilePathType ==
    ASSUME NEW path \in Seq(Characters), NEW match \in Seq(Characters), NEW alias \in BOOLEAN
    PROVE  LET found == ResolveFilePath(alias, match, path)
           IN  \/ found = NoPath /\ \E n \in DOMAIN path : path[n] = "."
               \/ /\ found \in Seq(Seq(Characters)) /\ found # NoPath
                  /\ \A n \in 1..Len(found) : found[n] \notin Dots
<1> DEFINE suffix == Suffix(alias, match, path)
           found == ResolveFilePath(alias, match, path)
<1>1. /\ suffix \in Seq(Characters)
      /\ \A i \in DOMAIN suffix : \E k \in DOMAIN path : path[k] = suffix[i]
  BY SuffixType
<1>2. found = IF Normal(suffix) THEN Segments(suffix) ELSE NoPath
  BY DEF ResolveFilePath
<1> HIDE DEF suffix, found
<1>3. /\ Segments(suffix) \in Seq(Seq(Characters))
      /\ \A n \in DOMAIN Segments(suffix) : \E i \in DOMAIN suffix :
           suffix[i] = Segments(suffix)[n][1]
  BY <1>1, SegmentsType
<1>4. CASE Normal(suffix)
  <2>1. found = Segments(suffix) /\ found # NoPath
    BY <1>2, <1>3, <1>4, NoPathAssumption
  <2>2. DOMAIN found = 1..Len(found)
    BY <1>3, <2>1, LenProperties
  <2>3. \A n \in DOMAIN found : found[n] \notin Dots
    BY <1>4, <2>1 DEF Normal
  <2> QED
    BY <1>3, <2>1, <2>2, <2>3 DEF found
<1>5. CASE ~Normal(suffix)
  <2>1. PICK n \in DOMAIN Segments(suffix) : Segments(suffix)[n] \in Dots
    BY <1>5 DEF Normal
  <2>2. Segments(suffix)[n][1] = "."
    BY <2>1 DEF Dots
  <2>3. \E k \in DOMAIN path : path[k] = "."
    BY <1>1, <1>3, <2>1, <2>2
  <2> QED
    BY <1>2, <1>5, <2>3 DEF found
<1> QED
  BY <1>4, <1>5

\* The equation that defines depth in PathsStayInside.
DepthIs(f, found) ==
    f = [n \in 0..Len(found) |->
           IF n = 0 THEN 1
           ELSE IF f[n - 1] = 0 THEN 0
           ELSE IF found[n] = <<".", ".">> THEN f[n - 1] - 1
           ELSE IF found[n] = <<".">> THEN f[n - 1] ELSE f[n - 1] + 1]

\* With names only, each component leads one deeper.
LEMMA NamesLeadDown ==
    ASSUME NEW found \in Seq(Seq(Characters)), \A n \in 1..Len(found) : found[n] \notin Dots
    PROVE  (CHOOSE f : DepthIs(f, found))[Len(found)] > 0
<1>1. Len(found) \in Nat
  OBVIOUS
<1> DEFINE down == [n \in 0..Len(found) |-> n + 1]
<1>2. \A n \in 1..Len(found) : found[n] # <<".", ".">> /\ found[n] # <<".">>
  BY DEF Dots
<1>3. DepthIs(down, found)
  <2> DEFINE next(n) == IF n = 0 THEN 1
                        ELSE IF down[n - 1] = 0 THEN 0
                        ELSE IF found[n] = <<".", ".">> THEN down[n - 1] - 1
                        ELSE IF found[n] = <<".">> THEN down[n - 1] ELSE down[n - 1] + 1
  <2>1. ASSUME NEW n \in 0..Len(found) PROVE next(n) = n + 1
    <3>1. CASE n = 0
      BY <3>1
    <3>2. CASE n # 0
      <4>1. n - 1 \in 0..Len(found) /\ n \in 1..Len(found) /\ down[n - 1] = n
        BY <1>1, <3>2
      <4> HIDE DEF down
      <4> QED
        BY <1>2, <3>2, <4>1
    <3> QED
      BY <3>1, <3>2
  <2> HIDE DEF next
  <2>2. down = [n \in 0..Len(found) |-> next(n)]
    BY <2>1
  <2> QED
    BY <2>2 DEF DepthIs, next
<1> DEFINE depth == CHOOSE f : DepthIs(f, found)
<1>4. DepthIs(depth, found)
  BY <1>3
<1> HIDE DEF depth
<1>5. depth[0] = 1
  BY <1>1, <1>4 DEF DepthIs
<1>6. \A n \in 1..Len(found) : depth[n - 1] \in Nat \ {0} => depth[n] \in Nat \ {0}
  <2> SUFFICES ASSUME NEW n \in 1..Len(found), depth[n - 1] \in Nat \ {0}
               PROVE  depth[n] \in Nat \ {0}
    OBVIOUS
  <2>1. n \in 0..Len(found) /\ n # 0
    BY <1>1
  <2>2. depth[n] = depth[n - 1] + 1
    BY <1>2, <1>4, <2>1 DEF DepthIs
  <2> QED
    BY <2>2
<1>7. \A n \in 0..Len(found) : depth[n] \in Nat \ {0}
  <2>1. depth[0] \in Nat \ {0}
    BY <1>5
  <2> QED
    BY <1>1, <1>6, <2>1, IterationStays, Zenon
<1>8. depth[Len(found)] \in Nat \ {0}
  BY <1>1, <1>7
<1> QED
  BY <1>8 DEF depth

\* Paths of any length: whatever an alias takes off, a path that is not refused
\* never leads above the directory of its route, and only a dot makes one refused
\* (PathsStayInside).
THEOREM PathsAlwaysStayInside == ASSUME NEW length \in Nat PROVE PathsStayInside(length)
<1> SUFFICES ASSUME NEW path \in BoundedSeq(Characters, length),
                    NEW match \in {<<"/">>, <<"/", "a">>, <<"/", "a", "/">>},
                    NEW alias \in BOOLEAN
             PROVE  LET found == ResolveFilePath(alias, match, path)
                    IN  IF found = NoPath THEN \E n \in DOMAIN path : path[n] = "."
                        ELSE (CHOOSE f : DepthIs(f, found))[Len(found)] > 0
  BY DEF PathsStayInside, DepthIs
<1>0. "/" \in Characters /\ "." \in Characters /\ "a" \in Characters
  BY DEF Characters
<1>1. path \in Seq(Characters)
  <2>1. PICK m \in 0..length : path \in [1..m -> Characters]
    BY DEF BoundedSeq, SeqOf
  <2> QED
    BY <2>1, SeqDef
<1>2. match \in Seq(Characters)
  <2>1. <<"/">> \in Seq(Characters) /\ <<"/", "a">> \in Seq(Characters) /\ <<"/", "a", "/">> \in Seq(Characters)
    BY <1>0
  <2> QED
    BY <2>1
<1> DEFINE found == ResolveFilePath(alias, match, path)
<1>3. \/ found = NoPath /\ \E n \in DOMAIN path : path[n] = "."
      \/ /\ found \in Seq(Seq(Characters)) /\ found # NoPath
         /\ \A n \in 1..Len(found) : found[n] \notin Dots
  BY <1>1, <1>2, FilePathType
<1> HIDE DEF found
<1>4. CASE found = NoPath
  BY <1>3, <1>4 DEF found
<1>5. CASE found # NoPath
  <2>1. (CHOOSE f : DepthIs(f, found))[Len(found)] > 0
    BY <1>3, <1>5, NamesLeadDown
  <2> QED
    BY <1>5, <2>1 DEF found
<1> QED
  BY <1>4, <1>5

\* A time between two of one second is of that second too.
LEMMA SecondsBetween ==
    ASSUME NEW a \in Nat, NEW b \in Nat, NEW c \in Nat, a <= b, b <= c,
           \/ a \div Second = c \div Second
           \/ c <= (a \div Second) * Second
    PROVE  b \div Second = c \div Second
<1> DEFINE p == a \div Second
           q == b \div Second
           r == c \div Second
<1>1. /\ p \in Int /\ a >= Second * p /\ a < Second * p + Second
      /\ q \in Int /\ b >= Second * q /\ b < Second * q + Second
      /\ r \in Int /\ c >= Second * r /\ c < Second * r + Second
  BY SecondAssumption
<1>2. p = r \/ c <= p * Second
  OBVIOUS
<1> HIDE DEF p, q, r
<1>3. ASSUME NEW x \in Int, NEW y \in Int, x < y PROVE Second * x + Second <= Second * y
  <2>1. PICK d \in Nat : y = x + 1 + d
    <3>1. y - x - 1 \in Nat
      BY <1>3
    <3> QED
      BY <3>1
  <2>2. Second * d \in Nat
    BY SecondAssumption
  <2>3. Second * y = Second * x + Second + Second * d
    BY <2>1, SecondAssumption
  <2> QED
    BY <2>2, <2>3, SecondAssumption
<1>4. p <= q /\ q <= r
  BY <1>1, <1>3, SecondAssumption
<1>5. CASE p = r
  BY <1>1, <1>4, <1>5 DEF q, r
<1>6. CASE c <= p * Second
  <2>1. ~(p < r)
    BY <1>1, <1>3, <1>6, SecondAssumption
  <2> QED
    BY <1>1, <1>4, <2>1 DEF q, r
<1> QED
  BY <1>2, <1>5, <1>6

\* Files of any sizes, written at any times: a client that is told 304 has what the
\* file has now, or what was written in the same second (CacheStaysTrue).
THEOREM CachesAlwaysStayTrue ==
    ASSUME NEW sizes, NEW last \in Nat PROVE CacheStaysTrue(sizes, last)
<1> SUFFICES ASSUME NEW versions \in [1..3 -> [size : sizes, modified : 0..last]],
                    \A i \in 1..2 : versions[i].modified <= versions[i + 1].modified,
                    NEW early \in 1..3, NEW late \in early..3, NEW now \in late..3,
                    NEW asked \in [range : {NoRange}, etags : {{}, {Copy(versions, early, late).etag}},
                                   dates : {{}, {Copy(versions, early, late).date}}],
                    FileAnswer(asked, [kind |-> "file", size |-> versions[now].size,
                                       modified |-> versions[now].modified],
                               versions[now].size).status = 304
             PROVE  LET copy == Copy(versions, early, late)
                    IN  \/ copy.content = now
                        \/ LastModified(versions[copy.content]) = LastModified(versions[now])
  BY DEF CacheStaysTrue
<1> DEFINE found == [kind |-> "file", size |-> versions[now].size,
                     modified |-> versions[now].modified]
           a == versions[early].modified
           b == versions[late].modified
           c == versions[now].modified
<1>1. a \in Nat /\ b \in Nat /\ c \in Nat /\ a <= b /\ b <= c
  <2>1. \A i \in 1..3 : versions[i].modified \in 0..last
    OBVIOUS
  <2>2. versions[1].modified <= versions[2].modified /\ versions[2].modified <= versions[3].modified
    OBVIOUS
  <2>3. \A i \in 1..3, j \in 1..3 : i <= j => versions[i].modified <= versions[j].modified
    BY <2>1, <2>2
  <2> QED
    BY <2>1, <2>3
<1>2. NotModified(asked, found)
  BY DEF FileAnswer, ContentResponse
<1>3. \/ a \div Second = c \div Second
      \/ c <= (a \div Second) * Second
  BY <1>2 DEF NotModified, Etag, LastModified, Copy
<1>4. b \div Second = c \div Second
  <2>0. PICK x \in Nat, y \in Nat, z \in Nat : x = a /\ y = b /\ z = c
    BY <1>1
  <2>1. x <= y /\ y <= z
    BY <1>1, <2>0
  <2>2. \/ x \div Second = z \div Second
        \/ z <= (x \div Second) * Second
    BY <1>3, <2>0, Zenon
  <2>3. y \div Second = z \div Second
    BY <2>1, <2>2, SecondsBetween
  <2> QED
    BY <2>0, <2>3, Zenon
<1>5. Copy(versions, early, late).content = late
  BY DEF Copy
<1> QED
  BY <1>4, <1>5 DEF LastModified

\* No path leads out of the directory of its route, and no client keeps content of a
\* file because it is told wrongly that the file has not changed (FilesServedTruly):
\* an instance of the two theorems before, which hold for all lengths and times.
THEOREM FilesAreServedTruly == Spec => []FilesServedTruly
<1>1. FilesServedTruly
  BY PathsAlwaysStayInside, CachesAlwaysStayTrue DEF FilesServedTruly
<1> QED
  BY <1>1, PTL

----------------------------------------------------------------------------
(* Lengths, padding and priority of frames.                                *)

\* A length of 24 bits is read as it was written.
LEMMA LengthsAreRead ==
    ASSUME NEW length \in Nat, length < 16777216 PROVE ReadLength(WriteLength(length)) = length
<1> DEFINE middle == length \div 256
<1>2. length \div 65536 \in Nat /\ length \div 65536 < 256
  BY SMT
<1>3. middle \in Nat /\ middle \div 256 = length \div 65536
  BY SMT
<1>4. length = 256 * middle + (length % 256) /\ length % 256 \in 0..255
  BY SMT
<1> HIDE DEF middle
<1>5. middle = 256 * (middle \div 256) + (middle % 256) /\ middle % 256 \in 0..255
  BY <1>3, SMT
<1>6. (length \div 65536) % 256 = length \div 65536
  BY <1>2, SMT
<1>7. ReadLength(WriteLength(length))
        = 65536 * (length \div 65536) + 256 * (middle % 256) + (length % 256)
  BY <1>6, SMT DEF ReadLength, WriteLength, middle
<1> QED
  BY <1>2, <1>3, <1>4, <1>5, <1>7, SMT

\* Exactly what a peer can have framed is read.
LEMMA PossibleIsRead ==
    ASSUME NEW payload \in Seq(Nat), NEW padded \in BOOLEAN, NEW priority \in BOOLEAN
    PROVE  /\ HeadersPayload(padded, priority, payload).ok = Possible(padded, priority, payload)
           /\ DataPayload(padded, payload).ok = Possible(padded, FALSE, payload)
<1> DEFINE n == Len(payload)
           first == payload[1]
<1>1. n \in Nat /\ (payload # <<>> <=> n # 0) /\ (n # 0 => first \in Nat)
  BY EmptySeq, LenProperties
<1>2. ASSUME NEW p \in BOOLEAN
      PROVE  Possible(padded, p, payload)
               <=> IF padded THEN n # 0 /\ 1 + first + (IF p THEN 5 ELSE 0) <= n
                   ELSE (IF p THEN 5 ELSE 0) <= n
  <2> DEFINE extra == IF p THEN 5 ELSE 0
  <2>1. extra \in Nat
    OBVIOUS
  <2> HIDE DEF n, first, extra
  <2>2. CASE padded
    <3>1. Possible(padded, p, payload)
            <=> n # 0 /\ \E carried \in 0..n : n = carried + (1 + first) + extra
      BY <1>1, <2>2 DEF Possible, n, first, extra
    <3>2. ASSUME n # 0, 1 + first + extra <= n
          PROVE  \E carried \in 0..n : n = carried + (1 + first) + extra
      <4>0. PICK f \in Nat : f = first
        BY <1>1, <3>2
      <4>1. n - (1 + f) - extra \in 0..n /\ n = (n - (1 + f) - extra) + (1 + f) + extra
        BY <1>1, <2>1, <3>2, <4>0
      <4>2. \E carried \in 0..n : n = carried + (1 + f) + extra
        BY <4>1
      <4> QED
        BY <4>0, <4>2, Zenon
    <3> QED
      <4>1. (n # 0 /\ \E carried \in 0..n : n = carried + (1 + first) + extra)
              <=> n # 0 /\ 1 + first + extra <= n
        BY <1>1, <2>1, <3>2
      <4> QED
        BY <2>2, <3>1, <4>1, Zenon DEF extra
  <2>3. CASE ~padded
    <3>1. Possible(padded, p, payload) <=> \E carried \in 0..n : n = carried + 0 + extra
      BY <2>3 DEF Possible, n, extra
    <3>2. ASSUME extra <= n
          PROVE  \E carried \in 0..n : n = carried + 0 + extra
      <4>1. n - extra \in 0..n
        BY <1>1, <2>1, <3>2
      <4> QED
        BY <1>1, <2>1, <3>2, <4>1
    <3>3. (\E carried \in 0..n : n = carried + 0 + extra) <=> extra <= n
      BY <1>1, <2>1, <3>2
    <3> QED
      BY <2>3, <3>1, <3>3, Zenon DEF extra
  <2> QED
    BY <2>2, <2>3
<1>3. HeadersPayload(padded, priority, payload).ok
        <=> IF padded THEN n # 0 /\ 1 + first + (IF priority THEN 5 ELSE 0) <= n
            ELSE (IF priority THEN 5 ELSE 0) <= n
  <2> HIDE DEF n, first
  <2>1. CASE padded
    <3>1. HeadersPayload(padded, priority, payload).ok
            <=> /\ n # 0 /\ first <= n - 1
                /\ ~(1 + (IF priority THEN 5 ELSE 0) > n - first)
      BY <1>1, <2>1 DEF HeadersPayload, Refused, Between, PaddingFits, EndOf, Start,
                        PriorityOctets, n, first
    <3>2. CASE n = 0
      BY <2>1, <3>1, <3>2
    <3>3. CASE n # 0
      <4>1. PICK f \in Nat : f = first
        BY <1>1, <3>3
      <4>2. PICK extra \in Nat : extra = IF priority THEN 5 ELSE 0
        OBVIOUS
      <4>3. (f <= n - 1 /\ ~(1 + extra > n - f)) <=> 1 + f + extra <= n
        BY <1>1
      <4> QED
        BY <2>1, <3>1, <3>3, <4>1, <4>2, <4>3, Zenon
    <3> QED
      BY <3>2, <3>3
  <2>2. CASE ~padded
    <3>1. HeadersPayload(padded, priority, payload).ok
            <=> ~((IF priority THEN 5 ELSE 0) > n)
      BY <1>1, <2>2 DEF HeadersPayload, Refused, Between, EndOf, Start, PriorityOctets, n
    <3> QED
      BY <1>1, <2>2, <3>1
  <2> QED
    BY <2>1, <2>2
<1>4. DataPayload(padded, payload).ok <=> IF padded THEN n # 0 /\ 1 + first <= n ELSE TRUE
  BY <1>1 DEF DataPayload, Refused, Between, PaddingFits
<1>5. HeadersPayload(padded, priority, payload).ok \in BOOLEAN /\ DataPayload(padded, payload).ok \in BOOLEAN
  BY DEF HeadersPayload, DataPayload, Refused, Between
<1>6. Possible(padded, priority, payload) \in BOOLEAN /\ Possible(padded, FALSE, payload) \in BOOLEAN
  BY DEF Possible
<1>7. HeadersPayload(padded, priority, payload).ok = Possible(padded, priority, payload)
  BY <1>2, <1>3, <1>5, <1>6
<1>8. ASSUME NEW p \in BOOLEAN, p = FALSE
      PROVE  DataPayload(padded, payload).ok = Possible(padded, p, payload)
  <2>1. Possible(padded, p, payload)
          <=> IF padded THEN n # 0 /\ 1 + first + 0 <= n ELSE 0 <= n
    BY <1>2, <1>8
  <2>2. Possible(padded, p, payload) \in BOOLEAN
    BY DEF Possible
  <2> HIDE DEF n, first
  <2>3. DataPayload(padded, payload).ok <=> Possible(padded, p, payload)
    BY <1>1, <1>4, <2>1, <2>2
  <2> QED
    BY <1>5, <2>2, <2>3
<1> QED
  BY <1>7, <1>8

\* What a peer frames is read, without its padding and its priority.
LEMMA FramedIsRead ==
    ASSUME NEW carried \in Seq(Nat), NEW pad \in Seq(Nat), NEW padded \in BOOLEAN,
           NEW priority \in BOOLEAN
    PROVE  LET read == [ok |-> TRUE, read |-> carried]
           IN  /\ HeadersPayload(padded, priority, Framed(padded, pad, priority, carried)) = read
               /\ DataPayload(padded, Framed(padded, pad, FALSE, carried)) = read
<1> DEFINE n == Len(carried)
           behind == IF padded THEN pad ELSE <<>>
           front(p) == (IF padded THEN <<Len(pad)>> ELSE <<>>)
                         \o (IF p THEN [i \in 1..5 |-> 2] ELSE <<>>)
<1>1. n \in Nat /\ Len(pad) \in Nat
  OBVIOUS
<1>2. behind \in Seq(Nat) /\ Len(behind) = IF padded THEN Len(pad) ELSE 0
  OBVIOUS
<1>3. ASSUME NEW p \in BOOLEAN
      PROVE  /\ front(p) \in Seq(Nat) /\ Len(front(p)) = Start(padded, p)
             /\ padded => front(p)[1] = Len(pad)
  <2>1. [i \in 1..5 |-> 2] \in Seq(Nat) /\ Len([i \in 1..5 |-> 2]) = 5
    OBVIOUS
  <2>2. <<Len(pad)>> \in Seq(Nat) /\ Len(<<Len(pad)>>) = 1 /\ <<Len(pad)>>[1] = Len(pad)
    OBVIOUS
  <2> DEFINE five == [i \in 1..5 |-> 2]
             one == <<Len(pad)>>
  <2> HIDE DEF five, one
  <2>3. /\ five \in Seq(Nat) /\ Len(five) = 5
        /\ one \in Seq(Nat) /\ Len(one) = 1 /\ one[1] = Len(pad)
    BY <2>1, <2>2 DEF five, one
  <2>4. front(p) = (IF padded THEN one ELSE <<>>) \o (IF p THEN five ELSE <<>>)
    BY DEF five, one
  <2> QED
    BY <2>3, <2>4, ConcatProperties DEF Start, PriorityOctets
<1> HIDE DEF behind, front
<1>4. ASSUME NEW p \in BOOLEAN
      PROVE  LET payload == Framed(padded, pad, p, carried)
             IN  /\ payload \in Seq(Nat)
                 /\ Len(payload) = Start(padded, p) + n + Len(behind)
                 /\ padded => payload # <<>> /\ payload[1] = Len(pad)
                 /\ SubSeq(payload, Start(padded, p) + 1, Start(padded, p) + n) = carried
  <2> DEFINE a == front(p)
             payload == (a \o carried) \o behind
  <2>0. Framed(padded, pad, p, carried) = payload
    <3>1. Framed(padded, pad, p, carried)
            = (((IF padded THEN <<Len(pad)>> ELSE <<>>) \o (IF p THEN [i \in 1..5 |-> 2] ELSE <<>>))
                 \o carried) \o (IF padded THEN pad ELSE <<>>)
      BY DEF Framed
    <3> QED
      BY <3>1 DEF front, behind
  <2>1. a \in Seq(Nat) /\ Len(a) = Start(padded, p) /\ (padded => a[1] = Len(pad))
    BY <1>3
  <2> HIDE DEF a
  <2>0a. a \in Seq(Nat) /\ carried \in Seq(Nat)
    BY <2>1
  <2>2. /\ a \o carried \in Seq(Nat) /\ Len(a \o carried) = Len(a) + n
        /\ \A i \in 1..Len(a) : (a \o carried)[i] = a[i]
        /\ \A i \in 1..n : (a \o carried)[Len(a) + i] = carried[i]
    BY <2>0a, Parts
  <2> DEFINE ac == a \o carried
  <2> HIDE DEF ac
  <2>3. /\ payload \in Seq(Nat) /\ Len(payload) = Len(ac) + Len(behind)
        /\ \A i \in 1..Len(ac) : payload[i] = ac[i]
    <3>1. ac \in Seq(Nat)
      BY <2>2 DEF ac
    <3> QED
      <4>1. payload = ac \o behind /\ behind \in Seq(Nat)
        BY <1>2 DEF ac
      <4> QED
        BY <3>1, <4>1, Parts
  <2> HIDE DEF payload
  <2>4. Len(payload) = Start(padded, p) + n + Len(behind)
    BY <2>1, <2>2, <2>3 DEF ac
  <2>5. ASSUME padded PROVE payload # <<>> /\ payload[1] = Len(pad)
    <3>1. Len(a) >= 1
      <4>1. Start(padded, p) >= 1
        BY <2>5 DEF Start, PriorityOctets
      <4> QED
        BY <2>1, <4>1
    <3>2. Len(payload) >= 1 /\ 1 \in 1..Len(a) /\ 1 \in 1..Len(ac)
      BY <1>1, <1>2, <2>1, <2>2, <2>3, <3>1 DEF ac
    <3>3. payload[1] = a[1]
      BY <2>2, <2>3, <3>2 DEF ac
    <3> QED
      BY <2>1, <2>5, <3>2, <3>3, EmptySeq
  <2>6. SubSeq(payload, Start(padded, p) + 1, Start(padded, p) + n) = carried
    <3> DEFINE s == SubSeq(payload, Len(a) + 1, Len(a) + n)
    <3>1. Len(a) \in Nat /\ Len(a) + n <= Len(payload)
      BY <1>1, <1>2, <2>1, <2>2, <2>3 DEF ac
    <3>2. s \in Seq(Nat) /\ Len(s) = n /\ \A i \in 1..n : s[i] = payload[Len(a) + i]
      <4>1. Len(a) + 1 \in Int /\ Len(a) + n \in Int /\ (Len(a) + n) - (Len(a) + 1) + 1 = n
        BY <1>1, <3>1
      <4>2. \A i \in (Len(a) + 1)..(Len(a) + n) : payload[i] \in Nat
        <5>1. \A i \in (Len(a) + 1)..(Len(a) + n) : i \in 1..Len(payload)
          BY <1>1, <2>3, <3>1
        <5> QED
          BY <2>3, <5>1, ElementOfSeq
      <4>3. /\ s \in Seq(Nat)
            /\ Len(s) = IF Len(a) + 1 <= Len(a) + n THEN n ELSE 0
            /\ \A i \in 1..n : s[i] = payload[(Len(a) + 1) + i - 1]
        BY <4>1, <4>2, SubSeqProperties
      <4>4. \A i \in 1..n : (Len(a) + 1) + i - 1 = Len(a) + i
        BY <1>1, <3>1
      <4> QED
        BY <1>1, <3>1, <4>3, <4>4
    <3>3. \A i \in 1..n : payload[Len(a) + i] = carried[i]
      <4> TAKE i \in 1..n
      <4>1. Len(a) + i \in 1..Len(ac)
        BY <1>1, <2>2, <3>1 DEF ac
      <4> QED
        BY <2>2, <2>3, <4>1 DEF ac
    <3> HIDE DEF s
    <3>4. s = carried
      BY <3>2, <3>3, SeqEqual
    <3> QED
      BY <2>1, <3>4 DEF s
  <2> QED
    BY <2>0, <2>3, <2>4, <2>5, <2>6
<1>5. ASSUME NEW p \in BOOLEAN
      PROVE  LET payload == Framed(padded, pad, p, carried)
             IN  /\ padded => PaddingFits(payload)
                 /\ Between(payload, Start(padded, p), EndOf(padded, payload))
                      = [ok |-> TRUE, read |-> carried]
                 /\ Start(padded, p) <= EndOf(padded, payload)
                 /\ Start(padded, p) \in Nat /\ EndOf(padded, payload) \in Int
  <2> DEFINE payload == Framed(padded, pad, p, carried)
  <2>1. Start(padded, p) \in Nat /\ (padded => Start(padded, p) >= 1)
    BY DEF Start, PriorityOctets
  <2>2. /\ payload \in Seq(Nat) /\ Len(payload) = Start(padded, p) + n + Len(behind)
        /\ padded => payload # <<>> /\ payload[1] = Len(pad)
        /\ SubSeq(payload, Start(padded, p) + 1, Start(padded, p) + n) = carried
    BY <1>4
  <2> HIDE DEF payload
  <2>3. EndOf(padded, payload) = Start(padded, p) + n
    <3>1. CASE padded
      <4>1. Len(behind) = Len(pad) /\ payload[1] = Len(pad)
        BY <1>2, <2>2, <3>1
      <4>2. Len(payload) = Start(padded, p) + n + Len(pad)
        BY <2>2, <4>1
      <4>3. EndOf(padded, payload) = Len(payload) - Len(pad)
        BY <3>1, <4>1 DEF EndOf
      <4>4. PICK start \in Nat : start = Start(padded, p)
        BY <2>1
      <4>5. EndOf(padded, payload) = (start + n + Len(pad)) - Len(pad)
        BY <4>2, <4>3, <4>4, Zenon
      <4>6. (start + n + Len(pad)) - Len(pad) = start + n
        BY <1>1
      <4> QED
        BY <4>4, <4>5, <4>6, Zenon
    <3>2. CASE ~padded
      BY <1>1, <1>2, <2>1, <2>2, <3>2 DEF EndOf
    <3> QED
      BY <3>1, <3>2
  <2>4. ASSUME padded PROVE PaddingFits(payload)
    <3>1. Len(behind) = Len(pad) /\ payload[1] = Len(pad) /\ payload # <<>>
      BY <1>2, <2>2, <2>4
    <3>2. PICK start \in Nat : start = Start(padded, p) /\ start >= 1
      BY <2>1, <2>4
    <3>3. Len(payload) = start + n + Len(pad)
      BY <2>2, <3>1, <3>2, Zenon
    <3>4. Len(pad) <= start + n + Len(pad) - 1
      BY <1>1, <3>2
    <3>5. payload[1] <= Len(payload) - 1
      <4>1. Len(pad) <= Len(payload) - 1
        BY <3>3, <3>4
      <4> QED
        BY <3>1, <4>1
    <3> QED
      BY <3>1, <3>5 DEF PaddingFits
  <2>5. Between(payload, Start(padded, p), EndOf(padded, payload)) = [ok |-> TRUE, read |-> carried]
    BY <2>2, <2>3 DEF Between
  <2> QED
    BY <1>1, <2>1, <2>3, <2>4, <2>5 DEF payload
<1>6. HeadersPayload(padded, priority, Framed(padded, pad, priority, carried))
        = [ok |-> TRUE, read |-> carried]
  <2> DEFINE payload == Framed(padded, pad, priority, carried)
  <2>1. /\ padded => PaddingFits(payload)
        /\ Between(payload, Start(padded, priority), EndOf(padded, payload))
             = [ok |-> TRUE, read |-> carried]
        /\ Start(padded, priority) <= EndOf(padded, payload)
        /\ Start(padded, priority) \in Nat /\ EndOf(padded, payload) \in Int
    BY <1>5
  <2> HIDE DEF payload
  <2>2. ~(Start(padded, priority) > EndOf(padded, payload))
    BY <2>1
  <2>3. HeadersPayload(padded, priority, payload) = [ok |-> TRUE, read |-> carried]
    BY <2>1, <2>2, Zenon DEF HeadersPayload
  <2> QED
    BY <2>3 DEF payload
<1>7. DataPayload(padded, Framed(padded, pad, FALSE, carried)) = [ok |-> TRUE, read |-> carried]
  BY <1>5 DEF DataPayload
<1> QED
  BY <1>6, <1>7

LEMMA SeqOfMore == ASSUME NEW S, NEW T, S \subseteq T, NEW s \in Seq(S) PROVE s \in Seq(T)
<1>1. s \in [1..Len(s) -> S] /\ Len(s) \in Nat
  BY LenProperties
<1>2. s \in [1..Len(s) -> T]
  BY <1>1
<1> QED
  BY <1>1, <1>2, SeqDef

\* Frames of any length: what a peer has framed, of any octets and with padding of any
\* length that an octet can say, is read without its padding and its priority; of any
\* octets, those that no peer can have framed are refused and no others; and every
\* length of 24 bits is read as it was written (h2_headers_payload, h2_data_payload,
\* read_h2_frame, write_h2_frame).
THEOREM FramesAreRead ==
    /\ \A carried, pad \in Seq(Byte), padded, priority \in BOOLEAN :
         Len(pad) \in Byte => CarriedIsRead(carried, pad, padded, priority)
    /\ \A payload \in Seq(Byte), padded, priority \in BOOLEAN :
         ImpossibleIsRefused(payload, padded, priority)
    /\ \A length \in 0..LongestFrame : LengthIsRead(length)
<1>1. \A octets \in Seq(Byte) : octets \in Seq(Nat)
  <2>1. Byte \subseteq Nat
    BY DEF Byte
  <2> QED
    BY <2>1, SeqOfMore, Zenon
<1>2. ASSUME NEW carried \in Seq(Byte), NEW pad \in Seq(Byte), NEW padded \in BOOLEAN,
             NEW priority \in BOOLEAN
      PROVE  CarriedIsRead(carried, pad, padded, priority)
  BY <1>1, FramedIsRead, Zenon DEF CarriedIsRead
<1>3. ASSUME NEW payload \in Seq(Byte), NEW padded \in BOOLEAN, NEW priority \in BOOLEAN
      PROVE  ImpossibleIsRefused(payload, padded, priority)
  BY <1>1, PossibleIsRead, Zenon DEF ImpossibleIsRefused
<1>4. LongestFrame \in Nat /\ LongestFrame < 16777216
  BY SMT DEF LongestFrame
<1>5. ASSUME NEW length \in 0..LongestFrame PROVE LengthIsRead(length)
  <2>1. length \in Nat /\ length < 16777216
    BY <1>4, SMT
  <2> QED
    BY <2>1, LengthsAreRead, SMT DEF LengthIsRead
<1> QED
  BY <1>2, <1>3, <1>5, Zenon

\* The frames that EncodingsExact asks of.
LEMMA FramesAreTold == ASSUME NEW size \in Nat PROVE FramesTold(size)
<1>1. ASSUME NEW set \in SUBSET Byte, NEW n \in Nat, NEW seq \in BoundedSeq(set, n)
      PROVE  seq \in Seq(Byte) /\ Len(seq) \in 0..n
  <2>1. PICK m \in 0..n : seq \in [1..m -> set]
    BY DEF BoundedSeq, SeqOf
  <2>2. seq \in [1..m -> Byte] /\ m \in Nat
    BY <2>1
  <2>3. seq \in Seq(Byte)
    BY <2>2, SeqDef
  <2>4. Len(seq) = m
    BY <2>2, <2>3, LenProperties
  <2> QED
    BY <2>1, <2>3, <2>4
<1>2. {0, 3} \in SUBSET Byte /\ {0, 1, 3} \in SUBSET Byte /\ 3 \in Nat /\ 0..3 \subseteq Byte
  BY DEF Byte
<1>3. \A seq \in BoundedSeq({0, 3}, 3) : seq \in Seq(Byte) /\ Len(seq) \in Byte
  <2> TAKE seq \in BoundedSeq({0, 3}, 3)
  <2>1. seq \in Seq(Byte) /\ Len(seq) \in 0..3
    BY <1>1, <1>2, Zenon
  <2> QED
    BY <1>2, <2>1, Zenon
<1>4. \A seq \in BoundedSeq({0, 1, 3}, size) : seq \in Seq(Byte)
  BY <1>1, <1>2, Zenon
<1>5. \A length \in LengthBorders : length \in 0..LongestFrame
  <2>1. /\ LongestFrame \in Nat /\ 65536 <= LongestFrame /\ 65535 <= LongestFrame
        /\ 16384 <= LongestFrame /\ 256 <= LongestFrame
    BY SMT DEF LongestFrame
  <2> QED
    BY <2>1, SMT DEF LengthBorders
<1> QED
  BY <1>3, <1>4, <1>5, FramesAreRead, Zenon DEF FramesTold

\* What is in a frame means the same on both sides (EncodingsExact): integers with every
\* prefix and strings, in the Huffman code or not, are read as they are written, padding
\* that may hide a symbol is refused, and so are frames that no peer can have framed.
THEOREM EncodingsAreExact == Spec => []EncodingsExact
<1>1. ASSUME NEW prefixBits \in 4..7 PROVE ReadAsWritten(prefixBits) /\ ReadAsMeant(prefixBits)
  BY IntegersReadAsWritten, IntegersReadAsMeant
<1>2. HuffmanCanonical /\ StringsReadAsWritten /\ PaddingRefused
  BY TableIsCanonical, StringsAreReadAsWritten, PaddingIsRefused
<1>3. FramesTold(7)
  BY FramesAreTold
<1>4. EncodingsExact
  BY <1>1, <1>2, <1>3 DEF EncodingsExact
<1> QED
  BY <1>4, PTL
=============================================================================
