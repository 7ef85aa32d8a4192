----------------------------- MODULE NatLemmas -----------------------------
(***************************************************************************)
(* Facts about the natural numbers, about finite sets of them and about    *)
(* sequences, that the proofs of several components rest on.               *)
(***************************************************************************)
EXTENDS Naturals, FiniteSetTheorems, SequenceTheorems, WellFoundedInduction, TLAPS

\* A set of naturals that is not empty has a least element.
LEMMA LeastElement ==
    ASSUME NEW S \in SUBSET Nat, S # {}
    PROVE  \E n \in S : \A m \in S : n <= m
<1>1. PICK n \in S : \A m \in S : ~(<<m, n>> \in OpToRel(<, Nat))
  BY NatLessThanWellFounded, WFMin
<1>2. \A m \in S : ~(m < n)
  BY <1>1 DEF OpToRel
<1> QED
  BY <1>2

\* Induction from a to b, for a set instead of a predicate.
LEMMA IntervalInduction ==
    ASSUME NEW a \in Nat, NEW b \in Nat, NEW S, a \in S,
           \A n \in a..b : n \in S /\ n < b => n + 1 \in S
    PROVE  a..b \subseteq S
<1> DEFINE Missing == {n \in a..b : n \notin S}
<1> SUFFICES ASSUME Missing # {} PROVE FALSE
  OBVIOUS
<1> HIDE DEF Missing
<1>0. Missing \in SUBSET Nat
  BY DEF Missing
<1>1. PICK n \in Missing : \A m \in Missing : n <= m
  BY <1>0, LeastElement
<1> USE DEF Missing
<1>2. n # a /\ n - 1 \in a..b /\ n - 1 < b
  BY <1>1
<1>3. n - 1 \in S
  BY <1>1, <1>2
<1> QED
  BY <1>1, <1>2, <1>3

\* A value that is changed n times within a set D, the i-th time by step[<<i, .>>]:
\* the values it takes.
Iterates(f, n, D, start, step) ==
    /\ f \in [0..n -> D]
    /\ f[0] = start
    /\ \A i \in 1..n : f[i] = step[<<i, f[i - 1]>>]

LEMMA Iteration ==
    ASSUME NEW n \in Nat, NEW D, NEW start \in D, NEW step \in [(1..n) \X D -> D]
    PROVE  \E f : Iterates(f, n, D, start, step)
<1> DEFINE Runs(m, f) == /\ f[0] = start
                         /\ \A i \in 1..m : f[i] = step[<<i, f[i - 1]>>]
           S == {m \in 0..n : \E f \in [0..m -> D] : Runs(m, f)}
<1>1. 0 \in S
  <2> DEFINE f == [i \in 0..0 |-> start]
  <2>1. f \in [0..0 -> D]
    OBVIOUS
  <2>2. Runs(0, f)
    OBVIOUS
  <2> HIDE DEF f, Runs
  <2>3. \E h \in [0..0 -> D] : Runs(0, h)
    BY <2>1, <2>2
  <2> QED
    BY <2>3
<1>2. ASSUME NEW m \in 0..n, m \in S, m < n
      PROVE  m + 1 \in S
  <2>1. PICK f \in [0..m -> D] : Runs(m, f)
    BY <1>2
  <2> DEFINE last == step[<<m + 1, f[m]>>]
             g == [i \in 0..(m + 1) |-> IF i = m + 1 THEN last ELSE f[i]]
  <2>2. last \in D
    <3>1. m + 1 \in 1..n /\ f[m] \in D
      BY <1>2, <2>1
    <3>2. <<m + 1, f[m]>> \in (1..n) \X D
      BY <3>1
    <3> QED
      BY <3>2
  <2> HIDE DEF last
  <2>3. g \in [0..(m + 1) -> D]
    BY <2>1, <2>2
  <2>4. g[0] = start
    BY <1>2, <2>1
  <2>5. ASSUME NEW i \in 1..(m + 1)
        PROVE  g[i] = step[<<i, g[i - 1]>>]
    <3>1. CASE i = m + 1
      <4>1. i - 1 = m /\ g[i - 1] = f[m]
        BY <1>2, <3>1
      <4>2. g[i] = last
        BY <1>2, <3>1
      <4>3. step[<<i, g[i - 1]>>] = last
        BY <3>1, <4>1 DEF last
      <4> QED
        BY <4>2, <4>3
    <3>2. CASE i # m + 1
      <4>1. i \in 1..m /\ g[i] = f[i] /\ g[i - 1] = f[i - 1]
        BY <1>2, <3>2
      <4> QED
        BY <2>1, <4>1
    <3> QED
      BY <3>1, <3>2
  <2>6. Runs(m + 1, g)
    BY <2>4, <2>5
  <2> HIDE DEF g, Runs
  <2>7. m + 1 \in 0..n
    BY <1>2
  <2>8. \E h \in [0..(m + 1) -> D] : Runs(m + 1, h)
    BY <2>3, <2>6
  <2> QED
    BY <2>7, <2>8
<1> HIDE DEF S
<1>3. 0..n \subseteq S
  BY <1>1, <1>2, IntervalInduction
<1>4. n \in S
  BY <1>3
<1> QED
  BY <1>4 DEF S, Iterates

\* If each change leads from D to D, all values are in D.
LEMMA IterationStays ==
    ASSUME NEW n \in Nat, NEW D, NEW f, f[0] \in D,
           \A i \in 1..n : f[i - 1] \in D => f[i] \in D
    PROVE  \A i \in 0..n : f[i] \in D
<1> DEFINE S == {i \in 0..n : f[i] \in D}
<1>1. 0 \in S
  OBVIOUS
<1>2. ASSUME NEW m \in 0..n, m \in S, m < n
      PROVE  m + 1 \in S
  <2>1. m + 1 \in 1..n /\ (m + 1) - 1 = m /\ f[m] \in D
    BY <1>2
  <2> QED
    BY <2>1
<1> HIDE DEF S
<1>3. 0..n \subseteq S
  BY <1>1, <1>2, IntervalInduction
<1> QED
  BY <1>3 DEF S

\* A number is a multiple of another, and a remainder.
LEMMA Division ==
    ASSUME NEW n \in Nat, NEW size \in Nat \ {0}
    PROVE  \E q \in Nat, r \in 0..(size - 1) : /\ n = size * q + r
                                            /\ n \div size = q /\ n % size = r
<1>1. n \div size \in Int
  OBVIOUS
<1>2. n \div size >= 0
  OBVIOUS
<1>3. n % size \in 0..(size - 1)
  OBVIOUS
<1>4. n = size * (n \div size) + (n % size)
  OBVIOUS
<1>5. PICK q \in Nat : q = n \div size
  BY <1>1, <1>2
<1>6. PICK r \in 0..(size - 1) : r = n % size
  BY <1>3
<1>7. n = size * q + r
  BY <1>4, <1>5, <1>6
<1> QED
  BY <1>5, <1>6, <1>7

\* How many of a set of positions come before one.
Below(set, i) == {j \in set : j < i}

\* A set of positions is finite, and each of its members has a rank of its own.
LEMMA Ranks ==
    ASSUME NEW N \in Nat, NEW set \in SUBSET (1..N)
    PROVE  /\ IsFiniteSet(set) /\ Cardinality(set) \in Nat
           /\ \A i \in set : Cardinality(Below(set, i)) \in 0..(Cardinality(set) - 1)
           /\ \A i, j \in set : Cardinality(Below(set, i)) = Cardinality(Below(set, j)) => i = j
           /\ \A n \in 1..Cardinality(set) : \E i \in set : Cardinality(Below(set, i)) = n - 1
<1>1. IsFiniteSet(1..N)
  BY FS_Interval
<1>2. IsFiniteSet(set) /\ Cardinality(set) \in Nat
  BY <1>1, FS_Subset, FS_CardinalityType
<1>3. \A i \in set : Cardinality(Below(set, i)) \in 0..(Cardinality(set) - 1)
  <2> TAKE i \in set
  <2>1. Below(set, i) \in SUBSET set /\ Below(set, i) # set
    BY DEF Below
  <2>2. IsFiniteSet(Below(set, i)) /\ Cardinality(Below(set, i)) <= Cardinality(set)
        /\ Cardinality(Below(set, i)) # Cardinality(set)
    BY <2>1, <1>2, FS_Subset
  <2>3. Cardinality(Below(set, i)) \in Nat
    BY <2>2, FS_CardinalityType
  <2> QED
    BY <2>2, <2>3, <1>2
<1>4. \A i, j \in set : i < j => Cardinality(Below(set, i)) # Cardinality(Below(set, j))
  <2> SUFFICES ASSUME NEW i \in set, NEW j \in set, i < j
               PROVE  Cardinality(Below(set, i)) # Cardinality(Below(set, j))
    OBVIOUS
  <2>0. \A x \in set : x < i => x < j
    OBVIOUS
  <2>1. Below(set, i) \in SUBSET Below(set, j)
    BY <2>0 DEF Below
  <2>3. i \in Below(set, j) /\ i \notin Below(set, i)
    BY DEF Below
  <2>2. IsFiniteSet(Below(set, j))
    BY <1>2, FS_Subset DEF Below
  <2> QED
    BY <2>1, <2>2, <2>3, FS_Subset
<1>5. \A i, j \in set : Cardinality(Below(set, i)) = Cardinality(Below(set, j)) => i = j
  BY <1>4
<1>6. \A n \in 1..Cardinality(set) : \E i \in set : Cardinality(Below(set, i)) = n - 1
  <2> DEFINE rank == [i \in set |-> Cardinality(Below(set, i))]
             ranks == 0..(Cardinality(set) - 1)
  <2>1. rank \in Injection(set, ranks)
    BY <1>3, <1>5 DEF Injection, IsInjective
  <2>2. IsFiniteSet(ranks) /\ Cardinality(ranks) = Cardinality(set)
    BY <1>2, FS_Interval
  <2>3. rank \in Surjection(set, ranks)
    BY <2>1, <2>2, FS_Injection
  <2>4. \A n \in ranks : \E i \in set : rank[i] = n
    BY <2>3 DEF Surjection
  <2>5. \A n \in ranks : \E i \in set : Cardinality(Below(set, i)) = n
    BY <2>4
  <2> QED
    BY <2>5, <1>2
<1> QED
  BY <1>2, <1>3, <1>5, <1>6

\* What the parts of a sequence are.
LEMMA Parts ==
    ASSUME NEW S, NEW s \in Seq(S), NEW t \in Seq(S)
    PROVE  /\ s \o t \in Seq(S) /\ Len(s \o t) = Len(s) + Len(t)
           /\ \A i \in 1..Len(s) : (s \o t)[i] = s[i]
           /\ \A i \in 1..Len(t) : (s \o t)[Len(s) + i] = t[i]
<1>1. Len(s) \in Nat /\ Len(t) \in Nat
  OBVIOUS
<1>2. s \o t \in Seq(S) /\ Len(s \o t) = Len(s) + Len(t)
  OBVIOUS
<1>3. \A i \in 1..(Len(s) + Len(t)) : (s \o t)[i] = IF i <= Len(s) THEN s[i] ELSE t[i - Len(s)]
  BY ConcatProperties
<1>4. ASSUME NEW i \in 1..Len(s) PROVE (s \o t)[i] = s[i]
  BY <1>1, <1>3
<1>5. ASSUME NEW i \in 1..Len(t) PROVE (s \o t)[Len(s) + i] = t[i]
  <2>1. Len(s) + i \in 1..(Len(s) + Len(t)) /\ ~(Len(s) + i <= Len(s)) /\ (Len(s) + i) - Len(s) = i
    BY <1>1
  <2> QED
    BY <1>3, <2>1
<1> QED
  BY <1>2, <1>4, <1>5

\* Induction over the sequences of a set, for a set instead of a predicate.
LEMMA AppendInduction ==
    ASSUME NEW S, NEW T, <<>> \in T,
           \A s \in Seq(S), e \in S : s \in T => Append(s, e) \in T
    PROVE  Seq(S) \subseteq T
<1> SUFFICES ASSUME NEW s \in Seq(S) PROVE s \in T
  OBVIOUS
<1> DEFINE Reached == {n \in 0..Len(s) : SubSeq(s, 1, n) \in T}
<1>0. Len(s) \in Nat
  OBVIOUS
<1>1. 0 \in Reached
  <2>1. SubSeq(s, 1, 0) = <<>>
    BY SubSeqEmpty
  <2>2. SubSeq(s, 1, 0) \in T
    BY <2>1, Zenon
  <2> QED
    BY <1>0, <2>2
<1>2. ASSUME NEW n \in 0..Len(s), n \in Reached, n < Len(s)
      PROVE  n + 1 \in Reached
  <2>1. SubSeq(s, 1, n) \in Seq(S) /\ s[n + 1] \in S /\ SubSeq(s, 1, n) \in T
    BY <1>0, <1>2
  <2>2. SubSeq(s, 1, n + 1) = Append(SubSeq(s, 1, n), s[n + 1])
    BY <1>0, <1>2
  <2>3. n + 1 \in 0..Len(s)
    BY <1>0, <1>2
  <2> QED
    BY <2>1, <2>2, <2>3
<1> HIDE DEF Reached
<1>3. 0..Len(s) \subseteq Reached
  BY <1>0, <1>1, <1>2, IntervalInduction
<1>4. SubSeq(s, 1, Len(s)) \in T
  BY <1>3 DEF Reached
<1> QED
  BY <1>4, SubSeqFull
=============================================================================
