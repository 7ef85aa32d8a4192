------------------------- MODULE HpackStrings_proofs -------------------------
(***************************************************************************)
(* Proofs about HpackIntegers and HpackStrings: what is written in HPACK   *)
(* is read back.                                                           *)
(*                                                                         *)
(* Integers, for machine integers and groups of any width: recursive       *)
(* functions (the powers of two, the groups of a value, sums) exist and    *)
(* obey their equations; what is left of a value after a group and the sum *)
(* of the groups so far make up the value; no sum is cut off where the     *)
(* value fits the width.                                                   *)
(*                                                                         *)
(* Strings: the rows of the table follow each other as those of a          *)
(* canonical code, so that no code begins another and ones are none.  The  *)
(* decoder therefore completes a symbol with the last bit of each code     *)
(* (CodeIsRead), has read the octets when it has read their codes          *)
(* (CodesAreRead), and keeps as padding what ones are left; a zero among   *)
(* them never becomes all ones again (StaysUnfinished).                    *)
(***************************************************************************)
EXTENDS HpackStrings, NatLemmas

----------------------------------------------------------------------------
(* Powers of two.                                                           *)

\* Powers of two up to n.
Powers(f, n) == f \in [0..n -> Nat] /\ f[0] = 1 /\ \A i \in 1..n : f[i] = 2 * f[i - 1]

LEMMA PowersExist == ASSUME NEW n \in Nat PROVE \E f : Powers(f, n)
<1> DEFINE step == [x \in (1..n) \X Nat |-> 2 * x[2]]
<1>1. step \in [(1..n) \X Nat -> Nat]
  OBVIOUS
<1>2. \A i \in 1..n, k \in Nat : step[<<i, k>>] = 2 * k
  OBVIOUS
<1> HIDE DEF step
<1>3. PICK f : Iterates(f, n, Nat, 1, step)
  BY <1>1, Iteration
<1>4. Powers(f, n)
  <2>1. f \in [0..n -> Nat] /\ f[0] = 1 /\ \A i \in 1..n : f[i] = step[<<i, f[i - 1]>>]
    BY <1>3 DEF Iterates
  <2>2. ASSUME NEW i \in 1..n PROVE f[i] = 2 * f[i - 1]
    <3>1. i - 1 \in 0..n
      OBVIOUS
    <3>2. f[i - 1] \in Nat
      BY <2>1, <3>1
    <3> QED
      BY <1>2, <2>1, <3>2
  <2> QED
    BY <2>1, <2>2 DEF Powers
<1> QED
  BY <1>4

LEMMA PowersAgree ==
    ASSUME NEW m \in Nat, NEW n \in Nat, NEW f, NEW g, Powers(f, m), Powers(g, n), m <= n
    PROVE  f[m] = g[m]
<1> DEFINE Same == {i \in 0..m : f[i] = g[i]}
<1>1. 0 \in Same
  BY DEF Powers
<1>2. ASSUME NEW i \in 0..m, i \in Same, i < m PROVE i + 1 \in Same
  <2>1. i + 1 \in 1..m /\ i + 1 \in 1..n /\ (i + 1) - 1 = i
    BY <1>2
  <2>2. f[i + 1] = 2 * f[i] /\ g[i + 1] = 2 * g[i]
    BY <2>1 DEF Powers
  <2> QED
    BY <1>2, <2>1, <2>2
<1> HIDE DEF Same
<1>3. 0..m \subseteq Same
  BY <1>1, <1>2, IntervalInduction
<1> QED
  BY <1>3 DEF Same

LEMMA TwoToEquation ==
    TwoTo = [n \in Nat |-> IF n = 0 THEN 1 ELSE 2 * TwoTo[n - 1]]
<1> DEFINE Solution(f) == f = [n \in Nat |-> IF n = 0 THEN 1 ELSE 2 * f[n - 1]]
           upTo(n) == CHOOSE f : Powers(f, n)
           h == [n \in Nat |-> upTo(n)[n]]
<1>1. \A n \in Nat : Powers(upTo(n), n)
  BY PowersExist
<1> HIDE DEF upTo
<1>2. ASSUME NEW n \in Nat PROVE h[n] = IF n = 0 THEN 1 ELSE 2 * h[n - 1]
  <2>1. CASE n = 0
    BY <1>1, <2>1 DEF Powers
  <2>2. CASE n # 0
    <3>1. n - 1 \in Nat /\ n - 1 <= n /\ n \in 1..n
      BY <2>2
    <3>2. Powers(upTo(n), n) /\ Powers(upTo(n - 1), n - 1)
      BY <1>1, <3>1
    <3>3. upTo(n - 1)[n - 1] = upTo(n)[n - 1]
      BY <3>1, <3>2, PowersAgree
    <3>4. upTo(n)[n] = 2 * upTo(n)[n - 1]
      BY <3>1, <3>2 DEF Powers
    <3> QED
      BY <2>2, <3>1, <3>3, <3>4
  <2> QED
    BY <2>1, <2>2
<1>3. Solution(h)
  <2>1. h = [n \in Nat |-> h[n]]
    OBVIOUS
  <2> HIDE DEF h
  <2> QED
    BY <1>2, <2>1
<1>4. TwoTo = CHOOSE f : Solution(f)
  BY DEF TwoTo
<1> HIDE DEF h
<1>5. Solution(CHOOSE f : Solution(f))
  <2> HIDE DEF Solution
  <2> QED
    BY <1>3
<1> QED
  BY <1>4, <1>5

LEMMA TwoToNext ==
    /\ TwoTo[0] = 1
    /\ \A n \in Nat : TwoTo[n + 1] = 2 * TwoTo[n]
<1>1. \A n \in Nat : TwoTo[n] = IF n = 0 THEN 1 ELSE 2 * TwoTo[n - 1]
  BY TwoToEquation
<1>2. ASSUME NEW n \in Nat PROVE TwoTo[n + 1] = 2 * TwoTo[n]
  <2>1. n + 1 \in Nat /\ n + 1 # 0 /\ (n + 1) - 1 = n
    OBVIOUS
  <2> QED
    BY <1>1, <2>1
<1> QED
  BY <1>1, <1>2

LEMMA TwoToType == \A n \in Nat : TwoTo[n] \in Nat \ {0} /\ n < TwoTo[n]
<1> DEFINE Good == {n \in Nat : TwoTo[n] \in Nat \ {0} /\ n < TwoTo[n]}
<1>1. 0 \in Good
  BY TwoToNext
<1>2. ASSUME NEW n \in Nat, n \in Good PROVE n + 1 \in Good
  <2>1. TwoTo[n + 1] = 2 * TwoTo[n]
    BY TwoToNext
  <2>2. PICK k \in Nat \ {0} : k = TwoTo[n] /\ n < k
    BY <1>2
  <2>3. TwoTo[n + 1] = 2 * k
    BY <2>1, <2>2
  <2> QED
    BY <2>2, <2>3
<1> HIDE DEF Good
<1>3. ASSUME NEW n \in Nat PROVE n \in Good
  <2>1. 0..n \subseteq Good
    BY <1>1, <1>2, IntervalInduction
  <2> QED
    BY <2>1
<1> QED
  BY <1>3 DEF Good

LEMMA TwoToSum == ASSUME NEW m \in Nat, NEW n \in Nat PROVE TwoTo[m + n] = TwoTo[m] * TwoTo[n]
<1> DEFINE Good == {i \in Nat : TwoTo[m + i] = TwoTo[m] * TwoTo[i]}
<1>1. 0 \in Good
  BY TwoToNext, TwoToType
<1>2. ASSUME NEW i \in Nat, i \in Good PROVE i + 1 \in Good
  <2>1. TwoTo[(m + i) + 1] = 2 * TwoTo[m + i] /\ TwoTo[i + 1] = 2 * TwoTo[i]
    BY TwoToNext
  <2>2. PICK a \in Nat, b \in Nat : a = TwoTo[m] /\ b = TwoTo[i]
    BY TwoToType
  <2>3. TwoTo[m + i] = a * b
    BY <1>2, <2>2
  <2>4. m + (i + 1) = (m + i) + 1
    OBVIOUS
  <2>5. 2 * (a * b) = a * (2 * b)
    OBVIOUS
  <2> QED
    BY <2>1, <2>2, <2>3, <2>4, <2>5
<1> HIDE DEF Good
<1>3. 0..n \subseteq Good
  BY <1>1, <1>2, IntervalInduction
<1> QED
  BY <1>3 DEF Good

LEMMA TwoToGrows == ASSUME NEW m \in Nat, NEW n \in Nat, TwoTo[m] < TwoTo[n] PROVE m < n
<1> SUFFICES ASSUME n <= m PROVE TwoTo[n] <= TwoTo[m]
  BY TwoToType
<1>1. m - n \in Nat /\ n + (m - n) = m
  OBVIOUS
<1>2. TwoTo[m] = TwoTo[n] * TwoTo[m - n]
  BY <1>1, TwoToSum
<1>3. PICK a \in Nat \ {0}, b \in Nat \ {0} : a = TwoTo[n] /\ b = TwoTo[m - n]
  BY <1>1, TwoToType
<1>4. a <= a * b
  OBVIOUS
<1> QED
  BY <1>2, <1>3, <1>4

LEMMA IntegerTypes ==
    /\ MaxInt \in Nat /\ TwoTo[Width] = MaxInt + 1
    /\ Radix \in Nat \ {0, 1}
<1>1. Width \in Nat /\ GroupBits \in Nat \ {0}
  BY WidthAssumption
<1>2. /\ TwoTo[Width] \in Nat \ {0}
      /\ TwoTo[GroupBits] \in Nat \ {0} /\ GroupBits < TwoTo[GroupBits]
  BY <1>1, TwoToType
<1>3. TwoTo[GroupBits] # 1
  BY <1>1, <1>2
<1> QED
  BY <1>2, <1>3 DEF MaxInt, Radix

\* The equation that defines Groups, up to n.
GroupsUpTo(f, n) ==
    f = [m \in 0..n |-> IF m < Radix THEN <<m>> ELSE <<Radix + (m % Radix)>> \o f[m \div Radix]]

LEMMA LessIsLeft == ASSUME NEW n \in Nat, n >= Radix PROVE n \div Radix \in 1..(n - 1)
<1>1. PICK r \in Nat \ {0, 1} : r = Radix
  BY IntegerTypes
<1>2. PICK q \in Nat, k \in 0..(r - 1) : n = r * q + k /\ n \div r = q
  BY Division
<1>3. q # 0
  BY <1>1, <1>2
<1>4. r * q >= 2 * q
  <2>1. r - 2 \in Nat
    OBVIOUS
  <2>2. (r - 2) * q >= 0
    BY <2>1
  <2>3. (r - 2) * q = r * q - 2 * q
    OBVIOUS
  <2> QED
    BY <2>2, <2>3
<1> QED
  BY <1>1, <1>2, <1>3, <1>4

LEMMA GroupsExist == ASSUME NEW n \in Nat PROVE \E f : GroupsUpTo(f, n)
<1> DEFINE Solved == {m \in Nat : \E f : GroupsUpTo(f, m)}
<1>1. 0 \in Solved
  <2> DEFINE f == [m \in 0..0 |-> <<m>>]
  <2>1. \A m \in 0..0 : m < Radix
    BY IntegerTypes
  <2>2. GroupsUpTo(f, 0)
    BY <2>1 DEF GroupsUpTo
  <2> HIDE DEF f
  <2> QED
    BY <2>2
<1>2. ASSUME NEW m \in Nat, m \in Solved PROVE m + 1 \in Solved
  <2>1. PICK f : GroupsUpTo(f, m)
    BY <1>2
  <2> DEFINE next(f0, i) == IF i < Radix THEN <<i>> ELSE <<Radix + (i % Radix)>> \o f0[i \div Radix]
             g == [i \in 0..(m + 1) |-> IF i <= m THEN f[i] ELSE next(f, i)]
  <2>2. ASSUME NEW i \in 0..(m + 1) PROVE g[i] = next(g, i)
    <3>1. f = [j \in 0..m |-> next(f, j)]
      BY <2>1 DEF GroupsUpTo
    <3>2. g[i] = next(f, i)
      <4> HIDE DEF next
      <4>1. CASE i <= m
        <5>1. i \in 0..m
          BY <4>1
        <5>2. f[i] = next(f, i)
          BY <3>1, <5>1
        <5> QED
          BY <4>1, <5>2
      <4>2. CASE ~(i <= m)
        BY <4>2
      <4> QED
        BY <4>1, <4>2
    <3>3. ASSUME i >= Radix PROVE g[i \div Radix] = f[i \div Radix]
      <4>1. i \div Radix \in 1..(i - 1)
        BY <3>3, LessIsLeft
      <4>2. i \div Radix \in 0..(m + 1) /\ i \div Radix <= m
        BY <4>1
      <4> QED
        BY <4>2
    <3>4. Radix \in Nat
      BY IntegerTypes
    <3> HIDE DEF g
    <3>5. CASE i < Radix
      BY <3>2, <3>5
    <3>6. CASE ~(i < Radix)
      <4>1. i >= Radix
        BY <3>4, <3>6
      <4> QED
        BY <3>2, <3>3, <3>6, <4>1, Zenon
    <3> QED
      BY <3>5, <3>6
  <2>3. g = [i \in 0..(m + 1) |-> g[i]]
    OBVIOUS
  <2> HIDE DEF g
  <2>4. g = [i \in 0..(m + 1) |-> next(g, i)]
    <3> HIDE DEF next
    <3> QED
      BY <2>2, <2>3
  <2>5. GroupsUpTo(g, m + 1)
    BY <2>4 DEF GroupsUpTo
  <2> QED
    BY <2>5
<1> HIDE DEF Solved
<1>3. 0..n \subseteq Solved
  BY <1>1, <1>2, IntervalInduction
<1> QED
  BY <1>3 DEF Solved

LEMMA GroupsEquation ==
    ASSUME NEW n \in 0..MaxInt
    PROVE  Groups[n] = IF n < Radix THEN <<n>> ELSE <<Radix + (n % Radix)>> \o Groups[n \div Radix]
<1>1. Groups = CHOOSE f : GroupsUpTo(f, MaxInt)
  BY DEF Groups, GroupsUpTo
<1>2. GroupsUpTo(Groups, MaxInt)
  BY <1>1, IntegerTypes, GroupsExist
<1> QED
  BY <1>2 DEF GroupsUpTo

\* What is left of n after each group but the last, which it fills.
Left(q, k, n) ==
    /\ q \in [0..k -> Nat] /\ q[0] = n /\ q[k] < Radix
    /\ \A i \in 1..k : q[i - 1] >= Radix /\ q[i] = q[i - 1] \div Radix

InGroups(q, k, g) ==
    /\ g \in Seq(Nat) /\ Len(g) = k + 1 /\ g[k + 1] = q[k]
    /\ \A i \in 1..k : g[i] = Radix + (q[i - 1] % Radix)

LEMMA GroupsWritten ==
    ASSUME NEW n \in 0..MaxInt
    PROVE  \E k \in Nat : \E q : Left(q, k, n) /\ InGroups(q, k, Groups[n])
<1> DEFINE Fine(m) == \E k \in Nat : \E q : Left(q, k, m) /\ InGroups(q, k, Groups[m])
           Good == {m \in 0..MaxInt : \A l \in 0..m : Fine(l)}
<1>0. PICK r \in Nat \ {0, 1} : r = Radix
  BY IntegerTypes
<1>1. ASSUME NEW m \in 0..MaxInt, m < Radix PROVE Fine(m)
  <2> DEFINE q == [i \in 0..0 |-> m]
  <2>1. Groups[m] = <<m>>
    BY <1>1, GroupsEquation
  <2>2. Left(q, 0, m)
    BY <1>1 DEF Left
  <2>3. InGroups(q, 0, Groups[m])
    <3>1. m \in Nat
      BY IntegerTypes
    <3>2. <<m>> \in Seq(Nat) /\ Len(<<m>>) = 1 /\ <<m>>[1] = m
      BY <3>1
    <3>3. Groups[m] \in Seq(Nat) /\ Len(Groups[m]) = 1 /\ Groups[m][1] = m
      BY <2>1, <3>2, Zenon
    <3> QED
      BY <3>3 DEF InGroups
  <2> HIDE DEF q
  <2> QED
    BY <2>2, <2>3
<1>2. ASSUME NEW m \in 0..MaxInt, m >= Radix, Fine(m \div Radix) PROVE Fine(m)
  <2>0. PICK k \in Nat : \E q : Left(q, k, m \div Radix) /\ InGroups(q, k, Groups[m \div Radix])
    BY <1>2
  <2>1. PICK q : Left(q, k, m \div Radix) /\ InGroups(q, k, Groups[m \div Radix])
    BY <2>0
  <2> DEFINE p == [i \in 0..(k + 1) |-> IF i = 0 THEN m ELSE q[i - 1]]
             low == Radix + (m % Radix)
             D == Nat
  <2>2. PICK g \in Seq(D) : g = Groups[m \div Radix]
    BY <2>1 DEF InGroups
  <2>3. Groups[m] = <<low>> \o g
    <3>1. ~(m < Radix)
      BY <1>0, <1>2
    <3> QED
      BY <2>2, <3>1, GroupsEquation, Zenon
  <2>4. low \in D
    <3>1. m % r \in 0..(r - 1)
      OBVIOUS
    <3> QED
      BY <1>0, <3>1
  <2> HIDE DEF low, D
  <2>5. <<low>> \in Seq(D) /\ Len(<<low>>) = 1 /\ <<low>>[1] = low
    BY <2>4
  <2>6. PICK h \in Seq(D) : h = <<low>> /\ Len(h) = 1 /\ h[1] = low
    BY <2>5, Zenon
  <2>7. /\ h \o g \in Seq(D) /\ Len(h \o g) = Len(h) + Len(g)
        /\ \A i \in 1..Len(h) : (h \o g)[i] = h[i]
        /\ \A i \in 1..Len(g) : (h \o g)[Len(h) + i] = g[i]
    BY Parts
  <2>8. PICK s \in Seq(D) : /\ s = Groups[m] /\ Len(s) = Len(h) + Len(g)
                            /\ \A i \in 1..Len(h) : s[i] = h[i]
                            /\ \A i \in 1..Len(g) : s[Len(h) + i] = g[i]
    BY <2>3, <2>6, <2>7, Zenon
  <2>9. Len(g) = k + 1 /\ g[k + 1] = q[k] /\ \A i \in 1..k : g[i] = Radix + (q[i - 1] % Radix)
    BY <2>1, <2>2 DEF InGroups
  <2>10. s[1] = low /\ \A i \in 1..(k + 1) : s[i + 1] = g[i]
    <3>1. 1 \in 1..Len(h)
      BY <2>6
    <3>2. ASSUME NEW i \in 1..(k + 1) PROVE s[i + 1] = g[i]
      <4>1. i \in 1..Len(g) /\ Len(h) + i = i + 1
        BY <2>6, <2>9
      <4> QED
        BY <2>8, <4>1
    <3> QED
      BY <2>6, <2>8, <3>1, <3>2
  <2>11. Left(p, k + 1, m)
    <3>1. p \in [0..(k + 1) -> Nat] /\ p[0] = m
      BY <2>1 DEF Left
    <3>2. p[k + 1] = q[k]
      OBVIOUS
    <3>3. ASSUME NEW i \in 1..(k + 1) PROVE p[i - 1] >= Radix /\ p[i] = p[i - 1] \div Radix
      <4>1. CASE i = 1
        <5>1. p[i - 1] = m /\ p[i] = q[0]
          BY <4>1
        <5> QED
          BY <1>2, <2>1, <5>1 DEF Left
      <4>2. CASE i # 1
        <5>1. i - 1 \in 1..k /\ p[i - 1] = q[(i - 1) - 1] /\ p[i] = q[i - 1]
          BY <4>2
        <5> QED
          BY <2>1, <5>1 DEF Left
      <4> QED
        BY <4>1, <4>2
    <3> HIDE DEF p
    <3> QED
      BY <2>1, <3>1, <3>2, <3>3 DEF Left
  <2>12. InGroups(p, k + 1, s)
    <3>1. Len(s) = (k + 1) + 1
      BY <2>6, <2>8, <2>9
    <3>2. s[(k + 1) + 1] = p[k + 1]
      <4>1. p[k + 1] = q[k] /\ k + 1 \in 1..(k + 1)
        OBVIOUS
      <4> QED
        BY <2>9, <2>10, <4>1
    <3>3. ASSUME NEW i \in 1..(k + 1) PROVE s[i] = Radix + (p[i - 1] % Radix)
      <4>1. CASE i = 1
        <5>1. p[i - 1] = m
          BY <4>1
        <5> QED
          BY <2>10, <4>1, <5>1 DEF low
      <4>2. CASE i # 1
        <5>1. i - 1 \in 1..k /\ p[i - 1] = q[(i - 1) - 1] /\ i - 1 \in 1..(k + 1) /\ (i - 1) + 1 = i
          BY <4>2
        <5>2. s[i] = g[i - 1]
          BY <2>10, <5>1
        <5>3. g[i - 1] = Radix + (q[(i - 1) - 1] % Radix)
          BY <2>9, <5>1
        <5> QED
          BY <5>1, <5>2, <5>3
      <4> QED
        BY <4>1, <4>2
    <3> HIDE DEF p
    <3> QED
      BY <3>1, <3>2, <3>3 DEF InGroups, D
  <2> HIDE DEF p
  <2>13. k + 1 \in Nat
    OBVIOUS
  <2> QED
    BY <2>8, <2>11, <2>12, <2>13
<1> HIDE DEF Fine
<1>3. 0 \in Good
  <2>1. 0 \in 0..MaxInt /\ 0 < Radix
    BY IntegerTypes
  <2>2. Fine(0)
    BY <1>1, <2>1
  <2>3. \A l \in 0..0 : Fine(l)
    BY <2>2
  <2> QED
    BY <2>1, <2>3
<1>4. ASSUME NEW m \in 0..MaxInt, m \in Good, m < MaxInt PROVE m + 1 \in Good
  <2>0. m + 1 \in 0..MaxInt
    BY <1>4, IntegerTypes
  <2>1. Fine(m + 1)
    <3>1. CASE m + 1 < Radix
      BY <1>1, <2>0, <3>1
    <3>2. CASE m + 1 >= Radix
      <4>1. (m + 1) \div Radix \in 1..m
        <5>1. m + 1 \in Nat /\ (m + 1) - 1 = m
          OBVIOUS
        <5> QED
          BY <3>2, <5>1, LessIsLeft
      <4>2. (m + 1) \div Radix \in 0..m
        BY <4>1
      <4>3. Fine((m + 1) \div Radix)
        BY <1>4, <4>2
      <4> QED
        BY <1>2, <2>0, <3>2, <4>3
    <3> QED
      BY <1>0, <3>1, <3>2
  <2>2. ASSUME NEW l \in 0..(m + 1) PROVE Fine(l)
    <3>1. l \in 0..m \/ l = m + 1
      OBVIOUS
    <3> QED
      BY <1>4, <2>1, <3>1
  <2> QED
    BY <2>0, <2>2
<1>5. n \in Good
  <2> HIDE DEF Good
  <2>1. 0..MaxInt \subseteq Good
    BY <1>3, <1>4, IntegerTypes, IntervalInduction
  <2> QED
    BY <2>1
<1>6. n \in 0..n
  BY IntegerTypes
<1> QED
  BY <1>5, <1>6 DEF Fine
\* A number that is told by quotient and remainder has these.
LEMMA Remainder ==
    ASSUME NEW r \in Nat \ {0}, NEW d \in Nat, NEW c \in 0..(r - 1)
    PROVE  (r * d + c) % r = c /\ (r * d + c) \div r = d
<1>1. PICK n \in Nat : n = r * d + c
  OBVIOUS
<1>2. PICK q \in Nat, m \in 0..(r - 1) : n = r * q + m /\ n % r = m /\ n \div r = q
  BY <1>1, Division
<1>3. r * d - r * q = m - c
  <2>1. PICK x \in Nat, z \in Nat : x = r * d /\ z = r * q
    OBVIOUS
  <2> QED
    BY <1>1, <1>2, <2>1
<1>4. ASSUME d > q PROVE FALSE
  <2>1. d - q - 1 \in Nat
    BY <1>4
  <2>2. r * (d - q - 1) >= 0 /\ r * (d - q - 1) = r * d - r * q - r
    BY <2>1
  <2> QED
    BY <1>3, <2>2
<1>5. ASSUME d < q PROVE FALSE
  <2>1. q - d - 1 \in Nat
    BY <1>5
  <2>2. r * (q - d - 1) >= 0 /\ r * (q - d - 1) = r * q - r * d - r
    BY <2>1
  <2> QED
    BY <1>3, <2>2
<1>6. d = q
  BY <1>4, <1>5
<1> QED
  BY <1>1, <1>2, <1>3, <1>6

\* The sum in Meaning.
Sums(f, prefixBits, octets) ==
    f = [i \in 1..Len(octets) |->
           IF i = 1 THEN TwoTo[prefixBits] - 1
           ELSE f[i - 1] + (octets[i] % Radix) * TwoTo[(i - 2) * GroupBits]]

\* The sum in DecodeInt.
CappedSums(f, prefixBits, octets) ==
    f = [i \in 1..Len(octets) |->
           IF i = 1 THEN TwoTo[prefixBits] - 1
           ELSE Saturated(f[i - 1] + GroupValue(octets, i))]

Term(octets, i) == (octets[i] % Radix) * TwoTo[(i - 2) * GroupBits]

LEMMA TermType ==
    ASSUME NEW octets \in Seq(Nat), NEW i \in 2..Len(octets)
    PROVE  Term(octets, i) \in Nat /\ GroupValue(octets, i) = Term(octets, i) % TwoTo[Width]
<1>1. octets[i] \in Nat
  BY IntegerTypes
<1>2. PICK r \in Nat \ {0, 1} : r = Radix
  BY IntegerTypes
<1>3. octets[i] % Radix \in Nat
  BY <1>1, <1>2
<1>4. (i - 2) * GroupBits \in Nat
  <2>1. i - 2 \in Nat /\ GroupBits \in Nat
    BY WidthAssumption
  <2> QED
    BY <2>1
<1>5. TwoTo[(i - 2) * GroupBits] \in Nat
  BY <1>4, TwoToType
<1>6. PICK a \in Nat, b \in Nat : a = octets[i] % Radix /\ b = TwoTo[(i - 2) * GroupBits]
  BY <1>3, <1>5
<1>7. a * b \in Nat
  OBVIOUS
<1> QED
  BY <1>6, <1>7 DEF Term, GroupValue

LEMMA SumsExist ==
    ASSUME NEW prefixBits \in Nat, NEW octets \in Seq(Nat)
    PROVE  /\ \E f : Sums(f, prefixBits, octets)
           /\ \E f : CappedSums(f, prefixBits, octets)
<1> DEFINE n == Len(octets)
           D == 1..n
           first == TwoTo[prefixBits] - 1
<1>1. n \in Nat
  OBVIOUS
<1>2. first \in Nat
  BY TwoToType
<1>3. ASSUME NEW term, \A i \in 2..n : term[i] \in Nat
      PROVE  \E f : /\ f \in [1..n -> Nat]
                    /\ f = [i \in 1..n |-> IF i = 1 THEN first ELSE f[i - 1] + term[i]]
  <2> DEFINE step == [x \in (1..n) \X Nat |-> IF x[1] = 1 THEN first ELSE x[2] + term[x[1]]]
  <2> HIDE DEF first, n
  <2>1. step \in [(1..n) \X Nat -> Nat]
    <3>1. ASSUME NEW i \in 1..n, NEW k \in Nat, i # 1 PROVE k + term[i] \in Nat
      <4>1. i \in 2..n
        BY <1>1, <3>1
      <4>2. term[i] \in Nat
        BY <1>3, <4>1
      <4> QED
        BY <4>2
    <3>2. ASSUME NEW x \in (1..n) \X Nat
          PROVE  (IF x[1] = 1 THEN first ELSE x[2] + term[x[1]]) \in Nat
      <4>1. x[1] \in 1..n /\ x[2] \in Nat
        OBVIOUS
      <4> QED
        BY <1>2, <3>1, <4>1
    <3> QED
      BY <3>2
  <2>2. \A i \in 1..n, k \in Nat : step[<<i, k>>] = IF i = 1 THEN first ELSE k + term[i]
    OBVIOUS
  <2> HIDE DEF step
  <2>3. PICK f : Iterates(f, n, Nat, first, step)
    BY <1>1, <1>2, <2>1, Iteration
  <2> DEFINE g == [i \in 1..n |-> f[i]]
  <2>4. ASSUME NEW i \in 1..n PROVE f[i] \in Nat /\ f[i] = IF i = 1 THEN first ELSE f[i - 1] + term[i]
    <3>1. i - 1 \in 0..n /\ i \in 0..n
      BY <1>1
    <3>2. f[i - 1] \in Nat /\ f[i] \in Nat /\ f[i] = step[<<i, f[i - 1]>>]
      BY <2>3, <3>1 DEF Iterates
    <3> QED
      BY <2>2, <3>2
  <2>5. g \in [1..n -> Nat]
    BY <2>4
  <2>6. \A i \in 1..n : g[i] = IF i = 1 THEN first ELSE g[i - 1] + term[i]
    <3> TAKE i \in 1..n
    <3>1. CASE i = 1
      BY <2>4, <3>1
    <3>2. CASE i # 1
      <4>1. i - 1 \in 1..n
        BY <1>1, <3>2
      <4>2. g[i - 1] = f[i - 1] /\ g[i] = f[i]
        BY <4>1
      <4> QED
        BY <2>4, <3>2, <4>2
    <3> QED
      BY <3>1, <3>2
  <2> HIDE DEF g
  <2>7. g = [i \in 1..n |-> IF i = 1 THEN first ELSE g[i - 1] + term[i]]
    BY <2>5, <2>6
  <2> QED
    BY <2>5, <2>7
<1>4. \E f : Sums(f, prefixBits, octets)
  <2> DEFINE term == [i \in 2..n |-> Term(octets, i)]
  <2>1. \A i \in 2..n : term[i] \in Nat
    BY TermType
  <2>2. PICK f \in [1..n -> Nat] : f = [i \in 1..n |-> IF i = 1 THEN first ELSE f[i - 1] + term[i]]
    BY <1>3, <2>1
  <2>3. \A i \in 1..n : i # 1 => term[i] = Term(octets, i)
    BY <1>1
  <2> HIDE DEF term
  <2>4. f = [i \in 1..n |-> IF i = 1 THEN first ELSE f[i - 1] + Term(octets, i)]
    BY <2>2, <2>3
  <2> QED
    BY <2>4 DEF Sums, Term
<1>5. \E f : CappedSums(f, prefixBits, octets)
  <2> DEFINE value(i) == GroupValue(octets, i)
             step == [x \in (1..n) \X Nat |-> IF x[1] = 1 THEN first ELSE Saturated(x[2] + value(x[1]))]
  <2>0. \A i \in 2..n : value(i) \in Nat
    <3> TAKE i \in 2..n
    <3>1. PICK t \in Nat, w \in Nat \ {0} : t = Term(octets, i) /\ w = TwoTo[Width]
      BY TermType, TwoToType, WidthAssumption
    <3>2. t % w \in Nat
      OBVIOUS
    <3> QED
      BY <3>1, <3>2, TermType
  <2> HIDE DEF first, n, value
  <2>1. step \in [(1..n) \X Nat -> Nat]
    <3>1. ASSUME NEW i \in 1..n, NEW k \in Nat, i # 1 PROVE Saturated(k + value(i)) \in Nat
      <4>1. i \in 2..n
        BY <1>1, <3>1
      <4>2. value(i) \in Nat
        BY <2>0, <4>1
      <4> QED
        BY <4>2, IntegerTypes DEF Saturated
    <3>2. ASSUME NEW x \in (1..n) \X Nat
          PROVE  (IF x[1] = 1 THEN first ELSE Saturated(x[2] + value(x[1]))) \in Nat
      <4>1. x[1] \in 1..n /\ x[2] \in Nat
        OBVIOUS
      <4> QED
        BY <1>2, <3>1, <4>1
    <3> QED
      BY <3>2
  <2>2. \A i \in 1..n, k \in Nat : step[<<i, k>>] = IF i = 1 THEN first ELSE Saturated(k + value(i))
    OBVIOUS
  <2> HIDE DEF step
  <2>3. PICK f : Iterates(f, n, Nat, first, step)
    BY <1>1, <1>2, <2>1, Iteration
  <2> DEFINE g == [i \in 1..n |-> f[i]]
  <2>4. ASSUME NEW i \in 1..n PROVE f[i] = IF i = 1 THEN first ELSE Saturated(f[i - 1] + value(i))
    <3>1. i - 1 \in 0..n /\ i \in 0..n
      BY <1>1
    <3>2. f[i - 1] \in Nat /\ f[i] = step[<<i, f[i - 1]>>]
      BY <2>3, <3>1 DEF Iterates
    <3> QED
      BY <2>2, <3>2
  <2>6. ASSUME NEW i \in 1..n PROVE g[i] = IF i = 1 THEN first ELSE Saturated(g[i - 1] + value(i))
    <3>1. CASE i = 1
      BY <2>4, <3>1
    <3>2. CASE i # 1
      <4>1. i - 1 \in 1..n
        BY <1>1, <3>2
      <4>2. g[i - 1] = f[i - 1] /\ g[i] = f[i]
        BY <4>1
      <4> QED
        BY <2>4, <3>2, <4>2
    <3> QED
      BY <3>1, <3>2
  <2>5. g = [i \in 1..n |-> g[i]]
    OBVIOUS
  <2> HIDE DEF g
  <2>7. g = [i \in 1..n |-> IF i = 1 THEN first ELSE Saturated(g[i - 1] + value(i))]
    BY <2>5, <2>6
  <2> QED
    BY <2>7 DEF CappedSums, value, first, n
<1> QED
  BY <1>4, <1>5

\* The sums that are meant, step by step.
LEMMA SumsStep ==
    ASSUME NEW prefixBits \in Nat, NEW octets \in Seq(Nat), NEW f, Sums(f, prefixBits, octets)
    PROVE  /\ \A i \in 1..Len(octets) : f[i] \in Nat
           /\ 1 \in 1..Len(octets) => f[1] = TwoTo[prefixBits] - 1
           /\ \A i \in 2..Len(octets) : f[i] = f[i - 1] + Term(octets, i)
<1> DEFINE n == Len(octets)
           Good == {i \in 1..n : f[i] \in Nat}
<1>1. n \in Nat
  OBVIOUS
<1>2. \A i \in 1..n : f[i] = IF i = 1 THEN TwoTo[prefixBits] - 1 ELSE f[i - 1] + Term(octets, i)
  BY DEF Sums, Term
<1>3. 1 \in 1..n => f[1] = TwoTo[prefixBits] - 1
  BY <1>2
<1>4. \A i \in 2..n : f[i] = f[i - 1] + Term(octets, i)
  <2> TAKE i \in 2..n
  <2>1. i \in 1..n /\ i # 1
    BY <1>1
  <2> QED
    BY <1>2, <2>1
<1>5. CASE n = 0
  BY <1>3, <1>4, <1>5
<1>6. CASE n # 0
  <2>1. 1 \in Good
    BY <1>1, <1>3, <1>6, TwoToType
  <2>2. ASSUME NEW i \in 1..n, i \in Good, i < n PROVE i + 1 \in Good
    <3>1. i + 1 \in 2..n /\ (i + 1) - 1 = i
      BY <1>1, <2>2
    <3>2. Term(octets, i + 1) \in Nat /\ f[i + 1] = f[i] + Term(octets, i + 1)
      BY <1>4, <3>1, TermType
    <3> QED
      BY <2>2, <3>1, <3>2
  <2> HIDE DEF Good
  <2>3. 1..n \subseteq Good
    BY <1>1, <1>6, <2>1, <2>2, IntervalInduction
  <2> QED
    BY <1>3, <1>4, <2>3 DEF Good
<1> QED
  BY <1>5, <1>6

\* Where what is meant is an integer of the width, nothing was cut off on the way.
LEMMA NothingCut ==
    ASSUME NEW prefixBits \in Nat, NEW octets \in Seq(Nat), NEW f, NEW g,
           Sums(f, prefixBits, octets), CappedSums(g, prefixBits, octets),
           octets # <<>>, f[Len(octets)] <= MaxInt
    PROVE  g[Len(octets)] = f[Len(octets)]
<1> DEFINE n == Len(octets)
<1>1. n \in Nat \ {0}
  OBVIOUS
<1>2. /\ \A i \in 1..n : f[i] \in Nat
      /\ f[1] = TwoTo[prefixBits] - 1
      /\ \A i \in 2..n : f[i] = f[i - 1] + Term(octets, i) /\ Term(octets, i) \in Nat
  BY <1>1, SumsStep, TermType
<1>3. /\ g[1] = TwoTo[prefixBits] - 1
      /\ \A i \in 2..n : g[i] = Saturated(g[i - 1] + GroupValue(octets, i))
  BY <1>1 DEF CappedSums
<1> HIDE DEF n
<1>4. ASSUME NEW i \in 1..n PROVE f[i] <= MaxInt
  <2> DEFINE Small == {j \in 0..(n - i) : f[n - j] <= MaxInt}
  <2>1. 0 \in Small /\ n - i \in Nat
    BY <1>1 DEF n
  <2>2. ASSUME NEW j \in 0..(n - i), j \in Small, j < n - i PROVE j + 1 \in Small
    <3>1. n - j \in 2..n /\ (n - j) - 1 = n - (j + 1) /\ n - (j + 1) \in 1..n /\ n - j \in 1..n
      BY <1>1, <2>2
    <3>2. PICK a \in Nat, b \in Nat, t \in Nat :
            /\ a = f[n - (j + 1)] /\ b = f[n - j] /\ t = Term(octets, n - j) /\ b = a + t
      BY <1>2, <3>1
    <3>3. b <= MaxInt
      BY <2>2, <3>2
    <3>4. a <= MaxInt
      BY <3>2, <3>3, IntegerTypes
    <3> QED
      BY <2>1, <2>2, <3>2, <3>4
  <2> HIDE DEF Small
  <2>3. 0..(n - i) \subseteq Small
    BY <2>1, <2>2, IntervalInduction
  <2>4. n - i \in Small
    BY <2>1, <2>3
  <2>5. n - (n - i) = i
    BY <1>1
  <2> QED
    BY <2>4, <2>5 DEF Small
<1> DEFINE Same == {i \in 1..n : g[i] = f[i]}
<1>5. 1 \in Same
  BY <1>1, <1>2, <1>3
<1>6. ASSUME NEW i \in 1..n, i \in Same, i < n PROVE i + 1 \in Same
  <2>1. i + 1 \in 2..n /\ i + 1 \in 1..n /\ (i + 1) - 1 = i
    BY <1>1, <1>6
  <2>2. PICK a \in Nat, b \in Nat, t \in Nat, m \in Nat :
          /\ a = f[i] /\ b = f[i + 1] /\ t = Term(octets, i + 1) /\ m = MaxInt
    BY <1>2, <2>1, IntegerTypes
  <2>3. b = a + t /\ b <= m
    BY <1>2, <1>4, <2>1, <2>2
  <2>4. GroupValue(octets, i + 1) = t
    <3>1. GroupValue(octets, i + 1) = t % (m + 1)
      BY <2>1, <2>2, TermType, IntegerTypes DEF n
    <3>2. t \in 0..m
      BY <2>3
    <3>3. t % (m + 1) = t
      BY <3>2
    <3> QED
      BY <3>1, <3>3
  <2>5. g[i + 1] = Saturated(a + t)
    BY <1>3, <1>6, <2>1, <2>2, <2>4
  <2>6. Saturated(a + t) = b
    BY <2>2, <2>3 DEF Saturated
  <2> QED
    BY <2>1, <2>2, <2>5, <2>6
<1> HIDE DEF Same
<1>7. 1..n \subseteq Same
  BY <1>1, <1>5, <1>6, IntervalInduction
<1>8. n \in Same
  BY <1>1, <1>7
<1> QED
  BY <1>8 DEF Same, n

\* Octets that end in time are read as what they mean.
LEMMA DecodedAsMeant ==
    ASSUME NEW prefixBits \in Nat, NEW octets \in Seq(Nat), NEW k \in Nat,
           Len(octets) = k + 2, octets[1] = TwoTo[prefixBits] - 1,
           octets[k + 2] < Radix, \A i \in 2..(k + 1) : octets[i] >= Radix,
           k * GroupBits <= LastShift, Meaning(prefixBits, octets) <= MaxInt
    PROVE  DecodeInt(prefixBits, octets) =
             [ok |-> TRUE, value |-> Meaning(prefixBits, octets), used |-> k + 2]
<1> DEFINE ends == {i \in 2..Len(octets) : octets[i] < Radix /\ (i - 2) * GroupBits <= LastShift}
<1>1. ends = {k + 2}
  <2>1. k + 2 \in ends
    BY WidthAssumption
  <2>2. ASSUME NEW i \in ends PROVE i = k + 2
    <3>1. i \in 2..(k + 2) /\ octets[i] < Radix
      OBVIOUS
    <3>2. i \in 2..(k + 1) => octets[i] >= Radix
      OBVIOUS
    <3>3. octets[i] \in Nat /\ Radix \in Nat
      BY <3>1, IntegerTypes
    <3> QED
      BY <3>1, <3>2, <3>3
  <2> QED
    BY <2>1, <2>2
<1>2. (CHOOSE i \in ends : \A j \in ends : i <= j) = k + 2
  <2> HIDE DEF ends
  <2>1. \E i \in ends : \A j \in ends : i <= j
    BY <1>1
  <2>2. (CHOOSE i \in ends : \A j \in ends : i <= j) \in ends
    BY <2>1
  <2> QED
    BY <1>1, <2>2
<1> DEFINE f == CHOOSE h : Sums(h, prefixBits, octets)
           g == CHOOSE h : CappedSums(h, prefixBits, octets)
<1>3. Sums(f, prefixBits, octets) /\ CappedSums(g, prefixBits, octets)
  BY SumsExist
<1>4. Meaning(prefixBits, octets) = f[k + 2]
  BY DEF Meaning, Sums
<1>5. octets # <<>>
  OBVIOUS
<1>6. DecodeInt(prefixBits, octets) = [ok |-> TRUE, value |-> g[k + 2], used |-> k + 2]
  <2>1. ~(octets[1] < TwoTo[prefixBits] - 1)
    BY TwoToType
  <2>2. ends # {}
    BY <1>1
  <2>3. g = CHOOSE h : h = [i \in 1..Len(octets) |->
                              IF i = 1 THEN TwoTo[prefixBits] - 1
                              ELSE Saturated(h[i - 1] + GroupValue(octets, i))]
    BY DEF CappedSums
  <2> DEFINE end == CHOOSE i \in ends : \A j \in ends : i <= j
  <2>4. DecodeInt(prefixBits, octets) = [ok |-> TRUE, value |-> g[end], used |-> end]
    <3> HIDE DEF g
    <3> QED
      BY <1>5, <2>1, <2>2, <2>3 DEF DecodeInt
  <2> QED
    BY <1>2, <2>4
<1> HIDE DEF f, g
<1>7. g[k + 2] = f[k + 2]
  BY <1>3, <1>4, <1>5, NothingCut
<1> QED
  BY <1>4, <1>6, <1>7

\* Octets that begin with a full prefix.
Followed(octets, full, rest) ==
    /\ octets \in Seq(Nat) /\ octets = <<full>> \o rest
    /\ Len(octets) = 1 + Len(rest) /\ octets[1] = full
    /\ \A i \in 1..Len(rest) : octets[1 + i] = rest[i]

LEMMA BehindParts ==
    ASSUME NEW S, S = Nat, NEW full \in S, NEW rest \in Seq(S)
    PROVE  \E octets : Followed(octets, full, rest)
<1>1. <<full>> \in Seq(S) /\ Len(<<full>>) = 1 /\ <<full>>[1] = full
  OBVIOUS
<1>2. PICK h \in Seq(S) : h = <<full>> /\ Len(h) = 1 /\ h[1] = full
  BY <1>1, Zenon
<1>3. /\ h \o rest \in Seq(S) /\ Len(h \o rest) = Len(h) + Len(rest)
      /\ \A i \in 1..Len(h) : (h \o rest)[i] = h[i]
      /\ \A i \in 1..Len(rest) : (h \o rest)[Len(h) + i] = rest[i]
  BY Parts
<1>4. PICK octets \in Seq(S) :
        /\ octets = <<full>> \o rest /\ Len(octets) = Len(h) + Len(rest)
        /\ \A i \in 1..Len(h) : octets[i] = h[i]
        /\ \A i \in 1..Len(rest) : octets[Len(h) + i] = rest[i]
  BY <1>2, <1>3, Zenon
<1>5. 1 \in 1..Len(h)
  BY <1>2
<1>6. octets[1] = full
  BY <1>2, <1>4, <1>5
<1>7. Len(octets) = 1 + Len(rest) /\ \A i \in 1..Len(rest) : octets[1 + i] = rest[i]
  BY <1>2, <1>4, Zenon
<1>8. octets \in Seq(Nat)
  OBVIOUS
<1> QED
  BY <1>4, <1>6, <1>7, <1>8, Zenon DEF Followed

\* k octets that are continued and the one that ends them.
Ends(octets, k) ==
    /\ octets \in Seq(Nat) /\ Len(octets) = k + 1
    /\ octets[k + 1] < Radix /\ \A i \in 1..k : octets[i] >= Radix

LEMMA BehindEnding ==
    ASSUME NEW octets, NEW full, NEW rest, NEW k \in Nat,
           Followed(octets, full, rest), Ends(rest, k)
    PROVE  /\ octets \in Seq(Nat) /\ Len(octets) = k + 2 /\ octets[1] = full
           /\ \A i \in 1..(k + 1) : octets[i + 1] = rest[i]
           /\ octets[k + 2] < Radix /\ \A i \in 2..(k + 1) : octets[i] >= Radix
<1>1. octets \in Seq(Nat) /\ Len(octets) = k + 2 /\ octets[1] = full
  BY DEF Followed, Ends
<1>2. ASSUME NEW i \in 1..(k + 1) PROVE octets[i + 1] = rest[i]
  <2>1. i \in 1..Len(rest) /\ 1 + i = i + 1
    BY DEF Ends
  <2>2. \A j \in 1..Len(rest) : octets[1 + j] = rest[j]
    BY DEF Followed
  <2>3. octets[1 + i] = rest[i]
    BY <2>1, <2>2
  <2> QED
    BY <2>1, <2>3
<1>3. octets[k + 2] < Radix
  <2>1. k + 1 \in 1..(k + 1) /\ (k + 1) + 1 = k + 2
    OBVIOUS
  <2>2. octets[k + 2] = rest[k + 1]
    BY <1>2, <2>1
  <2> QED
    BY <2>2 DEF Ends
<1>4. ASSUME NEW i \in 2..(k + 1) PROVE octets[i] >= Radix
  <2>1. i - 1 \in 1..(k + 1) /\ i - 1 \in 1..k /\ (i - 1) + 1 = i
    OBVIOUS
  <2>2. octets[i] = rest[i - 1]
    BY <1>2, <2>1
  <2> QED
    BY <2>1, <2>2 DEF Ends
<1> QED
  BY <1>1, <1>2, <1>3, <1>4

LEMMA IntegerWrittenType ==
    ASSUME NEW k \in Nat, NEW q, NEW g, InGroups(q, k, g)
    PROVE  \A i \in 1..(k + 1) : g[i] \in Nat
  BY DEF InGroups

\* Octets up to the last shift, in as few groups as possible or in more, that say
\* an integer of the width are read as that integer (hpack_decode_int).
THEOREM IntegersReadAsMeant == \A prefixBits \in Nat : ReadAsMeant(prefixBits)
<1> DEFINE read(p, s, n) ==
             DecodeInt(p, s) = [ok |-> TRUE, value |-> Meaning(p, s), used |-> n + 2]
<1> SUFFICES ASSUME NEW prefixBits \in Nat, NEW n \in 0..(LastShift \div GroupBits),
                    NEW rest \in Continued(n),
                    Meaning(prefixBits, <<TwoTo[prefixBits] - 1>> \o rest) <= MaxInt
             PROVE  read(prefixBits, <<TwoTo[prefixBits] - 1>> \o rest, n)
  BY DEF ReadAsMeant
<1>1. PICK full \in Nat : full = TwoTo[prefixBits] - 1
  BY TwoToType
<1>2. rest \in Seq(Nat) /\ Ends(rest, n)
  <2>1. PICK r \in Nat : r = Radix
    BY IntegerTypes
  <2>2. n \in Nat
    BY WidthAssumption
  <2>3. rest \in [1..(n + 1) -> Nat]
    BY <2>1, <2>2 DEF Continued
  <2>4. rest \in Seq(Nat) /\ Len(rest) = n + 1
    BY <2>2, <2>3
  <2> QED
    BY <2>4 DEF Continued, Ends
<1>3. n \in Nat /\ n * GroupBits <= LastShift
  <2>1. PICK g \in Nat \ {0}, l \in Nat : g = GroupBits /\ l = LastShift
    BY WidthAssumption
  <2>2. l \div g \in Nat /\ l = g * (l \div g) + (l % g) /\ l % g \in 0..(g - 1)
    <3>1. l \div g \in Int
      OBVIOUS
    <3>2. l \div g >= 0
      OBVIOUS
    <3>3. l = g * (l \div g) + (l % g)
      OBVIOUS
    <3>4. l % g \in 0..(g - 1)
      OBVIOUS
    <3> QED
      BY <3>1, <3>2, <3>3, <3>4
  <2>3. PICK q \in Nat : q = l \div g
    BY <2>2
  <2>4. g * q <= l
    BY <2>2, <2>3
  <2>5. n \in Nat /\ n <= q
    BY <2>1, <2>3
  <2>6. n * g <= g * q
    <3>1. q - n \in Nat
      BY <2>5
    <3>2. g * (q - n) >= 0 /\ g * (q - n) = g * q - n * g
      BY <2>5, <3>1
    <3> QED
      BY <2>5, <3>2
  <2> QED
    BY <2>1, <2>4, <2>5, <2>6
<1>4. PICK octets : Followed(octets, full, rest)
  BY <1>2, BehindParts
<1>5. octets = <<full>> \o rest
  BY <1>4 DEF Followed
<1>6. /\ octets \in Seq(Nat) /\ Len(octets) = n + 2 /\ octets[1] = full
      /\ octets[n + 2] < Radix /\ \A i \in 2..(n + 1) : octets[i] >= Radix
  BY <1>2, <1>3, <1>4, BehindEnding
<1>7. Meaning(prefixBits, octets) <= MaxInt
  BY <1>1, <1>5, Zenon
<1>8. read(prefixBits, octets, n)
  BY <1>1, <1>3, <1>6, <1>7, DecodedAsMeant
<1> HIDE DEF read
<1> QED
  BY <1>1, <1>5, <1>8, Zenon

Encoded(octets, prefixBits, g, k) ==
    /\ octets \in Seq(Nat) /\ Len(octets) = k + 2 /\ octets[1] = TwoTo[prefixBits] - 1
    /\ \A i \in 1..(k + 1) : octets[i + 1] = g[i]

\* The sum after each group that is written: all but what is left.
LEMMA WrittenMeansIt ==
    ASSUME NEW prefixBits \in Nat, NEW n \in 0..MaxInt, NEW k \in Nat, NEW q,
           NEW g, Left(q, k, n), InGroups(q, k, g), NEW octets,
           Encoded(octets, prefixBits, g, k)
    PROVE  /\ Meaning(prefixBits, octets) = TwoTo[prefixBits] - 1 + n
           /\ k # 0 => TwoTo[k * GroupBits] <= n
<1> DEFINE f == CHOOSE h : Sums(h, prefixBits, octets)
           shift(i) == TwoTo[i * GroupBits]
<1>0. PICK r \in Nat \ {0, 1}, b \in Nat \ {0}, full \in Nat :
        r = Radix /\ b = GroupBits /\ full = TwoTo[prefixBits] - 1 /\ r = TwoTo[b]
  BY IntegerTypes, WidthAssumption, TwoToType DEF Radix
<1>1. /\ octets \in Seq(Nat) /\ Len(octets) = k + 2 /\ octets[1] = TwoTo[prefixBits] - 1
      /\ \A i \in 1..(k + 1) : octets[i + 1] = g[i]
  BY DEF Encoded
<1>2. \A i \in 1..(k + 1) : g[i] \in Nat
  BY IntegerWrittenType
<1>3. Sums(f, prefixBits, octets)
  BY <1>1, SumsExist
<1>4. Meaning(prefixBits, octets) = f[k + 2]
  BY <1>1 DEF Meaning, Sums
<1>5. /\ f[1] = full
      /\ \A i \in 1..(k + 1) : f[i] \in Nat /\ f[i + 1] = f[i] + (g[i] % r) * shift(i - 1)
  <2>1. \A i \in 1..(k + 2) : f[i] \in Nat
    BY <1>3, <1>1, SumsStep
  <2>2. \A i \in 2..(k + 2) : f[i] = f[i - 1] + Term(octets, i)
    BY <1>3, <1>1, SumsStep
  <2>3. f[1] = full
    BY <1>0, <1>3, <1>1, SumsStep
  <2>4. ASSUME NEW i \in 1..(k + 1) PROVE f[i + 1] = f[i] + (g[i] % r) * shift(i - 1)
    <3>1. i + 1 \in 2..(k + 2) /\ (i + 1) - 1 = i /\ (i + 1) - 2 = i - 1
      OBVIOUS
    <3>2. f[i + 1] = f[i] + Term(octets, i + 1)
      BY <2>2, <3>1
    <3>3. Term(octets, i + 1) = (g[i] % r) * shift(i - 1)
      BY <1>0, <1>1, <3>1 DEF Term
    <3> QED
      BY <3>2, <3>3
  <2> QED
    BY <2>1, <2>3, <2>4
<1> HIDE DEF f
<1>6. \A i \in Nat : shift(i) \in Nat \ {0} /\ shift(i + 1) = r * shift(i)
  <2> TAKE i \in Nat
  <2>1. i * b \in Nat /\ (i + 1) * b \in Nat /\ (i + 1) * b = b + i * b
    BY <1>0
  <2>2. TwoTo[i * b] \in Nat \ {0} /\ TwoTo[b + i * b] = TwoTo[b] * TwoTo[i * b]
    BY <2>1, TwoToType, TwoToSum
  <2> QED
    BY <1>0, <2>1, <2>2
<1>7. shift(0) = 1
  <2>1. 0 * b = 0
    OBVIOUS
  <2> QED
    BY <1>0, <2>1, TwoToNext
<1> HIDE DEF shift
\* n is what the sum has so far beyond the prefix, and what is left.
<1> DEFINE Told == {i \in 0..k : f[i + 1] + q[i] * shift(i) = full + n}
<1>8. 0 \in Told
  <2>1. q[0] = n /\ n \in Nat
    BY IntegerTypes DEF Left
  <2> QED
    BY <1>5, <1>7, <2>1
<1>9. ASSUME NEW i \in 0..k, i \in Told, i < k PROVE i + 1 \in Told
  <2>1. i + 1 \in 1..k /\ i + 1 \in 1..(k + 1) /\ (i + 1) - 1 = i /\ i + 1 \in 0..k
    BY <1>9
  <2>2. g[i + 1] = r + (q[i] % r) /\ q[i + 1] = q[i] \div r /\ q[i] \in Nat
    BY <1>0, <2>1 DEF InGroups, Left
  <2>3. PICK a \in Nat, c \in 0..(r - 1), d \in Nat :
          a = q[i] /\ c = a % r /\ d = a \div r /\ a = r * d + c
    <3>1. PICK a \in Nat : a = q[i]
      BY <2>2
    <3>2. PICK d \in Nat, c \in 0..(r - 1) : a = r * d + c /\ a \div r = d /\ a % r = c
      BY Division
    <3> QED
      BY <3>1, <3>2
  <2>4. (r + c) % r = c
    <3>1. PICK one \in Nat : one = 1
      OBVIOUS
    <3>2. (r * one + c) % r = c
      BY Remainder
    <3>3. r * one + c = r + c
      BY <3>1
    <3> QED
      BY <3>2, <3>3
  <2>5. PICK s \in Nat, u \in Nat, v \in Nat :
          s = shift(i) /\ u = f[i + 1] /\ v = f[(i + 1) + 1]
    <3>1. f[i + 1] \in Nat /\ f[(i + 1) + 1] \in Nat
      <4>1. (i + 1) + 1 \in 1..(k + 1)
        BY <1>9
      <4> QED
        BY <1>5, <2>1, <4>1
    <3>2. shift(i) \in Nat
      <4>1. i \in Nat
        OBVIOUS
      <4>2. shift(i) \in Nat \ {0}
        BY <1>6, <4>1, Zenon
      <4> QED
        BY <4>2
    <3> QED
      BY <3>1, <3>2
  <2>6. v = u + c * s
    <3>1. f[(i + 1) + 1] = f[i + 1] + (g[i + 1] % r) * shift(i)
      BY <1>5, <2>1
    <3>2. g[i + 1] % r = c
      BY <2>2, <2>3, <2>4
    <3> QED
      BY <2>5, <3>1, <3>2
  <2>7. u + (r * d + c) * s = full + n
    BY <1>9, <2>3, <2>5
  <2>8. (r * d + c) * s = d * (r * s) + c * s
    OBVIOUS
  <2>9. v + d * (r * s) = full + n
    <3>1. PICK x \in Nat, y \in Nat, z \in Nat : x = d * (r * s) /\ y = c * s /\ z = (r * d + c) * s
      OBVIOUS
    <3>2. z = x + y /\ u + z = full + n /\ v = u + y
      BY <2>6, <2>7, <2>8, <3>1
    <3>3. n \in Nat
      BY IntegerTypes
    <3> QED
      BY <3>1, <3>2, <3>3
  <2>10. q[i + 1] = d /\ shift(i + 1) = r * s
    BY <1>6, <2>2, <2>3, <2>5
  <2> QED
    BY <2>1, <2>5, <2>9, <2>10
<1> HIDE DEF Told
<1>10. k \in Told
  <2>1. 0..k \subseteq Told
    BY <1>8, <1>9, IntervalInduction
  <2> QED
    BY <2>1
<1>11. PICK u \in Nat, s \in Nat \ {0}, last \in 0..(r - 1) :
        u = f[k + 1] /\ s = shift(k) /\ last = q[k]
  <2>1. q[k] \in Nat /\ q[k] < r
    BY <1>0 DEF Left
  <2>2. k + 1 \in 1..(k + 1)
    OBVIOUS
  <2>3. f[k + 1] \in Nat /\ shift(k) \in Nat \ {0}
    BY <1>5, <1>6, <2>2
  <2>4. q[k] \in 0..(r - 1)
    BY <2>1
  <2> QED
    BY <2>3, <2>4
<1>12. u + last * s = full + n
  BY <1>10, <1>11 DEF Told
<1>13. f[k + 2] = u + last * s
  <2>1. k + 1 \in 1..(k + 1) /\ (k + 1) - 1 = k /\ (k + 1) + 1 = k + 2
    OBVIOUS
  <2>2. f[k + 2] = f[k + 1] + (g[k + 1] % r) * shift(k)
    BY <1>5, <2>1
  <2>3. g[k + 1] = last
    BY <1>11 DEF InGroups
  <2>4. last % r = last
    <3>1. PICK zero \in Nat : zero = 0
      OBVIOUS
    <3>2. (r * zero + last) % r = last
      BY Remainder
    <3>3. r * zero + last = last
      BY <3>1
    <3> QED
      BY <3>2, <3>3
  <2> QED
    BY <1>11, <2>2, <2>3, <2>4
<1>14. ASSUME k # 0 PROVE shift(k) <= n
  <2>1. last >= 1
    <3>1. k \in 1..k
      BY <1>14
    <3>2. q[k - 1] >= r /\ q[k] = q[k - 1] \div r /\ q[k - 1] \in Nat
      BY <1>0, <3>1 DEF Left
    <3>3. q[k - 1] \div r \in 1..(q[k - 1] - 1)
      BY <1>0, <3>2, LessIsLeft
    <3> QED
      BY <1>11, <3>2, <3>3
  <2>2. u >= full
    <3>0. PICK end \in Nat : end = k + 1 /\ 1 \in 1..end
      OBVIOUS
    <3> DEFINE Above == {i \in 1..end : f[i] >= full}
    <3>1. 1 \in Above
      BY <1>5, <3>0
    <3>2. ASSUME NEW i \in 1..end, i \in Above, i < end PROVE i + 1 \in Above
      <4>1. i + 1 \in 1..end /\ i \in 1..(k + 1) /\ i + 1 \in 1..(k + 1) /\ i - 1 \in Nat
        BY <3>0, <3>2
      <4>2. f[i] \in Nat /\ f[i + 1] = f[i] + (g[i] % r) * shift(i - 1)
        BY <1>5, <4>1
      <4>3. g[i] % r \in Nat
        <5>1. g[i] \in Nat
          BY <1>2, <4>1
        <5> QED
          BY <5>1
      <4>4. PICK x \in Nat, z \in Nat : x = g[i] % r /\ z = shift(i - 1)
        BY <1>6, <4>1, <4>3
      <4>5. PICK y \in Nat : y = x * z
        OBVIOUS
      <4>6. PICK a \in Nat, c \in Nat : a = f[i] /\ c = f[i + 1] /\ c = a + y
        <5>1. f[i + 1] \in Nat
          BY <1>5, <4>1
        <5>2. f[i + 1] = f[i] + y
          BY <4>2, <4>4, <4>5
        <5> QED
          BY <4>2, <5>1, <5>2
      <4>7. a >= full
        BY <3>2, <4>6
      <4>8. f[i + 1] >= full
        BY <4>6, <4>7
      <4> QED
        BY <4>1, <4>8
    <3> HIDE DEF Above
    <3>3. 1..end \subseteq Above
      BY <3>1, <3>2, IntervalInduction
    <3>4. k + 1 \in Above
      BY <3>0, <3>3
    <3> QED
      BY <1>11, <3>4 DEF Above
  <2>3. last * s >= s
    <3>1. last - 1 \in Nat
      BY <2>1
    <3>2. (last - 1) * s >= 0 /\ (last - 1) * s = last * s - s
      BY <3>1
    <3> QED
      BY <3>2
  <2>4. PICK x \in Nat : x = last * s
    OBVIOUS
  <2>5. n \in Nat
    BY IntegerTypes
  <2>6. u + x = full + n /\ x >= s
    BY <1>12, <2>3, <2>4
  <2>7. s <= n
    BY <2>2, <2>5, <2>6
  <2> QED
    BY <1>11, <2>7
<1> QED
  BY <1>0, <1>4, <1>11, <1>12, <1>13, <1>14 DEF shift

\* No group of an integer of the width is shifted beyond the last shift.
LEMMA ShiftedInTime ==
    ASSUME NEW k \in Nat, TwoTo[k * GroupBits] <= MaxInt
    PROVE  k * GroupBits <= LastShift
<1>1. PICK b \in Nat \ {0}, l \in Nat, w \in Nat :
        /\ b = GroupBits /\ l = LastShift /\ w = Width
        /\ l < w /\ l + b >= w /\ l % b = 0
  BY WidthAssumption
<1>2. k * b \in Nat
  OBVIOUS
<1>3. k * b < w
  <2>1. TwoTo[k * b] < TwoTo[w]
    <3>1. TwoTo[k * b] \in Nat
      BY <1>2, TwoToType
    <3> QED
      BY <1>1, <3>1, IntegerTypes
  <2> QED
    BY <1>2, <2>1, TwoToGrows
<1>4. PICK m \in Nat : l = b * m
  <2>1. l \div b \in Int
    OBVIOUS
  <2>2. l \div b >= 0
    OBVIOUS
  <2>3. l = b * (l \div b) + (l % b)
    OBVIOUS
  <2>4. PICK m \in Nat : m = l \div b
    BY <2>1, <2>2
  <2> QED
    BY <1>1, <2>3, <2>4
<1>5. b * k < b * m + b
  BY <1>1, <1>3, <1>4
<1>6. ASSUME k >= m + 1 PROVE FALSE
  <2>1. k - (m + 1) \in Nat
    BY <1>6
  <2>2. b * (k - (m + 1)) >= 0 /\ b * (k - (m + 1)) = b * k - (b * m + b)
    BY <2>1
  <2> QED
    BY <1>5, <2>2
<1>7. m - k \in Nat
  BY <1>6
<1>8. b * (m - k) >= 0 /\ b * (m - k) = b * m - k * b
  BY <1>7
<1> QED
  BY <1>1, <1>4, <1>8

\* Every integer of the width is read back as it was written, with each of its
\* octets, whatever the prefix (hpack_encode_int, hpack_decode_int).
THEOREM IntegersReadAsWritten == \A prefixBits \in Nat : ReadAsWritten(prefixBits)
<1> DEFINE read(p, s, v) ==
             DecodeInt(p, s) = [ok |-> TRUE, value |-> v, used |-> Len(s)]
<1> SUFFICES ASSUME NEW prefixBits \in Nat, NEW v \in 0..MaxInt
             PROVE  read(prefixBits, EncodeInt(prefixBits, v), v)
  BY DEF ReadAsWritten
<1>1. PICK full \in Nat : full = TwoTo[prefixBits] - 1
  BY TwoToType
<1>2. CASE v < full
  <2>1. EncodeInt(prefixBits, v) = <<v>>
    BY <1>1, <1>2 DEF EncodeInt
  <2>2. <<v>> # <<>> /\ <<v>>[1] = v /\ Len(<<v>>) = 1
    OBVIOUS
  <2>3. DecodeInt(prefixBits, <<v>>) = [ok |-> TRUE, value |-> v, used |-> 1]
    BY <1>1, <1>2, <2>2 DEF DecodeInt
  <2>4. read(prefixBits, <<v>>, v)
    BY <2>2, <2>3
  <2> HIDE DEF read
  <2> QED
    BY <2>1, <2>4
<1>3. CASE ~(v < full)
  <2>1. PICK n \in 0..MaxInt : n = v - full
    BY <1>3, IntegerTypes
  <2>0. PICK k \in Nat : \E q : Left(q, k, n) /\ InGroups(q, k, Groups[n])
    BY GroupsWritten
  <2>2. PICK q : Left(q, k, n) /\ InGroups(q, k, Groups[n])
    BY <2>0
  <2>3. PICK rest \in Seq(Nat) : rest = Groups[n]
    BY <2>2 DEF InGroups
  <2>4. EncodeInt(prefixBits, v) = <<full>> \o rest
    BY <1>1, <1>3, <2>1, <2>3, Zenon DEF EncodeInt
  <2>5. Ends(rest, k)
    <3>1. PICK r \in Nat \ {0, 1} : r = Radix
      BY IntegerTypes
    <3>2. Len(rest) = k + 1 /\ rest[k + 1] < r
      BY <2>2, <2>3, <3>1 DEF InGroups, Left
    <3>3. ASSUME NEW i \in 1..k PROVE rest[i] >= r
      <4>1. i - 1 \in 0..k
        OBVIOUS
      <4>2. rest[i] = r + (q[i - 1] % r) /\ q[i - 1] \in Nat
        BY <2>2, <2>3, <3>1, <4>1 DEF InGroups, Left
      <4>3. q[i - 1] % r \in Nat
        BY <4>2
      <4> QED
        BY <4>2, <4>3
    <3> QED
      BY <3>1, <3>2, <3>3 DEF Ends
  <2>6. PICK octets : Followed(octets, full, rest)
    BY BehindParts
  <2>7. octets = <<full>> \o rest
    BY <2>6 DEF Followed
  <2>8. /\ octets \in Seq(Nat) /\ Len(octets) = k + 2 /\ octets[1] = full
        /\ \A i \in 1..(k + 1) : octets[i + 1] = rest[i]
        /\ octets[k + 2] < Radix /\ \A i \in 2..(k + 1) : octets[i] >= Radix
    BY <2>5, <2>6, BehindEnding
  <2>9. /\ Meaning(prefixBits, octets) = TwoTo[prefixBits] - 1 + n
        /\ k # 0 => TwoTo[k * GroupBits] <= n
    <3>1. octets[1] = TwoTo[prefixBits] - 1 /\ InGroups(q, k, rest)
      BY <1>1, <2>2, <2>3, <2>8
    <3>2. Encoded(octets, prefixBits, rest, k)
      BY <2>8, <3>1 DEF Encoded
    <3> QED
      BY <2>2, <3>1, <3>2, WrittenMeansIt
  <2>10. Meaning(prefixBits, octets) = v
    BY <1>1, <2>1, <2>9, IntegerTypes
  <2>11. k * GroupBits <= LastShift
    <3>1. CASE k = 0
      BY <3>1, WidthAssumption
    <3>2. CASE k # 0
      <4>1. k * GroupBits \in Nat
        BY WidthAssumption
      <4>2. TwoTo[k * GroupBits] <= MaxInt
        BY <2>9, <3>2, <4>1, TwoToType, IntegerTypes
      <4> QED
        BY <4>2, ShiftedInTime
    <3> QED
      BY <3>1, <3>2
  <2>12. DecodeInt(prefixBits, octets) = [ok |-> TRUE, value |-> v, used |-> k + 2]
    <3>1. Meaning(prefixBits, octets) <= MaxInt
      BY <2>10, IntegerTypes
    <3>2. octets \in Seq(Nat) /\ octets[1] = TwoTo[prefixBits] - 1
      BY <1>1, <2>8
    <3>3. DecodeInt(prefixBits, octets) =
            [ok |-> TRUE, value |-> Meaning(prefixBits, octets), used |-> k + 2]
      BY <2>8, <2>11, <3>1, <3>2, DecodedAsMeant
    <3> QED
      BY <2>10, <3>3, Zenon
  <2>13. read(prefixBits, octets, v)
    BY <2>8, <2>12
  <2> HIDE DEF read
  <2> QED
    BY <2>4, <2>7, <2>13, Zenon
<1> QED
  BY <1>2, <1>3

----------------------------------------------------------------------------
(* The table of the code.                                                  *)

\* Of each row of the table: the length of its codes, the first of them and how many.
RowBits == <<5, 6, 7, 8, 10, 11, 12, 13, 14, 15, 19, 20, 21, 22, 23, 24, 25, 26, 27, 28, 30>>
RowFirst == <<0, 20, 92, 248, 1016, 2042, 4090, 8184, 16380, 32764, 524272, 1048550,
    2097116, 4194258, 8388568, 16777194, 33554412, 67108832, 134217694, 268435426, 1073741820>>
RowCount == <<10, 26, 32, 6, 5, 3, 2, 6, 2, 3, 3, 8, 13, 26, 29, 12, 4, 15, 19, 29, 3>>
RowBehind(r) == RowFirst[r] + RowCount[r]

LEMMA RowsAre ==
    /\ Len(HuffmanRows) = 21 /\ DOMAIN HuffmanRows = 1..21
    /\ \A r \in 1..21 : /\ HuffmanRows[r].bits = RowBits[r]
                         /\ HuffmanRows[r].first = RowFirst[r]
                         /\ Len(HuffmanRows[r].octets) = RowCount[r]
                         /\ DOMAIN HuffmanRows[r].octets = 1..RowCount[r]
  BY DEF HuffmanRows, RowBits, RowFirst, RowCount

\* Every octet has a code.
LEMMA OctetsHaveCodes ==
    \A o \in 0..255 : \E r \in 1..21 : \E i \in 1..RowCount[r] : HuffmanRows[r].octets[i] = o
  BY DEF HuffmanRows, RowCount

\* Codes of one length are in the order of their octets.
Ascends(r) == \A i \in 2..RowCount[r] : HuffmanRows[r].octets[i - 1] < HuffmanRows[r].octets[i]

LEMMA RowsAscend == \A r \in 1..21 : Ascends(r)
<1>1. Ascends(1)
  BY DEF Ascends, HuffmanRows, RowCount
<1>2. Ascends(2)
  BY DEF Ascends, HuffmanRows, RowCount
<1>3. Ascends(3)
  BY DEF Ascends, HuffmanRows, RowCount
<1>4. Ascends(4)
  BY DEF Ascends, HuffmanRows, RowCount
<1>5. Ascends(5)
  BY DEF Ascends, HuffmanRows, RowCount
<1>6. Ascends(6)
  BY DEF Ascends, HuffmanRows, RowCount
<1>7. Ascends(7)
  BY DEF Ascends, HuffmanRows, RowCount
<1>8. Ascends(8)
  BY DEF Ascends, HuffmanRows, RowCount
<1>9. Ascends(9)
  BY DEF Ascends, HuffmanRows, RowCount
<1>10. Ascends(10)
  BY DEF Ascends, HuffmanRows, RowCount
<1>11. Ascends(11)
  BY DEF Ascends, HuffmanRows, RowCount
<1>12. Ascends(12)
  BY DEF Ascends, HuffmanRows, RowCount
<1>13. Ascends(13)
  BY DEF Ascends, HuffmanRows, RowCount
<1>14. Ascends(14)
  BY DEF Ascends, HuffmanRows, RowCount
<1>15. Ascends(15)
  BY DEF Ascends, HuffmanRows, RowCount
<1>16. Ascends(16)
  BY DEF Ascends, HuffmanRows, RowCount
<1>17. Ascends(17)
  BY DEF Ascends, HuffmanRows, RowCount
<1>18. Ascends(18)
  BY DEF Ascends, HuffmanRows, RowCount
<1>19. Ascends(19)
  BY DEF Ascends, HuffmanRows, RowCount
<1>20. Ascends(20)
  BY DEF Ascends, HuffmanRows, RowCount
<1>21. Ascends(21)
  BY DEF Ascends, HuffmanRows, RowCount
<1> QED
  BY <1>1, <1>2, <1>3, <1>4, <1>5, <1>6, <1>7, <1>8, <1>9, <1>10, <1>11,
     <1>12, <1>13, <1>14, <1>15, <1>16, <1>17, <1>18, <1>19, <1>20, <1>21

LEMMA RowTypes ==
    \A r \in 1..21 : RowBits[r] \in 5..30 /\ RowFirst[r] \in Nat /\ RowCount[r] \in Nat \ {0}
  BY DEF RowBits, RowFirst, RowCount

LEMMA TwoToTable ==
    /\ TwoTo[1] = 2 /\ TwoTo[2] = 4 /\ TwoTo[3] = 8 /\ TwoTo[4] = 16
    /\ TwoTo[5] = 32 /\ TwoTo[6] = 64 /\ TwoTo[7] = 128 /\ TwoTo[8] = 256
    /\ TwoTo[10] = 1024 /\ TwoTo[11] = 2048 /\ TwoTo[12] = 4096 /\ TwoTo[13] = 8192
    /\ TwoTo[14] = 16384 /\ TwoTo[15] = 32768 /\ TwoTo[19] = 524288 /\ TwoTo[20] = 1048576
    /\ TwoTo[21] = 2097152 /\ TwoTo[22] = 4194304 /\ TwoTo[23] = 8388608 /\ TwoTo[24] = 16777216
    /\ TwoTo[25] = 33554432 /\ TwoTo[26] = 67108864 /\ TwoTo[27] = 134217728 /\ TwoTo[28] = 268435456
    /\ TwoTo[30] = 1073741824
<1>1. TwoTo[1] = 2
  BY TwoToNext
<1>2. TwoTo[2] = 4
  BY <1>1, TwoToNext
<1>3. TwoTo[3] = 8
  BY <1>2, TwoToNext
<1>4. TwoTo[4] = 16
  BY <1>3, TwoToNext
<1>5. TwoTo[5] = 32
  BY <1>4, TwoToNext
<1>6. TwoTo[6] = 64
  BY <1>5, TwoToNext
<1>7. TwoTo[7] = 128
  BY <1>6, TwoToNext
<1>8. TwoTo[8] = 256
  BY <1>7, TwoToNext
<1>9. TwoTo[9] = 512
  BY <1>8, TwoToNext
<1>10. TwoTo[10] = 1024
  BY <1>9, TwoToNext
<1>11. TwoTo[11] = 2048
  BY <1>10, TwoToNext
<1>12. TwoTo[12] = 4096
  BY <1>11, TwoToNext
<1>13. TwoTo[13] = 8192
  BY <1>12, TwoToNext
<1>14. TwoTo[14] = 16384
  BY <1>13, TwoToNext
<1>15. TwoTo[15] = 32768
  BY <1>14, TwoToNext
<1>16. TwoTo[16] = 65536
  BY <1>15, TwoToNext
<1>17. TwoTo[17] = 131072
  BY <1>16, TwoToNext
<1>18. TwoTo[18] = 262144
  BY <1>17, TwoToNext
<1>19. TwoTo[19] = 524288
  BY <1>18, TwoToNext
<1>20. TwoTo[20] = 1048576
  BY <1>19, TwoToNext
<1>21. TwoTo[21] = 2097152
  BY <1>20, TwoToNext
<1>22. TwoTo[22] = 4194304
  BY <1>21, TwoToNext
<1>23. TwoTo[23] = 8388608
  BY <1>22, TwoToNext
<1>24. TwoTo[24] = 16777216
  BY <1>23, TwoToNext
<1>25. TwoTo[25] = 33554432
  BY <1>24, TwoToNext
<1>26. TwoTo[26] = 67108864
  BY <1>25, TwoToNext
<1>27. TwoTo[27] = 134217728
  BY <1>26, TwoToNext
<1>28. TwoTo[28] = 268435456
  BY <1>27, TwoToNext
<1>29. TwoTo[29] = 536870912
  BY <1>28, TwoToNext
<1>30. TwoTo[30] = 1073741824
  BY <1>29, TwoToNext
<1> QED
  BY <1>1, <1>2, <1>3, <1>4, <1>5, <1>6, <1>7, <1>8, <1>10, <1>11, <1>12, <1>13,
     <1>14, <1>15, <1>19, <1>20, <1>21, <1>22, <1>23, <1>24, <1>25, <1>26, <1>27, <1>28,
     <1>30

\* The code is canonical: a row begins where the one before it goes on with more
\* bits, and has room for its codes and one more.
LEMMA RowsFollow ==
    /\ RowFirst[1] = 0
    /\ \A r \in 1..20 : /\ RowBits[r + 1] - RowBits[r] \in 1..4
                         /\ RowFirst[r + 1] = RowBehind(r) * TwoTo[RowBits[r + 1] - RowBits[r]]
    /\ RowBits[21] = 30 /\ RowBehind(21) = TwoTo[30] - 1
<1>1. TwoTo[1] = 2 /\ TwoTo[2] = 4 /\ TwoTo[4] = 16 /\ TwoTo[30] = 1073741824
  BY TwoToTable
<1>2. ASSUME NEW r \in 1..20
      PROVE  \E d \in {1, 2, 4} :
               /\ RowBits[r + 1] - RowBits[r] = d
               /\ RowFirst[r + 1] = RowBehind(r) * (IF d = 1 THEN 2 ELSE IF d = 2 THEN 4 ELSE 16)
  BY DEF RowBits, RowFirst, RowCount, RowBehind
<1>3. ASSUME NEW r \in 1..20
      PROVE  /\ RowBits[r + 1] - RowBits[r] \in 1..4
             /\ RowFirst[r + 1] = RowBehind(r) * TwoTo[RowBits[r + 1] - RowBits[r]]
  <2>1. PICK d \in {1, 2, 4} :
               /\ RowBits[r + 1] - RowBits[r] = d
               /\ RowFirst[r + 1] = RowBehind(r) * (IF d = 1 THEN 2 ELSE IF d = 2 THEN 4 ELSE 16)
    BY <1>2
  <2>2. TwoTo[d] = IF d = 1 THEN 2 ELSE IF d = 2 THEN 4 ELSE 16
    BY <1>1
  <2> QED
    BY <2>1, <2>2
<1>4. RowFirst[1] = 0 /\ RowBits[21] = 30 /\ RowBehind(21) = 1073741823
  BY DEF RowBits, RowFirst, RowCount, RowBehind
<1> QED
  BY <1>1, <1>3, <1>4

LEMMA RowsFit == \A r \in 1..21 : RowBehind(r) < TwoTo[RowBits[r]]
  BY TwoToTable DEF RowBits, RowFirst, RowCount, RowBehind

LEMMA RowsLengthen == \A r \in 1..21, q \in 1..21 : r < q => RowBits[r] < RowBits[q]
  BY DEF RowBits

\* Codes do not begin with a shorter code: they are behind all that go on from it.
LEMMA RowsBehind ==
    ASSUME NEW r \in 1..21, NEW q \in 1..21, r < q
    PROVE  RowFirst[q] >= RowBehind(r) * TwoTo[RowBits[q] - RowBits[r]]
<1> DEFINE Far == {n \in (r + 1)..q : RowFirst[n] >= RowBehind(r) * TwoTo[RowBits[n] - RowBits[r]]}
<1>1. r + 1 \in Far
  <2>1. r \in 1..20 /\ r + 1 \in 1..21 /\ r + 1 \in (r + 1)..q
    OBVIOUS
  <2>2. RowFirst[r + 1] = RowBehind(r) * TwoTo[RowBits[r + 1] - RowBits[r]]
    BY <2>1, RowsFollow
  <2>3. PICK a \in Nat : a = RowFirst[r + 1]
    BY <2>1, RowTypes
  <2> QED
    BY <2>1, <2>2, <2>3
<1>2. ASSUME NEW n \in (r + 1)..q, n \in Far, n < q PROVE n + 1 \in Far
  <2>1. n \in 1..20 /\ n \in 1..21 /\ n + 1 \in 1..21 /\ r < n /\ n + 1 \in (r + 1)..q
    BY <1>2
  <2>2. PICK d \in Nat, e \in Nat : d = RowBits[n + 1] - RowBits[n] /\ e = RowBits[n] - RowBits[r]
    <3>1. RowBits[n + 1] - RowBits[n] \in Nat
      BY <2>1, RowsFollow
    <3>2. RowBits[r] < RowBits[n]
      BY <2>1, RowsLengthen
    <3>3. RowBits[r] \in 5..30 /\ RowBits[n] \in 5..30
      BY <2>1, RowTypes
    <3> QED
      BY <3>1, <3>2, <3>3
  <2>3. RowBits[n + 1] - RowBits[r] = e + d
    <3>1. RowBits[r] \in 5..30 /\ RowBits[n] \in 5..30 /\ RowBits[n + 1] \in 5..30
      BY <2>1, RowTypes
    <3>2. PICK x \in 5..30, y \in 5..30, z \in 5..30 :
            x = RowBits[r] /\ y = RowBits[n] /\ z = RowBits[n + 1]
      BY <3>1
    <3> QED
      BY <2>2, <3>2
  <2>4. TwoTo[e + d] = TwoTo[e] * TwoTo[d]
    BY TwoToSum
  <2>5. PICK x \in Nat, y \in Nat, a \in Nat, b \in Nat, f \in Nat, c \in Nat :
          /\ x = TwoTo[e] /\ y = TwoTo[d] /\ a = RowBehind(r) /\ f = RowFirst[n]
          /\ b = RowBehind(n) /\ c = RowCount[n] /\ b = f + c
    <3>1. TwoTo[e] \in Nat /\ TwoTo[d] \in Nat
      BY TwoToType
    <3>2. RowFirst[r] \in Nat /\ RowCount[r] \in Nat /\ RowFirst[n] \in Nat /\ RowCount[n] \in Nat
      BY <2>1, RowTypes
    <3>3. RowBehind(r) \in Nat /\ RowBehind(n) \in Nat /\ RowBehind(n) = RowFirst[n] + RowCount[n]
      BY <3>2 DEF RowBehind
    <3> QED
      BY <3>1, <3>2, <3>3
  <2>6. f >= a * x
    BY <1>2, <2>2, <2>5
  <2>7. RowFirst[n + 1] = b * y
    BY <2>1, <2>2, <2>5, RowsFollow
  <2>8. b * y >= (a * x) * y
    <3>1. PICK z \in Nat : z = a * x
      OBVIOUS
    <3>2. b - z \in Nat
      BY <2>5, <2>6, <3>1
    <3>3. (b - z) * y >= 0 /\ (b - z) * y = b * y - z * y
      BY <3>2
    <3> QED
      BY <3>1, <3>3
  <2>9. (a * x) * y = a * (x * y)
    OBVIOUS
  <2>10. RowFirst[n + 1] >= RowBehind(r) * TwoTo[RowBits[n + 1] - RowBits[r]]
    BY <2>3, <2>4, <2>5, <2>7, <2>8, <2>9
  <2> QED
    BY <2>1, <2>10
<1> HIDE DEF Far
<1>3. PICK first \in Nat : first = r + 1 /\ q \in first..q
  OBVIOUS
<1>4. first..q \subseteq Far
  BY <1>1, <1>2, <1>3, IntervalInduction
<1> QED
  BY <1>3, <1>4 DEF Far

\* The octets of the codes of some length.
LEMMA SymbolsAre ==
    ASSUME NEW code \in Nat, NEW bits \in Nat
    PROVE  /\ (\A r \in 1..21 : RowBits[r] = bits => code \notin RowFirst[r]..(RowBehind(r) - 1))
                => HuffmanSymbols(code, bits) = {}
           /\ \A r \in 1..21 : RowBits[r] = bits /\ code \in RowFirst[r]..(RowBehind(r) - 1)
                => HuffmanSymbols(code, bits) = {HuffmanRows[r].octets[code - RowFirst[r] + 1]}
<1> DEFINE Rows == {q \in DOMAIN HuffmanRows :
                      /\ HuffmanRows[q].bits = bits
                      /\ code \in HuffmanRows[q].first..(HuffmanRows[q].first + Len(HuffmanRows[q].octets) - 1)}
<1>1. Rows = {q \in 1..21 : RowBits[q] = bits /\ code \in RowFirst[q]..(RowBehind(q) - 1)}
  <2>1. ASSUME NEW q \in 1..21
        PROVE  RowFirst[q] + Len(HuffmanRows[q].octets) - 1 = RowBehind(q) - 1
    <3>1. RowBehind(q) = RowFirst[q] + Len(HuffmanRows[q].octets)
      BY RowsAre DEF RowBehind
    <3>2. PICK a \in Nat, c \in Nat : a = RowFirst[q] /\ c = Len(HuffmanRows[q].octets)
      BY RowsAre, RowTypes
    <3> QED
      BY <3>1, <3>2
  <2> QED
    BY <2>1, RowsAre
<1>2. HuffmanSymbols(code, bits) =
        {HuffmanRows[r].octets[code - HuffmanRows[r].first + 1] : r \in Rows}
  BY DEF HuffmanSymbols
<1> HIDE DEF Rows
<1>3. ASSUME \A r \in 1..21 : RowBits[r] = bits => code \notin RowFirst[r]..(RowBehind(r) - 1)
      PROVE  HuffmanSymbols(code, bits) = {}
  <2>1. Rows = {}
    BY <1>1, <1>3
  <2> QED
    BY <1>2, <2>1
<1>4. ASSUME NEW r \in 1..21, RowBits[r] = bits, code \in RowFirst[r]..(RowBehind(r) - 1)
      PROVE  HuffmanSymbols(code, bits) = {HuffmanRows[r].octets[code - RowFirst[r] + 1]}
  <2>1. \A q \in 1..21 : RowBits[q] = RowBits[r] => q = r
    <3> TAKE q \in 1..21
    <3>1. q < r => RowBits[q] < RowBits[r]
      BY RowsLengthen
    <3>2. r < q => RowBits[r] < RowBits[q]
      BY RowsLengthen
    <3> QED
      BY <3>1, <3>2, RowTypes
  <2>2. Rows = {r}
    BY <1>1, <1>4, <2>1
  <2>3. HuffmanRows[r].first = RowFirst[r]
    BY RowsAre
  <2> QED
    BY <1>2, <2>2, <2>3
<1> QED
  BY <1>3, <1>4

\* The octets of the table are octets.
HasOctets(r) == \A i \in 1..RowCount[r] : HuffmanRows[r].octets[i] \in 0..255

LEMMA RowOctets == \A r \in 1..21 : HasOctets(r)
<1>1. HasOctets(1)
  BY DEF HasOctets, HuffmanRows, RowCount
<1>2. HasOctets(2)
  BY DEF HasOctets, HuffmanRows, RowCount
<1>3. HasOctets(3)
  BY DEF HasOctets, HuffmanRows, RowCount
<1>4. HasOctets(4)
  BY DEF HasOctets, HuffmanRows, RowCount
<1>5. HasOctets(5)
  BY DEF HasOctets, HuffmanRows, RowCount
<1>6. HasOctets(6)
  BY DEF HasOctets, HuffmanRows, RowCount
<1>7. HasOctets(7)
  BY DEF HasOctets, HuffmanRows, RowCount
<1>8. HasOctets(8)
  BY DEF HasOctets, HuffmanRows, RowCount
<1>9. HasOctets(9)
  BY DEF HasOctets, HuffmanRows, RowCount
<1>10. HasOctets(10)
  BY DEF HasOctets, HuffmanRows, RowCount
<1>11. HasOctets(11)
  BY DEF HasOctets, HuffmanRows, RowCount
<1>12. HasOctets(12)
  BY DEF HasOctets, HuffmanRows, RowCount
<1>13. HasOctets(13)
  BY DEF HasOctets, HuffmanRows, RowCount
<1>14. HasOctets(14)
  BY DEF HasOctets, HuffmanRows, RowCount
<1>15. HasOctets(15)
  BY DEF HasOctets, HuffmanRows, RowCount
<1>16. HasOctets(16)
  BY DEF HasOctets, HuffmanRows, RowCount
<1>17. HasOctets(17)
  BY DEF HasOctets, HuffmanRows, RowCount
<1>18. HasOctets(18)
  BY DEF HasOctets, HuffmanRows, RowCount
<1>19. HasOctets(19)
  BY DEF HasOctets, HuffmanRows, RowCount
<1>20. HasOctets(20)
  BY DEF HasOctets, HuffmanRows, RowCount
<1>21. HasOctets(21)
  BY DEF HasOctets, HuffmanRows, RowCount
<1> QED
  BY <1>1, <1>2, <1>3, <1>4, <1>5, <1>6, <1>7, <1>8, <1>9, <1>10, <1>11,
     <1>12, <1>13, <1>14, <1>15, <1>16, <1>17, <1>18, <1>19, <1>20, <1>21

LEMMA SymbolsType ==
    ASSUME NEW code \in Nat, NEW bits \in Nat
    PROVE  HuffmanSymbols(code, bits) \in SUBSET Nat
<1>1. CASE \A r \in 1..21 : RowBits[r] = bits => code \notin RowFirst[r]..(RowBehind(r) - 1)
  BY <1>1, SymbolsAre
<1>2. ASSUME NEW r \in 1..21, RowBits[r] = bits, code \in RowFirst[r]..(RowBehind(r) - 1)
      PROVE  HuffmanSymbols(code, bits) \in SUBSET Nat
  <2>1. HuffmanSymbols(code, bits) = {HuffmanRows[r].octets[code - RowFirst[r] + 1]}
    BY <1>2, SymbolsAre
  <2>2. PICK a \in Nat, c \in Nat : a = RowFirst[r] /\ c = RowCount[r] /\ RowBehind(r) = a + c
    BY RowTypes DEF RowBehind
  <2>3. code - RowFirst[r] + 1 \in 1..RowCount[r]
    BY <1>2, <2>2
  <2>4. HuffmanRows[r].octets[code - RowFirst[r] + 1] \in 0..255
    BY <2>3, RowOctets DEF HasOctets
  <2> QED
    BY <2>1, <2>4
<1> QED
  BY <1>1, <1>2

----------------------------------------------------------------------------
(* The decoder.                                                             *)

DecoderStates == [ok : BOOLEAN, code : Nat, bits : Nat, read : Seq(Nat)]

LEMMA ReadBitIs ==
    ASSUME NEW before \in DecoderStates, NEW bit \in 0..1
    PROVE  LET code == 2 * before.code + bit
               bits == before.bits + 1
               symbols == HuffmanSymbols(code, bits)
           IN  /\ code \in Nat /\ bits \in Nat
               /\ ~before.ok => ReadBit(before, bit) = before
               /\ before.ok /\ symbols # {} =>
                    \E s \in symbols : ReadBit(before, bit) = CodeBegun(0, 0, Append(before.read, s))
               /\ before.ok /\ symbols = {} =>
                    ReadBit(before, bit) =
                      [ok |-> bits <= LongestCode, code |-> code, bits |-> bits, read |-> before.read]
<1> DEFINE code == 2 * before.code + bit
           bits == before.bits + 1
           symbols == HuffmanSymbols(code, bits)
<1>1. code \in Nat /\ bits \in Nat
  BY DEF DecoderStates
<1>2. before = [ok |-> before.ok, code |-> before.code, bits |-> before.bits, read |-> before.read]
  BY DEF DecoderStates
<1>3. ReadBit(before, bit) =
        IF ~before.ok THEN before
        ELSE IF symbols # {}
          THEN CodeBegun(0, 0, Append(before.read, CHOOSE s \in symbols : TRUE))
        ELSE [before EXCEPT !.ok = bits <= LongestCode, !.code = code, !.bits = bits]
  BY DEF ReadBit
<1> HIDE DEF symbols, code, bits
<1>4. ASSUME before.ok, symbols # {}
      PROVE  \E s \in symbols : ReadBit(before, bit) = CodeBegun(0, 0, Append(before.read, s))
  <2>1. PICK s \in symbols : s = CHOOSE t \in symbols : TRUE
    BY <1>4
  <2> QED
    BY <1>3, <1>4, <2>1
<1>5. ASSUME before.ok, symbols = {}
      PROVE  ReadBit(before, bit) =
               [ok |-> bits <= LongestCode, code |-> code, bits |-> bits, read |-> before.read]
  <2>1. ReadBit(before, bit) = [before EXCEPT !.ok = bits <= LongestCode, !.code = code, !.bits = bits]
    BY <1>3, <1>5
  <2> QED
    BY <1>2, <2>1
<1>6. ~before.ok => ReadBit(before, bit) = before
  BY <1>3
<1> QED
  BY <1>1, <1>4, <1>5, <1>6 DEF symbols, code, bits

LEMMA ReadBitType ==
    ASSUME NEW before \in DecoderStates, NEW bit \in 0..1
    PROVE  ReadBit(before, bit) \in DecoderStates
<1> DEFINE code == 2 * before.code + bit
           bits == before.bits + 1
           symbols == HuffmanSymbols(code, bits)
<1>1. /\ code \in Nat /\ bits \in Nat
      /\ ~before.ok => ReadBit(before, bit) = before
      /\ before.ok /\ symbols # {} =>
           \E s \in symbols : ReadBit(before, bit) = CodeBegun(0, 0, Append(before.read, s))
      /\ before.ok /\ symbols = {} =>
           ReadBit(before, bit) =
             [ok |-> bits <= LongestCode, code |-> code, bits |-> bits, read |-> before.read]
  BY ReadBitIs
<1>2. before.read \in Seq(Nat) /\ before.ok \in BOOLEAN
  BY DEF DecoderStates
<1> HIDE DEF code, bits
<1>3. symbols \in SUBSET Nat
  BY <1>1, SymbolsType
<1> HIDE DEF symbols
<1>4. CASE ~before.ok
  BY <1>1, <1>4
<1>5. CASE before.ok /\ symbols # {}
  <2>1. PICK s \in symbols : ReadBit(before, bit) = CodeBegun(0, 0, Append(before.read, s))
    BY <1>1, <1>5
  <2>2. Append(before.read, s) \in Seq(Nat)
    BY <1>2, <1>3
  <2> QED
    BY <2>1, <2>2 DEF CodeBegun, DecoderStates
<1>6. CASE before.ok /\ symbols = {}
  <2>1. (bits <= LongestCode) \in BOOLEAN
    OBVIOUS
  <2>2. ReadBit(before, bit) =
          [ok |-> bits <= LongestCode, code |-> code, bits |-> bits, read |-> before.read]
    BY <1>1, <1>6
  <2> QED
    BY <1>1, <1>2, <2>1, <2>2 DEF DecoderStates
<1> QED
  BY <1>2, <1>4, <1>5, <1>6

DecoderRun(f, input) ==
    f = [i \in 0..Len(input) |-> IF i = 0 THEN CodeBegun(0, 0, <<>>) ELSE ReadBit(f[i - 1], input[i])]

LEMMA BegunAtTheStart == CodeBegun(0, 0, <<>>) \in DecoderStates
  BY DEF CodeBegun, DecoderStates

LEMMA DecodingExists == ASSUME NEW input \in Seq(0..1) PROVE \E f : DecoderRun(f, input)
<1> DEFINE n == Len(input)
           step == [x \in (1..n) \X DecoderStates |-> ReadBit(x[2], input[x[1]])]
<1>1. n \in Nat /\ \A i \in 1..n : input[i] \in 0..1
  OBVIOUS
<1> HIDE DEF n
<1>2. step \in [(1..n) \X DecoderStates -> DecoderStates]
  <2>1. ASSUME NEW x \in (1..n) \X DecoderStates
        PROVE  ReadBit(x[2], input[x[1]]) \in DecoderStates
    BY <1>1, ReadBitType
  <2> QED
    BY <2>1
<1>3. \A i \in 1..n, d \in DecoderStates : step[<<i, d>>] = ReadBit(d, input[i])
  OBVIOUS
<1> HIDE DEF step
<1>4. PICK f : Iterates(f, n, DecoderStates, CodeBegun(0, 0, <<>>), step)
  BY <1>1, <1>2, BegunAtTheStart, Iteration
<1>5. f \in [0..n -> DecoderStates] /\ f[0] = CodeBegun(0, 0, <<>>) /\ \A i \in 1..n : f[i] = step[<<i, f[i - 1]>>]
  BY <1>4 DEF Iterates
<1>6. ASSUME NEW i \in 0..n
      PROVE  f[i] = IF i = 0 THEN CodeBegun(0, 0, <<>>) ELSE ReadBit(f[i - 1], input[i])
  <2>1. CASE i = 0
    BY <1>5, <2>1
  <2>2. CASE i # 0
    <3>1. i \in 1..n /\ i - 1 \in 0..n
      BY <1>1, <2>2
    <3>2. f[i - 1] \in DecoderStates
      BY <1>5, <3>1
    <3> QED
      BY <1>3, <1>5, <2>2, <3>1, <3>2
  <2> QED
    BY <2>1, <2>2
<1>7. f = [i \in 0..n |-> f[i]]
  BY <1>5
<1>8. f = [i \in 0..n |-> IF i = 0 THEN CodeBegun(0, 0, <<>>) ELSE ReadBit(f[i - 1], input[i])]
  BY <1>6, <1>7
<1>9. DecoderRun(f, input)
  BY <1>8 DEF DecoderRun, n
<1> QED
  BY <1>9

\* What is known of each step.
LEMMA DecodingSteps ==
    ASSUME NEW input \in Seq(0..1), NEW f, DecoderRun(f, input)
    PROVE  /\ f[0] = CodeBegun(0, 0, <<>>)
           /\ \A i \in 0..Len(input) : f[i] \in DecoderStates
           /\ \A i \in 1..Len(input) : f[i] = ReadBit(f[i - 1], input[i])
<1> DEFINE n == Len(input)
<1>1. n \in Nat /\ \A i \in 1..n : input[i] \in 0..1
  OBVIOUS
<1>2. f = [i \in 0..n |-> IF i = 0 THEN CodeBegun(0, 0, <<>>) ELSE ReadBit(f[i - 1], input[i])]
  BY DEF DecoderRun
<1> HIDE DEF n
<1>3. \A i \in 0..n : f[i] = IF i = 0 THEN CodeBegun(0, 0, <<>>) ELSE ReadBit(f[i - 1], input[i])
  BY <1>2
<1>4. f[0] = CodeBegun(0, 0, <<>>)
  BY <1>1, <1>3
<1>5. \A i \in 1..n : f[i] = ReadBit(f[i - 1], input[i])
  BY <1>3
<1>6. ASSUME NEW i \in 1..n, f[i - 1] \in DecoderStates PROVE f[i] \in DecoderStates
  <2>1. f[i] = ReadBit(f[i - 1], input[i]) /\ input[i] \in 0..1
    BY <1>1, <1>5
  <2> QED
    BY <1>6, <2>1, ReadBitType
<1>7. \A i \in 0..n : f[i] \in DecoderStates
  BY <1>1, <1>4, <1>6, BegunAtTheStart, IterationStays
<1> QED
  BY <1>4, <1>5, <1>7, BegunAtTheStart DEF n

\* The bits of octets are bits.
LEMMA BitsType ==
    ASSUME NEW octets \in Seq(Nat)
    PROVE  Bits(octets) \in Seq(0..1) /\ Len(Bits(octets)) = 8 * Len(octets)
<1> DEFINE n == Len(octets)
<1>1. n \in Nat /\ 8 * n \in Nat /\ \A i \in 1..n : octets[i] \in Nat
  OBVIOUS
<1> HIDE DEF n
<1>2. ASSUME NEW i \in 1..(8 * n)
      PROVE  (octets[(i + 7) \div 8] \div TwoTo[(8 - (i % 8)) % 8]) % 2 \in 0..1
  <2>1. (i + 7) \div 8 \in 1..n
    BY <1>1
  <2>2. (8 - (i % 8)) % 8 \in Nat
    OBVIOUS
  <2>3. PICK a \in Nat, b \in Nat \ {0} :
          a = octets[(i + 7) \div 8] /\ b = TwoTo[(8 - (i % 8)) % 8]
    BY <1>1, <2>1, <2>2, TwoToType
  <2>4. PICK q \in Nat, r \in 0..(b - 1) : a = b * q + r /\ a \div b = q
    BY Division
  <2>5. (a \div b) % 2 \in 0..1
    BY <2>4
  <2> QED
    BY <2>3, <2>5
<1>3. Bits(octets) = [i \in 1..(8 * n) |->
        (octets[(i + 7) \div 8] \div TwoTo[(8 - (i % 8)) % 8]) % 2]
  BY DEF Bits, n
<1>4. Bits(octets) \in [1..(8 * n) -> 0..1]
  BY <1>2, <1>3
<1> QED
  BY <1>1, <1>4, SeqDef DEF n

\* What has been decoded is what the last state says.
LEMMA DecodedByStates ==
    ASSUME NEW octets \in Seq(Nat)
    PROVE  \E f : /\ DecoderRun(f, Bits(octets))
                  /\ LET end == f[Len(Bits(octets))]
                     IN  HuffmanDecode(octets) =
                           [ok |-> end.ok /\ Padding(end.code, end.bits), read |-> end.read]
<1> DEFINE input == Bits(octets)
           f == CHOOSE g : DecoderRun(g, input)
           after == CHOOSE g : g = [i \in 0..Len(input) |->
                      IF i = 0 THEN CodeBegun(0, 0, <<>>) ELSE ReadBit(g[i - 1], input[i])]
<1>1. \E g : DecoderRun(g, input)
  BY BitsType, DecodingExists
<1>2. DecoderRun(f, input)
  BY <1>1
<1>3. f = after
  BY DEF DecoderRun
<1>4. HuffmanDecode(octets) =
        LET end == after[Len(input)]
        IN  [ok |-> end.ok /\ Padding(end.code, end.bits), read |-> end.read]
  BY DEF HuffmanDecode
<1> HIDE DEF f, after
<1> QED
  BY <1>2, <1>3, <1>4

----------------------------------------------------------------------------
(* Bits make codes: a code is read as its octet, ones are none.            *)

\* A number without its last bits: one bit more doubles it and adds the bit.
LEMMA Halves ==
    ASSUME NEW c \in Nat, NEW k \in Nat
    PROVE  /\ c \div TwoTo[k] \in Nat
           /\ c \div TwoTo[k] = 2 * (c \div TwoTo[k + 1]) + ((c \div TwoTo[k]) % 2)
<1>1. PICK b \in Nat \ {0} : b = TwoTo[k] /\ TwoTo[k + 1] = 2 * b
  BY TwoToType, TwoToNext
<1>2. PICK q \in Nat, r \in 0..(b - 1) : c = b * q + r /\ c \div b = q
  BY Division
<1>3. PICK h \in Nat, e \in 0..1 : q = 2 * h + e /\ q % 2 = e
  BY Division
<1>4. (2 * b) * h + (b * e + r) = c
  <2>1. b * (2 * h + e) = (2 * b) * h + b * e
    OBVIOUS
  <2> QED
    BY <1>2, <1>3, <2>1
<1>5. b * e + r \in 0..(2 * b - 1)
  <2>1. CASE e = 0
    BY <2>1
  <2>2. CASE e = 1
    BY <2>2
  <2> QED
    BY <2>1, <2>2
<1>6. PICK d \in Nat \ {0} : d = 2 * b
  OBVIOUS
<1>7. PICK s \in 0..(d - 1) : s = b * e + r
  BY <1>5, <1>6
<1>8. (d * h + s) \div d = h
  BY Remainder
<1>9. c \div (2 * b) = h
  BY <1>4, <1>6, <1>7, <1>8
<1>10. c \div TwoTo[k] = q /\ c \div TwoTo[k + 1] = h
  BY <1>1, <1>2, <1>9, Zenon
<1>11. q = 2 * h + (q % 2)
  BY <1>3, Zenon
<1> QED
  BY <1>10, <1>11, Zenon

\* What a bit makes of the code begun.
OneBit(input, p, n, code, next, bits, more) ==
    /\ p \in Nat /\ n \in Nat /\ n = p + 1 /\ n <= Len(input)
    /\ code \in Nat /\ next \in Nat /\ next = 2 * code + input[n]
    /\ bits \in 0..29 /\ more \in Nat /\ more = bits + 1

\* A bit that completes no symbol, and one that does.
LEMMA GoesOn ==
    ASSUME NEW input \in Seq(0..1), NEW f, DecoderRun(f, input),
           NEW p, NEW n, NEW code, NEW next, NEW bits, NEW more, NEW read \in Seq(Nat),
           OneBit(input, p, n, code, next, bits, more),
           f[p] = CodeBegun(code, bits, read), HuffmanSymbols(next, more) = {}
    PROVE  f[n] = CodeBegun(next, more, read)
<1>1. PICK bit \in 0..1 : bit = input[n]
  BY DEF OneBit
<1>2. p \in 0..Len(input) /\ n \in 1..Len(input) /\ n - 1 = p
  BY DEF OneBit
<1>3. f[n] = ReadBit(f[p], bit)
  BY <1>1, <1>2, DecodingSteps
<1>4. /\ f[p] \in DecoderStates /\ f[p].ok /\ f[p].code = code /\ f[p].bits = bits /\ f[p].read = read
  BY <1>2, DecodingSteps DEF CodeBegun
<1>5. (more <= LongestCode) = TRUE
  BY DEF LongestCode, OneBit
<1>6. ReadBit(f[p], bit) =
        [ok |-> more <= LongestCode, code |-> next, bits |-> more, read |-> read]
  BY <1>1, <1>4, ReadBitIs DEF OneBit
<1> QED
  BY <1>1, <1>3, <1>5, <1>6 DEF CodeBegun

LEMMA CompletesSymbol ==
    ASSUME NEW input \in Seq(0..1), NEW f, DecoderRun(f, input),
           NEW p, NEW n, NEW code, NEW next, NEW bits, NEW more, NEW read \in Seq(Nat),
           OneBit(input, p, n, code, next, bits, more),
           f[p] = CodeBegun(code, bits, read), HuffmanSymbols(next, more) # {}
    PROVE  \E s \in HuffmanSymbols(next, more) : f[n] = CodeBegun(0, 0, Append(read, s))
<1>1. PICK bit \in 0..1 : bit = input[n]
  BY DEF OneBit
<1>2. p \in 0..Len(input) /\ n \in 1..Len(input) /\ n - 1 = p
  BY DEF OneBit
<1>3. f[n] = ReadBit(f[p], bit)
  BY <1>1, <1>2, DecodingSteps
<1>4. /\ f[p] \in DecoderStates /\ f[p].ok /\ f[p].code = code /\ f[p].bits = bits /\ f[p].read = read
  BY <1>2, DecodingSteps DEF CodeBegun
<1>5. next = 2 * f[p].code + bit /\ more = f[p].bits + 1
  BY <1>1, <1>4 DEF OneBit
<1>6. \E s \in HuffmanSymbols(next, more) : ReadBit(f[p], bit) = CodeBegun(0, 0, Append(f[p].read, s))
  BY <1>1, <1>4, <1>5, ReadBitIs
<1> QED
  BY <1>3, <1>4, <1>6

\* The code of a row before which there are no shorter ones.
LEMMA PrefixesAreNoCodes ==
    ASSUME NEW q \in 1..21, NEW code \in Nat, code >= RowFirst[q],
           NEW j \in 1..(RowBits[q] - 1)
    PROVE  HuffmanSymbols(code \div TwoTo[RowBits[q] - j], j) = {}
<1>1. PICK m \in 5..30, a \in Nat : m = RowBits[q] /\ a = RowFirst[q]
  BY RowTypes
<1>2. m - j \in Nat
  BY <1>1
<1>3. PICK t \in Nat \ {0} : t = TwoTo[m - j]
  BY <1>2, TwoToType
<1>4. PICK d \in Nat, e \in 0..(t - 1) : code = t * d + e /\ code \div t = d
  BY Division
<1>5. ASSUME NEW r \in 1..21, RowBits[r] = j, d \in RowFirst[r]..(RowBehind(r) - 1)
      PROVE  FALSE
  <2>1. r < q
    <3>1. q < r => RowBits[q] < RowBits[r]
      BY RowsLengthen
    <3>2. j < m
      BY <1>1
    <3>3. ~(q < r) /\ q # r
      BY <1>1, <1>5, <3>1, <3>2
    <3> QED
      BY <3>3
  <2>2. PICK b \in Nat : b = RowBehind(r)
    BY RowTypes DEF RowBehind
  <2>3. a >= b * t
    BY <1>1, <1>3, <1>5, <2>1, <2>2, RowsBehind
  <2>4. d \in Nat /\ b - 1 - d \in Nat
    <3>1. RowFirst[r] \in Nat
      BY RowTypes
    <3> QED
      BY <1>5, <2>2, <3>1
  <2>5. t * (b - 1 - d) >= 0
    BY <2>4
  <2>6. t * (b - 1 - d) = b * t - t - t * d
    OBVIOUS
  <2>7. t * d + e >= b * t
    BY <1>1, <1>4, <2>3
  <2> QED
    <3>1. PICK x \in Nat, y \in Nat : x = t * d /\ y = b * t
      OBVIOUS
    <3> QED
      BY <2>5, <2>6, <2>7, <3>1
<1>6. HuffmanSymbols(d, j) = {}
  <2>1. j \in Nat
    BY <1>1
  <2> QED
    BY <1>5, <2>1, SymbolsAre
<1> QED
  BY <1>1, <1>3, <1>4, <1>6

\* The bits from p on are those of a code.
CodeAt(input, p, code, bits) ==
    \A b \in 1..bits : input[p + b] = (code \div TwoTo[bits - b]) % 2

\* One code after another is read as its octet.
LEMMA CodeIsRead ==
    ASSUME NEW input \in Seq(0..1), NEW f, DecoderRun(f, input),
           NEW q \in 1..21, NEW i \in 1..RowCount[q],
           NEW p \in Nat, p + RowBits[q] <= Len(input), NEW read \in Seq(Nat),
           f[p] = CodeBegun(0, 0, read),
           CodeAt(input, p, RowFirst[q] + i - 1, RowBits[q])
    PROVE  f[p + RowBits[q]] = CodeBegun(0, 0, Append(read, HuffmanRows[q].octets[i]))
<1> DEFINE octet == HuffmanRows[q].octets[i]
<1>1. PICK m \in 5..30, a \in Nat, c \in Nat \ {0} :
        m = RowBits[q] /\ a = RowFirst[q] /\ c = RowCount[q] /\ RowBehind(q) = a + c
  BY RowTypes DEF RowBehind
<1>2. PICK code \in Nat : code = RowFirst[q] + i - 1
  BY <1>1
<1>3. code \in a..(a + c - 1) /\ code - a + 1 = i /\ code < TwoTo[m]
  <2>1. a + c < TwoTo[m]
    BY <1>1, RowsFit
  <2>2. PICK t \in Nat : t = TwoTo[m]
    BY TwoToType
  <2>3. i \in 1..c /\ code = a + i - 1
    BY <1>1, <1>2
  <2> QED
    BY <2>1, <2>2, <2>3
<1>4. \A b \in 1..m : input[p + b] = (code \div TwoTo[m - b]) % 2
  BY <1>1, <1>2 DEF CodeAt
<1> DEFINE S == {j \in 0..(m - 1) : f[p + j] = CodeBegun(code \div TwoTo[m - j], j, read)}
<1>5. 0 \in S
  <2>1. PICK t \in Nat \ {0} : t = TwoTo[m]
    BY TwoToType
  <2>2. code \div t = 0
    <3>1. (t * 0 + code) \div t = 0
      BY <1>3, <2>1, Remainder
    <3> QED
      BY <3>1
  <2> QED
    BY <2>1, <2>2
<1>6. ASSUME NEW j \in 0..(m - 1)
      PROVE  /\ input[p + (j + 1)] = (code \div TwoTo[m - (j + 1)]) % 2
             /\ code \div TwoTo[m - j] \in Nat
             /\ code \div TwoTo[m - (j + 1)] = 2 * (code \div TwoTo[m - j]) + input[p + (j + 1)]
  <2>1. PICK k \in Nat : k = m - (j + 1) /\ k + 1 = m - j
    OBVIOUS
  <2>2. j + 1 \in 1..m
    OBVIOUS
  <2>3. input[p + (j + 1)] = (code \div TwoTo[k]) % 2
    BY <1>4, <2>1, <2>2
  <2>4. code \div TwoTo[k] = 2 * (code \div TwoTo[k + 1]) + ((code \div TwoTo[k]) % 2)
    BY Halves
  <2>5. code \div TwoTo[k + 1] \in Nat
    <3>1. PICK l \in Nat : l = k + 1
      OBVIOUS
    <3>2. code \div TwoTo[l] \in Nat
      BY Halves
    <3> QED
      BY <3>1, <3>2
  <2>6. code \div TwoTo[k] = 2 * (code \div TwoTo[k + 1]) + input[p + (j + 1)]
    <3>1. PICK y \in Nat, z \in Nat : y = code \div TwoTo[k] /\ z = code \div TwoTo[k + 1]
      BY <2>5, Halves
    <3>2. y = 2 * z + (y % 2) /\ input[p + (j + 1)] = y % 2
      BY <2>3, <2>4, <3>1
    <3>3. y = 2 * z + input[p + (j + 1)]
      BY <3>2
    <3> QED
      BY <3>1, <3>3
  <2> QED
    BY <2>1, <2>3, <2>5, <2>6, Zenon
<1>7. ASSUME NEW j \in 0..(m - 1), j \in S, j < m - 1 PROVE j + 1 \in S
  <2>1. f[p + j] = CodeBegun(code \div TwoTo[m - j], j, read)
    BY <1>7
  <2>2. HuffmanSymbols(code \div TwoTo[m - (j + 1)], j + 1) = {}
    <3>1. PICK l \in 1..(RowBits[q] - 1) : l = j + 1
      BY <1>1, <1>7
    <3>2. code >= RowFirst[q]
      BY <1>1, <1>3
    <3>3. HuffmanSymbols(code \div TwoTo[RowBits[q] - l], l) = {}
      BY <3>2, PrefixesAreNoCodes
    <3> QED
      BY <1>1, <3>1, <3>3
  <2>3. PICK at \in Nat : at = p + j /\ at + 1 <= Len(input)
    <3>1. p + m <= Len(input) /\ Len(input) \in Nat
      BY <1>1
    <3> QED
      BY <1>7, <3>1
  <2>4. j \in 0..29
    OBVIOUS
  <2>5. PICK x \in Nat : x = code \div TwoTo[m - j]
    BY <1>6
  <2>6. PICK n \in Nat, y \in Nat, more \in Nat :
          /\ n = at + 1 /\ n = p + (j + 1) /\ y = code \div TwoTo[m - (j + 1)] /\ more = j + 1
    <3>1. code \div TwoTo[m - (j + 1)] \in Nat
      <4>1. j + 1 \in 0..(m - 1)
        BY <1>7
      <4> QED
        BY <1>6, <4>1
    <3>2. PICK y \in Nat : y = code \div TwoTo[m - (j + 1)]
      BY <3>1
    <3>3. at + 1 \in Nat /\ at + 1 = p + (j + 1) /\ j + 1 \in Nat
      BY <2>3
    <3> QED
      BY <3>2, <3>3, Zenon
  <2>7. y = 2 * x + input[n]
    BY <1>6, <2>5, <2>6
  <2>8. f[at] = CodeBegun(x, j, read) /\ HuffmanSymbols(y, more) = {} /\ n <= Len(input)
    BY <2>1, <2>2, <2>3, <2>5, <2>6
  <2>9. OneBit(input, at, n, x, y, j, more)
    BY <2>3, <2>5, <2>6, <2>7, <2>8, <2>4 DEF OneBit
  <2>10. f[n] = CodeBegun(y, more, read)
    BY <2>8, <2>9, GoesOn
  <2>11. f[p + (j + 1)] = CodeBegun(code \div TwoTo[m - (j + 1)], j + 1, read)
    BY <2>6, <2>10, Zenon
  <2> QED
    BY <1>7, <2>11
<1>8. PICK last \in Nat : last = m - 1 /\ last \in 0..(m - 1)
  OBVIOUS
<1> HIDE DEF S
<1>9. last \in S
  <2>1. 0..last \subseteq S
    BY <1>5, <1>7, <1>8, IntervalInduction
  <2> QED
    BY <2>1
<1>10. f[p + last] = CodeBegun(code \div TwoTo[m - last], last, read)
  BY <1>9 DEF S
<1>11. PICK x \in Nat : x = code \div TwoTo[m - last]
  BY <1>6, <1>8
<1>12. 2 * x + input[p + last + 1] = code
  <2>1. code \div TwoTo[m - (last + 1)] = 2 * x + input[p + (last + 1)]
    BY <1>6, <1>8, <1>11, Zenon
  <2>2. m - (last + 1) = 0 /\ p + last + 1 = p + (last + 1)
    BY <1>8
  <2>3. code \div 1 = code
    OBVIOUS
  <2> QED
    BY <2>1, <2>2, <2>3, TwoToNext
<1>13. HuffmanSymbols(code, m) = {octet}
  <2>1. code \in RowFirst[q]..(RowBehind(q) - 1) /\ m \in Nat /\ RowBits[q] = m
    <3>1. code \in a..((a + c) - 1) /\ m \in Nat
      BY <1>3
    <3> QED
      BY <1>1, <3>1
  <2>2. HuffmanSymbols(code, m) = {HuffmanRows[q].octets[code - RowFirst[q] + 1]}
    BY <2>1, SymbolsAre
  <2> QED
    BY <1>1, <1>3, <2>2
<1>14. p + last \in Nat /\ p + last + 1 <= Len(input) /\ last + 1 = m /\ p + last + 1 = p + RowBits[q]
  <2>1. p + m <= Len(input) /\ Len(input) \in Nat
    BY <1>1
  <2>2. PICK n \in Nat : n = Len(input)
    BY <2>1
  <2>3. p + last + 1 <= n /\ last + 1 = m /\ p + last + 1 = p + m /\ p + last \in Nat
    BY <1>8, <2>1, <2>2
  <2> QED
    BY <1>1, <2>2, <2>3
<1>15. f[p + last + 1] = CodeBegun(0, 0, Append(read, octet))
  <2>1. PICK at \in Nat, n \in Nat : at = p + last /\ n = p + last + 1 /\ n = at + 1
    BY <1>14
  <2>2. /\ n <= Len(input) /\ f[at] = CodeBegun(x, last, read) /\ m \in Nat /\ m = last + 1
        /\ code = 2 * x + input[n] /\ HuffmanSymbols(code, m) = {octet}
    BY <1>10, <1>11, <1>12, <1>13, <1>14, <2>1
  <2> HIDE DEF octet
  <2>3. OneBit(input, at, n, x, code, last, m)
    BY <1>8, <2>1, <2>2 DEF OneBit
  <2>4. f[n] = CodeBegun(0, 0, Append(read, octet))
    <3>1. \E s \in HuffmanSymbols(code, m) : f[n] = CodeBegun(0, 0, Append(read, s))
      <4>1. f[at] = CodeBegun(x, last, read)
        BY <2>2
      <4>2. HuffmanSymbols(code, m) # {}
        BY <2>2
      <4> QED
        BY <2>3, <4>1, <4>2, CompletesSymbol
    <3> QED
      BY <2>2, <3>1
  <2> QED
    BY <2>1, <2>4
<1> QED
  BY <1>14, <1>15

\* Ones are no code, however many, up to the length of the longest.
LEMMA OnesAreRead ==
    ASSUME NEW input \in Seq(0..1), NEW f, DecoderRun(f, input),
           NEW p \in Nat, NEW k \in 0..30, p + k <= Len(input), NEW read \in Seq(Nat),
           f[p] = CodeBegun(0, 0, read), \A b \in 1..k : input[p + b] = 1
    PROVE  f[p + k] = CodeBegun(TwoTo[k] - 1, k, read)
<1> DEFINE S == {j \in 0..k : f[p + j] = CodeBegun(TwoTo[j] - 1, j, read)}
<1>1. k \in Nat
  OBVIOUS
<1>2. 0 \in S
  <2>1. TwoTo[0] - 1 = 0
    BY TwoToNext
  <2>2. p + 0 = p /\ 0 \in 0..k
    OBVIOUS
  <2> QED
    BY <2>1, <2>2
<1>3. ASSUME NEW j \in 0..k, j \in S, j < k PROVE j + 1 \in S
  <2>1. f[p + j] = CodeBegun(TwoTo[j] - 1, j, read)
    BY <1>3
  <2>2. PICK t \in Nat \ {0} : t = TwoTo[j] /\ TwoTo[j + 1] = 2 * t
    <3>1. j \in Nat
      OBVIOUS
    <3>2. TwoTo[j] \in Nat \ {0} /\ TwoTo[j + 1] = 2 * TwoTo[j]
      BY <3>1, TwoToType, TwoToNext
    <3> QED
      BY <3>2
  <2>3. j + 1 \in 1..k /\ j \in 0..29
    BY <1>3
  <2>4. PICK at \in Nat : at = p + j /\ at + 1 = p + (j + 1) /\ at + 1 <= Len(input)
    <3>1. Len(input) \in Nat
      OBVIOUS
    <3> QED
      BY <1>3, <3>1
  <2>5. PICK n \in Nat, more \in Nat, x \in Nat, y \in Nat :
          n = at + 1 /\ more = j + 1 /\ x = t - 1 /\ y = 2 * t - 1
    OBVIOUS
  <2>6. input[n] = 1
    BY <2>3, <2>5, <2>4
  <2>7. y = 2 * x + input[n]
    BY <2>5, <2>6
  <2>8. ASSUME NEW r \in 1..21, RowBits[r] = j + 1 PROVE 2 * t - 1 \notin RowFirst[r]..(RowBehind(r) - 1)
    <3>1. RowBehind(r) < 2 * t
      BY <2>2, <2>8, RowsFit
    <3>2. RowBehind(r) \in Nat /\ RowFirst[r] \in Nat
      <4>1. RowFirst[r] \in Nat /\ RowCount[r] \in Nat
        BY RowTypes
      <4> QED
        BY <4>1 DEF RowBehind
    <3> QED
      BY <3>1, <3>2
  <2>9. HuffmanSymbols(2 * t - 1, j + 1) = {}
    <3>1. 2 * t - 1 \in Nat /\ j + 1 \in Nat
      OBVIOUS
    <3> QED
      BY <2>8, <3>1, SymbolsAre
  <2>10. f[at] = CodeBegun(x, j, read) /\ HuffmanSymbols(y, more) = {} /\ n <= Len(input)
    BY <2>1, <2>2, <2>5, <2>9, <2>4
  <2>11. OneBit(input, at, n, x, y, j, more)
    BY <2>3, <2>5, <2>7, <2>10, <2>4 DEF OneBit
  <2>12. f[n] = CodeBegun(y, more, read)
    BY <2>10, <2>11, GoesOn
  <2>13. f[p + (j + 1)] = CodeBegun(TwoTo[j + 1] - 1, j + 1, read)
    BY <2>2, <2>5, <2>12, <2>4
  <2> QED
    BY <1>3, <2>13
<1> HIDE DEF S
<1>4. 0..k \subseteq S
  BY <1>1, <1>2, <1>3, IntervalInduction
<1> QED
  BY <1>4 DEF S

----------------------------------------------------------------------------
(* The encoder.                                                             *)

IsCode(o, q, i) == q \in 1..21 /\ i \in 1..RowCount[q] /\ HuffmanRows[q].octets[i] = o

LEMMA CodeOfOctet ==
    ASSUME NEW o \in 0..255
    PROVE  \E q, i : /\ IsCode(o, q, i)
                     /\ HuffmanCode[o] = [b \in 1..RowBits[q] |->
                          ((RowFirst[q] + i - 1) \div TwoTo[RowBits[q] - b]) % 2]
<1> DEFINE q == CHOOSE r \in DOMAIN HuffmanRows : \E i \in DOMAIN HuffmanRows[r].octets :
                                                  HuffmanRows[r].octets[i] = o
           i == CHOOSE j \in DOMAIN HuffmanRows[q].octets : HuffmanRows[q].octets[j] = o
<1>1. \E r \in DOMAIN HuffmanRows : \E j \in DOMAIN HuffmanRows[r].octets :
        HuffmanRows[r].octets[j] = o
  <2>1. PICK r \in 1..21 : \E j \in 1..RowCount[r] : HuffmanRows[r].octets[j] = o
    BY OctetsHaveCodes
  <2>2. r \in DOMAIN HuffmanRows /\ DOMAIN HuffmanRows[r].octets = 1..RowCount[r]
    BY RowsAre
  <2> QED
    BY <2>1, <2>2
<1>2. q \in DOMAIN HuffmanRows /\ \E j \in DOMAIN HuffmanRows[q].octets : HuffmanRows[q].octets[j] = o
  BY <1>1
<1>3. HuffmanCode[o] =
        [b \in 1..HuffmanRows[q].bits |->
          ((HuffmanRows[q].first + i - 1) \div TwoTo[HuffmanRows[q].bits - b]) % 2]
  BY DEF HuffmanCode
<1> HIDE DEF q
<1>4. i \in DOMAIN HuffmanRows[q].octets /\ HuffmanRows[q].octets[i] = o
  BY <1>2
<1> HIDE DEF i
<1>5. q \in 1..21 /\ HuffmanRows[q].bits = RowBits[q] /\ HuffmanRows[q].first = RowFirst[q]
      /\ DOMAIN HuffmanRows[q].octets = 1..RowCount[q]
  BY <1>2, RowsAre
<1>6. IsCode(o, q, i)
  BY <1>4, <1>5 DEF IsCode
<1>7. HuffmanCode[o] = [b \in 1..RowBits[q] |->
                          ((RowFirst[q] + i - 1) \div TwoTo[RowBits[q] - b]) % 2]
  BY <1>3, <1>5, Zenon
<1> QED
  BY <1>6, <1>7

\* The code of an octet, as the bits of an input from a place on.
HasCode(o, q, i, code) ==
    /\ IsCode(o, q, i) /\ HuffmanCode[o] \in Seq(0..1) /\ Len(HuffmanCode[o]) = RowBits[q]
    /\ RowBits[q] \in 5..30 /\ code \in Nat /\ code = RowFirst[q] + i - 1
    /\ \A b \in 1..RowBits[q] : HuffmanCode[o][b] = (code \div TwoTo[RowBits[q] - b]) % 2

LEMMA CodeBits == ASSUME NEW o \in 0..255 PROVE \E q, i, code : HasCode(o, q, i, code)
<1>1. PICK q, i : /\ IsCode(o, q, i)
                  /\ HuffmanCode[o] = [b \in 1..RowBits[q] |->
                       ((RowFirst[q] + i - 1) \div TwoTo[RowBits[q] - b]) % 2]
  BY CodeOfOctet
<1>2. q \in 1..21 /\ i \in 1..RowCount[q]
  BY <1>1 DEF IsCode
<1>3. PICK m \in 5..30, a \in Nat, c \in Nat : m = RowBits[q] /\ a = RowFirst[q] /\ c = RowCount[q]
  BY <1>2, RowTypes
<1>4. PICK code \in Nat : code = RowFirst[q] + i - 1
  BY <1>2, <1>3
<1>5. HuffmanCode[o] = [b \in 1..m |-> (code \div TwoTo[m - b]) % 2]
  BY <1>1, <1>3, <1>4
<1>6. ASSUME NEW b \in 1..m PROVE (code \div TwoTo[m - b]) % 2 \in 0..1
  <2>1. PICK k \in Nat : k = m - b
    OBVIOUS
  <2>2. PICK y \in Nat : y = code \div TwoTo[k]
    BY Halves
  <2>3. y % 2 \in 0..1
    OBVIOUS
  <2> QED
    BY <2>1, <2>2, <2>3
<1>7. HuffmanCode[o] \in [1..m -> 0..1]
  BY <1>5, <1>6
<1>8. HuffmanCode[o] \in Seq(0..1) /\ Len(HuffmanCode[o]) = m
  <2>1. m \in Nat
    OBVIOUS
  <2> QED
    BY <1>7, <2>1, SeqDef
<1>9. \A b \in 1..m : HuffmanCode[o][b] = (code \div TwoTo[m - b]) % 2
  BY <1>5
<1>10. HasCode(o, q, i, code)
  BY <1>1, <1>3, <1>4, <1>8, <1>9 DEF HasCode
<1> QED
  BY <1>10

\* The codes of octets, one after the other.
CodesOf(f, octets) ==
    f = [i \in 0..Len(octets) |-> IF i = 0 THEN <<>> ELSE f[i - 1] \o HuffmanCode[octets[i]]]

LEMMA CodesExist == ASSUME NEW octets \in Seq(0..255) PROVE \E f : CodesOf(f, octets)
<1> DEFINE n == Len(octets)
           S == Seq(0..1)
           step == [x \in (1..n) \X S |-> x[2] \o HuffmanCode[octets[x[1]]]]
<1>1. n \in Nat /\ \A i \in 1..n : octets[i] \in 0..255
  BY LenProperties, ElementOfSeq
<1> HIDE DEF n
<1>2. ASSUME NEW i \in 1..n, NEW s \in S PROVE s \o HuffmanCode[octets[i]] \in S
  <2>1. HuffmanCode[octets[i]] \in S
    BY <1>1, CodeBits DEF HasCode
  <2> QED
    BY <2>1
<1> DEFINE next(i, s) == s \o HuffmanCode[octets[i]]
<1>3. \A i \in 1..n, s \in S : next(i, s) \in S
  BY <1>2
<1> HIDE DEF S
<1>4. step = [x \in (1..n) \X S |-> next(x[1], x[2])]
  OBVIOUS
<1> HIDE DEF next, step
<1>5. step \in [(1..n) \X S -> S] /\ \A i \in 1..n, s \in S : step[<<i, s>>] = next(i, s)
  BY <1>3, <1>4
<1>6. <<>> \in S
  BY DEF S
<1>7. PICK f : Iterates(f, n, S, <<>>, step)
  BY <1>1, <1>5, <1>6, Iteration
<1>8. f \in [0..n -> S] /\ f[0] = <<>> /\ \A i \in 1..n : f[i] = step[<<i, f[i - 1]>>]
  BY <1>7 DEF Iterates
<1>9. ASSUME NEW i \in 0..n
      PROVE  f[i] = IF i = 0 THEN <<>> ELSE next(i, f[i - 1])
  <2>1. CASE i = 0
    BY <1>8, <2>1
  <2>2. CASE i # 0
    <3>1. i \in 1..n /\ i - 1 \in 0..n
      BY <1>1, <2>2
    <3>2. f[i - 1] \in S
      BY <1>8, <3>1
    <3> QED
      BY <1>5, <1>8, <2>2, <3>1, <3>2
  <2> QED
    BY <2>1, <2>2
<1>10. f = [i \in 0..n |-> f[i]]
  BY <1>8
<1>11. f = [i \in 0..n |-> IF i = 0 THEN <<>> ELSE next(i, f[i - 1])]
  BY <1>9, <1>10
<1>12. CodesOf(f, octets)
  BY <1>11 DEF CodesOf, n, next
<1> QED
  BY <1>12

\* After so many octets: what has been written stays.
CodeSteps(f, octets) ==
    /\ f[0] = <<>> /\ \A i \in 0..Len(octets) : f[i] \in Seq(0..1)
    /\ \A i \in 1..Len(octets) : f[i] = f[i - 1] \o HuffmanCode[octets[i]]
    /\ HuffmanBits(octets) = f[Len(octets)]

LEMMA CodesAre == ASSUME NEW octets \in Seq(0..255) PROVE \E f : CodeSteps(f, octets)
<1> DEFINE n == Len(octets)
           f == CHOOSE g : CodesOf(g, octets)
           bits == CHOOSE g : g = [i \in 0..Len(octets) |->
                     IF i = 0 THEN <<>> ELSE g[i - 1] \o HuffmanCode[octets[i]]]
<1>1. n \in Nat /\ \A i \in 1..n : octets[i] \in 0..255
  BY LenProperties, ElementOfSeq
<1>2. CodesOf(f, octets)
  BY CodesExist
<1>3. f = bits
  BY DEF CodesOf
<1>4. HuffmanBits(octets) = bits[n]
  BY DEF HuffmanBits
<1> HIDE DEF f, bits, n
<1>5. f = [i \in 0..n |-> IF i = 0 THEN <<>> ELSE f[i - 1] \o HuffmanCode[octets[i]]]
  BY <1>2 DEF CodesOf, n
<1>6. f[0] = <<>> /\ \A i \in 1..n : f[i] = f[i - 1] \o HuffmanCode[octets[i]]
  <2>1. \A i \in 0..n : f[i] = IF i = 0 THEN <<>> ELSE f[i - 1] \o HuffmanCode[octets[i]]
    BY <1>5
  <2>2. 0 \in 0..n /\ \A i \in 1..n : i \in 0..n /\ i # 0
    BY <1>1
  <2> QED
    BY <2>1, <2>2, Zenon
<1>7. ASSUME NEW i \in 1..n, f[i - 1] \in Seq(0..1) PROVE f[i] \in Seq(0..1)
  <2>1. HuffmanCode[octets[i]] \in Seq(0..1)
    BY <1>1, CodeBits DEF HasCode
  <2>2. f[i - 1] \o HuffmanCode[octets[i]] \in Seq(0..1)
    BY <1>7, <2>1
  <2> QED
    BY <1>6, <2>2
<1>8. \A i \in 0..n : f[i] \in Seq(0..1)
  <2>1. f[0] \in Seq(0..1)
    BY <1>6
  <2> QED
    BY <1>1, <1>7, <2>1, IterationStays
<1>9. CodeSteps(f, octets)
  BY <1>3, <1>4, <1>6, <1>8 DEF CodeSteps, n
<1> QED
  BY <1>9

----------------------------------------------------------------------------
(* Codes one after the other.                                              *)

\* What a sequence is made of.
Joined(u, s, t) ==
    /\ Len(u) = Len(s) + Len(t)
    /\ \A i \in 1..Len(s) : u[i] = s[i]
    /\ \A i \in 1..Len(t) : u[Len(s) + i] = t[i]

LEMMA PartsJoined ==
    ASSUME NEW S, NEW s \in Seq(S), NEW t \in Seq(S)
    PROVE  Joined(s \o t, s, t)
  BY Parts DEF Joined

LEMMA OctetsAreNaturals == ASSUME NEW s \in Seq(0..255) PROVE s \in Seq(Nat)
<1>1. 0..255 \subseteq Nat
  OBVIOUS
<1> QED
  BY <1>1, SeqMonotonic

\* The bits behind p are the code of an octet, up to n.
CodeFound(input, p, n, o) ==
    /\ p \in Nat /\ n <= Len(input)
    /\ \E q \in 1..21 : \E i \in 1..RowCount[q] :
         /\ n = p + RowBits[q] /\ HuffmanRows[q].octets[i] = o
         /\ CodeAt(input, p, RowFirst[q] + i - 1, RowBits[q])

LEMMA FoundIsRead ==
    ASSUME NEW input \in Seq(0..1), NEW d, DecoderRun(d, input), NEW p, NEW n, NEW o,
           CodeFound(input, p, n, o), NEW read \in Seq(Nat), d[p] = CodeBegun(0, 0, read)
    PROVE  d[n] = CodeBegun(0, 0, Append(read, o))
<1>1. PICK q \in 1..21 : \E i \in 1..RowCount[q] :
         /\ n = p + RowBits[q] /\ HuffmanRows[q].octets[i] = o
         /\ CodeAt(input, p, RowFirst[q] + i - 1, RowBits[q])
  BY DEF CodeFound
<1>2. PICK i \in 1..RowCount[q] :
         /\ n = p + RowBits[q] /\ HuffmanRows[q].octets[i] = o
         /\ CodeAt(input, p, RowFirst[q] + i - 1, RowBits[q])
  BY <1>1
<1>3. p \in Nat /\ p + RowBits[q] <= Len(input)
  BY <1>2 DEF CodeFound
<1>4. /\ input \in Seq(0..1) /\ read \in Seq(Nat) /\ q \in 1..21 /\ i \in 1..RowCount[q]
      /\ p \in Nat /\ p + RowBits[q] <= Len(input)
      /\ CodeAt(input, p, RowFirst[q] + i - 1, RowBits[q])
      /\ DecoderRun(d, input) /\ d[p] = CodeBegun(0, 0, read)
  BY <1>2, <1>3
<1>5. d[p + RowBits[q]] = CodeBegun(0, 0, Append(read, HuffmanRows[q].octets[i]))
  BY <1>4, CodeIsRead, ZenonT(40)
<1> QED
  BY <1>2, <1>5, Zenon

Leads(s, t) == Len(s) <= Len(t) /\ \A i \in 1..Len(s) : t[i] = s[i]

LEMMA BeginsLonger ==
    ASSUME NEW S, NEW r \in Seq(S), NEW s \in Seq(S), NEW t \in Seq(S), Leads(r, s)
    PROVE  Leads(r, s \o t)
<1>1. Len(s \o t) = Len(s) + Len(t) /\ \A i \in 1..Len(s) : (s \o t)[i] = s[i]
  BY Parts
<1>2. Len(r) \in Nat /\ Len(s) \in Nat /\ Len(t) \in Nat
  BY LenProperties
<1>3. Len(r) <= Len(s) /\ \A i \in 1..Len(r) : s[i] = r[i] /\ i \in 1..Len(s)
  BY <1>2 DEF Leads
<1>4. Len(r) <= Len(s \o t)
  BY <1>1, <1>2, <1>3
<1>5. \A i \in 1..Len(r) : (s \o t)[i] = r[i]
  BY <1>1, <1>3, Zenon
<1> QED
  BY <1>4, <1>5, Zenon DEF Leads

LEMMA CodesGrow ==
    ASSUME NEW octets \in Seq(0..255), NEW f, CodeSteps(f, octets), NEW k \in 0..Len(octets)
    PROVE  Leads(f[k], HuffmanBits(octets))
<1>1. PICK n \in Nat : n = Len(octets)
  BY LenProperties
<1>2. /\ \A i \in 0..n : f[i] \in Seq(0..1)
      /\ \A i \in 1..n : f[i] = f[i - 1] \o HuffmanCode[octets[i]]
      /\ HuffmanBits(octets) = f[n]
  BY <1>1 DEF CodeSteps
<1> DEFINE S == {j \in k..n : Leads(f[k], f[j])}
<1>3. k \in Nat /\ n \in Nat /\ k \in 0..n
  BY <1>1
<1>4. k \in S
  <2>1. Len(f[k]) \in Nat
    BY <1>2, <1>3, LenProperties
  <2>2. Leads(f[k], f[k])
    BY <2>1 DEF Leads
  <2> QED
    BY <1>3, <2>2
<1>5. ASSUME NEW j \in k..n, j \in S, j < n PROVE j + 1 \in S
  <2>1. j \in 0..n /\ j + 1 \in 1..n /\ (j + 1) - 1 = j /\ j + 1 \in k..n
    BY <1>3, <1>5
  <2>2. f[j + 1] = f[j] \o HuffmanCode[octets[j + 1]]
    BY <1>2, <2>1
  <2>3. octets[j + 1] \in 0..255
    BY <1>1, <2>1, ElementOfSeq
  <2>4. HuffmanCode[octets[j + 1]] \in Seq(0..1)
    BY <2>3, CodeBits DEF HasCode
  <2>5. f[j] \in Seq(0..1) /\ f[k] \in Seq(0..1) /\ Leads(f[k], f[j])
    BY <1>2, <1>3, <1>5, <2>1
  <2>6. Leads(f[k], f[j] \o HuffmanCode[octets[j + 1]])
    BY <2>4, <2>5, BeginsLonger
  <2> QED
    BY <2>1, <2>2, <2>6
<1> HIDE DEF S
<1>6. k..n \subseteq S
  BY <1>3, <1>4, <1>5, IntervalInduction
<1>7. n \in S
  BY <1>3, <1>6
<1> QED
  BY <1>2, <1>7 DEF S

LEMMA BitsOfCodes ==
    ASSUME NEW octets \in Seq(0..255)
    PROVE  HuffmanBits(octets) \in Seq(0..1) /\ Len(HuffmanBits(octets)) \in Nat
<1>1. PICK f : CodeSteps(f, octets)
  BY CodesAre
<1>2. Len(octets) \in 0..Len(octets)
  BY LenProperties
<1>3. HuffmanBits(octets) \in Seq(0..1)
  BY <1>1, <1>2 DEF CodeSteps
<1> QED
  BY <1>3, LenProperties

\* The decoder has read the octets when it has read their codes.
LEMMA CodesAreRead ==
    ASSUME NEW octets \in Seq(0..255), NEW input \in Seq(0..1), NEW d, DecoderRun(d, input),
           Leads(HuffmanBits(octets), input)
    PROVE  d[Len(HuffmanBits(octets))] = CodeBegun(0, 0, octets)
<1>1. PICK f : CodeSteps(f, octets)
  BY CodesAre
<1>2. PICK n \in Nat : n = Len(octets)
  BY LenProperties
<1>3. /\ f[0] = <<>> /\ \A i \in 0..n : f[i] \in Seq(0..1)
      /\ \A i \in 1..n : f[i] = f[i - 1] \o HuffmanCode[octets[i]]
      /\ HuffmanBits(octets) = f[n]
  BY <1>1, <1>2 DEF CodeSteps
<1> DEFINE S == {k \in 0..n : d[Len(f[k])] = CodeBegun(0, 0, SubSeq(octets, 1, k))}
<1>4. 0 \in S
  <2>1. d[0] = CodeBegun(0, 0, <<>>)
    BY DecodingSteps
  <2>2. SubSeq(octets, 1, 0) = <<>>
    BY SubSeqEmpty
  <2>3. Len(f[0]) = 0
    BY <1>3
  <2>4. d[Len(f[0])] = CodeBegun(0, 0, SubSeq(octets, 1, 0))
    BY <2>1, <2>2, <2>3, Zenon
  <2> QED
    BY <2>4
<1>5. ASSUME NEW k \in 0..n, k \in S, k < n PROVE k + 1 \in S
  <2> DEFINE o == octets[k + 1]
             read == SubSeq(octets, 1, k)
  <2>1. k + 1 \in 1..n /\ (k + 1) - 1 = k /\ k \in 0..n /\ k + 1 \in 0..n
    BY <1>5
  <2>2. o \in 0..255 /\ SubSeq(octets, 1, k + 1) = Append(read, o)
    BY <1>2, <2>1
  <2>3. read \in Seq(0..255)
    <3>1. \A j \in 1..k : octets[j] \in 0..255
      <4>1. \A j \in 1..k : j \in 1..Len(octets)
        BY <1>2, <2>1
      <4> QED
        BY <4>1, ElementOfSeq
    <3>2. 1 \in Int /\ k \in Int
      OBVIOUS
    <3> QED
      BY <3>1, <3>2, SubSeqProperties DEF read
  <2>4. d[Len(f[k])] = CodeBegun(0, 0, read)
    BY <1>5
  <2> HIDE DEF o, read
  <2>5. PICK q, i, code : HasCode(o, q, i, code)
    BY <2>2, CodeBits
  <2>6. f[k + 1] = f[k] \o HuffmanCode[o]
    BY <1>3, <2>1 DEF o
  <2>7. f[k] \in Seq(0..1) /\ HuffmanCode[o] \in Seq(0..1)
    BY <1>3, <2>1, <2>5 DEF HasCode
  <2>8. PICK p \in Nat, m \in Nat : p = Len(f[k]) /\ m = RowBits[q] /\ m = Len(HuffmanCode[o])
    BY <2>5, <2>7, LenProperties DEF HasCode
  <2>9. /\ Len(f[k + 1]) = p + m
        /\ \A b \in 1..m : f[k + 1][p + b] = HuffmanCode[o][b]
    <3>1. Joined(f[k] \o HuffmanCode[o], f[k], HuffmanCode[o])
      BY <2>7, PartsJoined
    <3> QED
      BY <2>6, <2>8, <3>1, Zenon DEF Joined
  <2>10. Leads(f[k + 1], HuffmanBits(octets))
    BY <1>1, <1>2, <2>1, CodesGrow
  <2>11. p + m <= Len(input) /\ \A b \in 1..m : input[p + b] = HuffmanCode[o][b]
    <3>1. PICK x \in Nat, y \in Nat : x = Len(HuffmanBits(octets)) /\ y = Len(input)
      BY BitsOfCodes, LenProperties
    <3>2. p + m <= x /\ x <= y
      BY <2>9, <2>10, <3>1 DEF Leads
    <3>3. \A b \in 1..m : p + b \in 1..(p + m) /\ p + b \in 1..x
      BY <3>2
    <3>4. ASSUME NEW b \in 1..m PROVE input[p + b] = HuffmanCode[o][b]
      <4>1. f[k + 1][p + b] = HuffmanCode[o][b]
        BY <2>9
      <4>2. HuffmanBits(octets)[p + b] = f[k + 1][p + b]
        BY <2>9, <2>10, <3>3 DEF Leads
      <4>3. input[p + b] = HuffmanBits(octets)[p + b]
        BY <3>1, <3>3 DEF Leads
      <4> QED
        BY <4>1, <4>2, <4>3
    <3> QED
      BY <3>1, <3>2, <3>4
  <2>12. /\ q \in 1..21 /\ i \in 1..RowCount[q] /\ HuffmanRows[q].octets[i] = o
         /\ code = RowFirst[q] + i - 1
         /\ \A b \in 1..m : HuffmanCode[o][b] = (code \div TwoTo[m - b]) % 2
    BY <2>5, <2>8 DEF HasCode, IsCode
  <2>13. CodeAt(input, p, RowFirst[q] + i - 1, RowBits[q])
    BY <2>8, <2>11, <2>12 DEF CodeAt
  <2>14. CodeFound(input, p, p + m, o)
    BY <2>8, <2>11, <2>12, <2>13, Zenon DEF CodeFound
  <2>15. d[p + m] = CodeBegun(0, 0, Append(read, o))
    <3>1. read \in Seq(Nat) /\ d[p] = CodeBegun(0, 0, read)
      BY <2>3, <2>4, <2>8, OctetsAreNaturals
    <3> QED
      BY <2>14, <3>1, FoundIsRead
  <2>16. d[Len(f[k + 1])] = CodeBegun(0, 0, SubSeq(octets, 1, k + 1))
    BY <2>2, <2>9, <2>15, Zenon
  <2> QED
    BY <2>1, <2>16
<1> HIDE DEF S
<1>6. n \in S
  <2>1. 0..n \subseteq S
    BY <1>4, <1>5, IntervalInduction
  <2> QED
    BY <2>1
<1>7. d[Len(f[n])] = CodeBegun(0, 0, SubSeq(octets, 1, n))
  BY <1>6 DEF S
<1>8. SubSeq(octets, 1, n) = octets
  BY <1>2, SubSeqFull
<1> QED
  BY <1>3, <1>7, <1>8, Zenon

\* There is an octet for every eight bits.
LEMMA OctetOfBits ==
    ASSUME NEW e \in [1..8 -> 0..1]
    PROVE  \E v \in 0..255 : \A b \in 1..8 : (v \div TwoTo[8 - b]) % 2 = e[b]
<1>1. PICK a1 \in 0..1, a2 \in 0..1, a3 \in 0..1, a4 \in 0..1,
           a5 \in 0..1, a6 \in 0..1, a7 \in 0..1, a8 \in 0..1 :
        /\ e[1] = a1 /\ e[2] = a2 /\ e[3] = a3 /\ e[4] = a4
        /\ e[5] = a5 /\ e[6] = a6 /\ e[7] = a7 /\ e[8] = a8
  OBVIOUS
<1>2. PICK v \in 0..255 : v = 128 * a1 + 64 * a2 + 32 * a3 + 16 * a4 + 8 * a5 + 4 * a6 + 2 * a7 + a8
  OBVIOUS
<1>3. /\ TwoTo[0] = 1 /\ TwoTo[1] = 2 /\ TwoTo[2] = 4 /\ TwoTo[3] = 8
      /\ TwoTo[4] = 16 /\ TwoTo[5] = 32 /\ TwoTo[6] = 64 /\ TwoTo[7] = 128
  BY TwoToNext, TwoToTable
<1>4. (v \div 128) % 2 = a1 /\ (v \div 64) % 2 = a2
  BY <1>2
<1>5. (v \div 32) % 2 = a3 /\ (v \div 16) % 2 = a4
  BY <1>2
<1>6. (v \div 8) % 2 = a5 /\ (v \div 4) % 2 = a6
  BY <1>2
<1>7. (v \div 2) % 2 = a7 /\ (v \div 1) % 2 = a8
  BY <1>2
<1>8. ASSUME NEW b \in 1..8 PROVE (v \div TwoTo[8 - b]) % 2 = e[b]
  <2>1. b = 1 \/ b = 2 \/ b = 3 \/ b = 4 \/ b = 5 \/ b = 6 \/ b = 7 \/ b = 8
    OBVIOUS
  <2>2. CASE b = 1
    BY <1>1, <1>3, <1>4, <2>2
  <2>3. CASE b = 2
    BY <1>1, <1>3, <1>4, <2>3
  <2>4. CASE b = 3
    BY <1>1, <1>3, <1>5, <2>4
  <2>5. CASE b = 4
    BY <1>1, <1>3, <1>5, <2>5
  <2>6. CASE b = 5
    BY <1>1, <1>3, <1>6, <2>6
  <2>7. CASE b = 6
    BY <1>1, <1>3, <1>6, <2>7
  <2>8. CASE b = 7
    BY <1>1, <1>3, <1>7, <2>8
  <2>9. CASE b = 8
    BY <1>1, <1>3, <1>7, <2>9
  <2> QED
    BY <2>1, <2>2, <2>3, <2>4, <2>5, <2>6, <2>7, <2>8, <2>9
<1> QED
  BY <1>8

----------------------------------------------------------------------------
(* What is written, and the run of the decoder over it.                    *)

LEMMA FunctionIsSequence ==
    ASSUME NEW S, NEW n \in Nat, NEW f \in [1..n -> S]
    PROVE  f \in Seq(S) /\ Len(f) = n
  BY SeqDef

\* The bits of a code, and the ones behind them.
Filled(code, i) == IF i <= Len(code) THEN code[i] ELSE 1

LEMMA FilledType ==
    ASSUME NEW code \in Seq(0..1), NEW i \in Nat \ {0}
    PROVE  Filled(code, i) \in 0..1
<1>1. Len(code) \in Nat
  BY LenProperties
<1>2. CASE i <= Len(code)
  <2>1. i \in 1..Len(code)
    BY <1>1, <1>2
  <2>2. code[i] \in 0..1
    BY <2>1, ElementOfSeq
  <2> QED
    BY <1>2, <2>2 DEF Filled
<1>3. CASE ~(i <= Len(code))
  BY <1>3 DEF Filled
<1> QED
  BY <1>2, <1>3

\* The code that is written, in so many octets, and octets that have its bits.
Coded(octets, padding, code, n) ==
    /\ code \in Seq(0..1) /\ code = HuffmanBits(octets) \o padding
    /\ n \in Nat /\ n = (Len(code) + 7) \div 8
HasBits(encoded, code, n) ==
    /\ encoded \in Seq(0..255) /\ Len(encoded) = n
    /\ \A o \in 1..n : \A b \in 1..8 :
         (encoded[o] \div TwoTo[8 - b]) % 2 = Filled(code, 8 * (o - 1) + b)

\* Each octet has its eight bits.
LEMMA EncodedOctets ==
    ASSUME NEW octets, NEW padding, NEW code, NEW n, Coded(octets, padding, code, n)
    PROVE  HasBits(HuffmanEncode(octets, padding), code, n)
<1> DEFINE Fits(v, o) == \A b \in 1..8 : (v \div TwoTo[8 - b]) % 2 = Filled(code, 8 * (o - 1) + b)
           pick(o) == CHOOSE v \in 0..255 : Fits(v, o)
           encoded == [o \in 1..n |-> pick(o)]
<1>1. /\ code \in Seq(0..1) /\ code = HuffmanBits(octets) \o padding
      /\ n \in Nat /\ n = (Len(code) + 7) \div 8
  BY DEF Coded
<1>2. HuffmanEncode(octets, padding) = encoded
  <2> DEFINE given == HuffmanBits(octets) \o padding
             made(c, m) == [o \in 1..m |-> CHOOSE v \in 0..255 :
               \A b \in 1..8 : (v \div TwoTo[8 - b]) % 2 = Filled(c, 8 * (o - 1) + b)]
  <2>1. HuffmanEncode(octets, padding) = made(given, (Len(given) + 7) \div 8)
    BY DEF HuffmanEncode, Filled
  <2>2. made(code, n) = encoded
    OBVIOUS
  <2> HIDE DEF made
  <2>3. made(given, (Len(given) + 7) \div 8) = made(code, n)
    BY <1>1
  <2> QED
    BY <2>1, <2>2, <2>3, Zenon
<1>3. ASSUME NEW o \in 1..n PROVE \E v \in 0..255 : Fits(v, o)
  <2> DEFINE e == [b \in 1..8 |-> Filled(code, 8 * (o - 1) + b)]
  <2>1. ASSUME NEW b \in 1..8 PROVE Filled(code, 8 * (o - 1) + b) \in 0..1
    <3>1. 8 * (o - 1) + b \in Nat \ {0}
      BY <1>1
    <3> QED
      BY <1>1, <3>1, FilledType
  <2>2. e \in [1..8 -> 0..1]
    BY <2>1
  <2>3. \A b \in 1..8 : e[b] = Filled(code, 8 * (o - 1) + b)
    OBVIOUS
  <2> HIDE DEF e
  <2>4. PICK v \in 0..255 : \A b \in 1..8 : (v \div TwoTo[8 - b]) % 2 = e[b]
    BY <2>2, OctetOfBits
  <2>5. Fits(v, o)
    BY <2>3, <2>4, Zenon
  <2> HIDE DEF Fits
  <2> QED
    BY <2>5
<1> HIDE DEF Fits
<1>4. ASSUME NEW o \in 1..n PROVE pick(o) \in 0..255 /\ Fits(pick(o), o)
  BY <1>3
<1> HIDE DEF pick
<1>5. encoded \in [1..n -> 0..255] /\ \A o \in 1..n : encoded[o] = pick(o)
  BY <1>4
<1> HIDE DEF encoded
<1>6. encoded \in Seq(0..255) /\ Len(encoded) = n
  <2>1. n \in Nat /\ encoded \in [1..n -> 0..255]
    BY <1>1, <1>5
  <2> QED
    BY <2>1, FunctionIsSequence, Zenon
<1>7. \A o \in 1..n : Fits(encoded[o], o)
  BY <1>4, <1>5
<1> QED
  BY <1>2, <1>6, <1>7 DEF Fits, HasBits

\* Where the bits of an octet are.
LEMMA BitOfOctet ==
    ASSUME NEW octets \in Seq(0..255), NEW o \in 1..Len(octets), NEW b \in 1..8
    PROVE  Bits(octets)[8 * (o - 1) + b] = (octets[o] \div TwoTo[8 - b]) % 2
<1>1. PICK n \in Nat : n = Len(octets)
  BY LenProperties
<1>2. PICK i \in 1..(8 * n) : i = 8 * (o - 1) + b
  BY <1>1
<1>3. PICK q \in Nat, c \in 0..7 : o = q + 1 /\ b = c + 1 /\ i = 8 * q + c + 1
  BY <1>1, <1>2
<1>4. (i + 7) \div 8 = o
  BY <1>3
<1>5. (8 - (i % 8)) % 8 = 8 - b
  <2>1. CASE c = 7
    <3>1. i = 8 * o
      BY <1>3, <2>1
    <3>2. i % 8 = 0
      BY <3>1
    <3> QED
      BY <1>3, <2>1, <3>2
  <2>2. CASE c \in 0..6
    <3>1. i = 8 * q + b /\ b \in 1..7
      BY <1>3, <2>2
    <3>2. i % 8 = b
      <4>1. PICK size \in Nat \ {0} : size = 8
        OBVIOUS
      <4>2. (size * q + b) % size = b
        BY <3>1, <4>1, Remainder
      <4> QED
        BY <3>1, <4>1, <4>2
    <3>3. (8 - b) % 8 = 8 - b
      <4>1. PICK r \in 1..7 : r = 8 - b
        BY <3>1
      <4>2. r % 8 = r
        OBVIOUS
      <4> QED
        BY <4>1, <4>2
    <3> QED
      BY <3>2, <3>3, Zenon
  <2> QED
    BY <2>1, <2>2
<1>6. Bits(octets)[i] = (octets[(i + 7) \div 8] \div TwoTo[(8 - (i % 8)) % 8]) % 2
  BY <1>1 DEF Bits
<1> QED
  BY <1>2, <1>4, <1>5, <1>6, Zenon

\* The bits of what is written are the codes, the padding, and ones.
LEMMA EncodedBits ==
    ASSUME NEW encoded, NEW code, NEW n \in Nat, HasBits(encoded, code, n)
    PROVE  \A i \in 1..(8 * n) : Bits(encoded)[i] = Filled(code, i)
<1>1. /\ encoded \in Seq(0..255) /\ Len(encoded) = n
      /\ \A o \in 1..n : \A b \in 1..8 :
           (encoded[o] \div TwoTo[8 - b]) % 2 = Filled(code, 8 * (o - 1) + b)
  BY DEF HasBits
<1>2. ASSUME NEW i \in 1..(8 * n) PROVE Bits(encoded)[i] = Filled(code, i)
  <2>1. PICK j \in Nat : i = j + 1
    OBVIOUS
  <2>2. PICK q \in Nat, c \in 0..7 : j = 8 * q + c
    <3>1. PICK size \in Nat \ {0} : size = 8
      OBVIOUS
    <3>2. PICK q \in Nat, c \in 0..(size - 1) : j = size * q + c
      BY Division
    <3> QED
      BY <3>1, <3>2
  <2>3. PICK o \in 1..n, b \in 1..8 : o = q + 1 /\ b = c + 1
    <3>1. q + 1 \in 1..n
      BY <2>1, <2>2
    <3>2. c + 1 \in 1..8
      OBVIOUS
    <3> QED
      BY <3>1, <3>2
  <2>4. i = 8 * (o - 1) + b
    BY <2>1, <2>2, <2>3
  <2>5. Bits(encoded)[8 * (o - 1) + b] = (encoded[o] \div TwoTo[8 - b]) % 2
    <3>1. o \in 1..Len(encoded)
      BY <1>1
    <3> QED
      BY <1>1, <3>1, BitOfOctet
  <2>6. (encoded[o] \div TwoTo[8 - b]) % 2 = Filled(code, 8 * (o - 1) + b)
    BY <1>1
  <2> QED
    BY <2>4, <2>5, <2>6, Zenon
<1> QED
  BY <1>2

\* What is known of the run over what has been written: where the codes end (m), the
\* padding behind them (k), and how many octets (n).
EncodedRun(octets, padding, encoded, m, k, n, d) ==
    /\ m \in Nat /\ k \in Nat /\ n \in Nat /\ encoded \in Seq(0..255) /\ Len(encoded) = n
    /\ m = Len(HuffmanBits(octets)) /\ k = Len(padding) /\ m + k <= 8 * n /\ 8 * n <= m + k + 7
    /\ DecoderRun(d, Bits(encoded)) /\ Bits(encoded) \in Seq(0..1) /\ Len(Bits(encoded)) = 8 * n
    /\ d[m] = CodeBegun(0, 0, octets)
    /\ \A i \in 1..k : Bits(encoded)[m + i] = padding[i]
    /\ \A i \in (m + k + 1)..(8 * n) : Bits(encoded)[i] = 1
    /\ HuffmanDecode(encoded) =
         [ok |-> d[8 * n].ok /\ Padding(d[8 * n].code, d[8 * n].bits), read |-> d[8 * n].read]

\* The octets and their codes end, and some bits are left of the last octet.
LEMMA EncodedIsRead ==
    ASSUME NEW octets \in Seq(0..255), NEW padding \in Seq(0..1),
           NEW encoded, encoded = HuffmanEncode(octets, padding)
    PROVE  \E m, k, n, d : EncodedRun(octets, padding, encoded, m, k, n, d)
<1> DEFINE code == HuffmanBits(octets) \o padding
           input == Bits(encoded)
<1>1. HuffmanBits(octets) \in Seq(0..1)
  BY BitsOfCodes
<1>2. PICK m \in Nat, k \in Nat : m = Len(HuffmanBits(octets)) /\ k = Len(padding)
  BY <1>1, LenProperties
<1>3. code \in Seq(0..1)
  BY <1>1, ConcatProperties
<1>4. Joined(code, HuffmanBits(octets), padding)
  BY <1>1, PartsJoined
<1> HIDE DEF code
<1>5. Len(code) = m + k
  BY <1>2, <1>4 DEF Joined
<1>6. PICK n \in Nat : n = (Len(code) + 7) \div 8 /\ m + k <= 8 * n /\ 8 * n <= m + k + 7
  <2>1. PICK t \in Nat : t = m + k
    OBVIOUS
  <2>2. PICK n \in Nat, r \in 0..7 : t + 7 = 8 * n + r /\ (t + 7) \div 8 = n
    OBVIOUS
  <2> QED
    BY <1>5, <2>1, <2>2
<1>7. /\ encoded \in Seq(0..255) /\ Len(encoded) = n
      /\ \A i \in 1..(8 * n) : input[i] = Filled(code, i)
  <2>1. Coded(octets, padding, code, n)
    BY <1>3, <1>6 DEF Coded, code
  <2>2. HasBits(encoded, code, n)
    BY <2>1, EncodedOctets
  <2>3. encoded \in Seq(0..255) /\ Len(encoded) = n
    BY <2>2 DEF HasBits
  <2> QED
    BY <2>2, <2>3, EncodedBits
<1>8. input \in Seq(0..1) /\ Len(input) = 8 * n
  <2>1. encoded \in Seq(Nat)
    BY <1>7, OctetsAreNaturals
  <2> QED
    BY <1>7, <2>1, BitsType
<1>9. PICK d : /\ DecoderRun(d, input)
               /\ LET end == d[Len(input)]
                  IN  HuffmanDecode(encoded) =
                        [ok |-> end.ok /\ Padding(end.code, end.bits), read |-> end.read]
  BY <1>7, OctetsAreNaturals, DecodedByStates
<1> HIDE DEF input
<1>10. ASSUME NEW i \in 1..m PROVE input[i] = HuffmanBits(octets)[i]
  <2>1. i \in 1..(8 * n) /\ i <= Len(code)
    BY <1>5, <1>6
  <2>2. code[i] = HuffmanBits(octets)[i]
    BY <1>2, <1>4 DEF Joined
  <2> QED
    BY <1>7, <2>1, <2>2 DEF Filled
<1>11. ASSUME NEW i \in 1..k PROVE input[m + i] = padding[i]
  <2>1. m + i \in 1..(8 * n) /\ m + i <= Len(code)
    BY <1>5, <1>6
  <2>2. code[m + i] = padding[i]
    BY <1>2, <1>4 DEF Joined
  <2> QED
    BY <1>7, <2>1, <2>2 DEF Filled
<1>12. ASSUME NEW i \in (m + k + 1)..(8 * n) PROVE input[i] = 1
  <2>1. i \in 1..(8 * n) /\ ~(i <= Len(code))
    BY <1>5
  <2> QED
    BY <1>7, <2>1 DEF Filled
<1>13. Leads(HuffmanBits(octets), input)
  <2>1. m <= 8 * n
    BY <1>6
  <2> QED
    BY <1>2, <1>8, <1>10, <2>1, Zenon DEF Leads
<1>14. d[m] = CodeBegun(0, 0, octets)
  BY <1>2, <1>8, <1>9, <1>13, CodesAreRead
<1>15. EncodedRun(octets, padding, encoded, m, k, n, d)
  BY <1>2, <1>6, <1>7, <1>8, <1>9, <1>11, <1>12, <1>14 DEF EncodedRun, input
<1> QED
  BY <1>15

----------------------------------------------------------------------------
(* Ones behind the codes.                                                  *)

\* Where ones alone are left behind the codes.
LEMMA OnesAreLeft ==
    ASSUME NEW octets \in Seq(0..255), NEW padding \in Seq(0..1),
           NEW encoded, NEW m, NEW k, NEW n, NEW d,
           EncodedRun(octets, padding, encoded, m, k, n, d), \A i \in 1..k : padding[i] = 1, k <= 8
    PROVE  \E j \in k..(k + 7) :
             HuffmanDecode(encoded) = [ok |-> Padding(TwoTo[j] - 1, j), read |-> octets]
<1> DEFINE input == Bits(encoded)
<1>1. /\ m \in Nat /\ k \in Nat /\ n \in Nat /\ m + k <= 8 * n /\ 8 * n <= m + k + 7
      /\ DecoderRun(d, input) /\ input \in Seq(0..1) /\ Len(input) = 8 * n
      /\ d[m] = CodeBegun(0, 0, octets)
      /\ \A i \in 1..k : input[m + i] = padding[i]
      /\ \A i \in (m + k + 1)..(8 * n) : input[i] = 1
      /\ HuffmanDecode(encoded) =
           [ok |-> d[8 * n].ok /\ Padding(d[8 * n].code, d[8 * n].bits), read |-> d[8 * n].read]
  BY DEF EncodedRun
<1> HIDE DEF input
<1>2. PICK j \in 0..30 : j \in k..(k + 7) /\ m + j = 8 * n
  BY <1>1
<1>3. ASSUME NEW b \in 1..j PROVE input[m + b] = 1
  <2>1. CASE b <= k
    <3>1. b \in 1..k
      BY <1>1, <2>1
    <3> QED
      BY <1>1, <3>1
  <2>2. CASE ~(b <= k)
    <3>1. m + b \in (m + k + 1)..(8 * n)
      BY <1>1, <1>2, <2>2
    <3> QED
      BY <1>1, <3>1
  <2> QED
    BY <2>1, <2>2
<1>4. d[m + j] = CodeBegun(TwoTo[j] - 1, j, octets)
  <2>1. /\ input \in Seq(0..1) /\ DecoderRun(d, input) /\ m \in Nat /\ j \in 0..30
        /\ m + j <= Len(input) /\ octets \in Seq(Nat) /\ d[m] = CodeBegun(0, 0, octets)
    BY <1>1, <1>2, OctetsAreNaturals
  <2> QED
    BY <1>3, <2>1, OnesAreRead, Zenon
<1>5. HuffmanDecode(encoded) = [ok |-> Padding(TwoTo[j] - 1, j), read |-> octets]
  <2>1. /\ d[8 * n].ok = TRUE /\ d[8 * n].code = TwoTo[j] - 1 /\ d[8 * n].bits = j
        /\ d[8 * n].read = octets
    BY <1>2, <1>4 DEF CodeBegun
  <2>2. (TRUE /\ Padding(TwoTo[j] - 1, j)) = Padding(TwoTo[j] - 1, j)
    BY DEF Padding
  <2> QED
    BY <1>1, <2>1, <2>2, Zenon
<1> QED
  BY <1>2, <1>5

\* Strings of any length come back from the Huffman code.
THEOREM HuffmanReadsBack ==
    \A octets \in Seq(0..255) :
      HuffmanDecode(HuffmanEncode(octets, <<>>)) = [ok |-> TRUE, read |-> octets]
<1> SUFFICES ASSUME NEW octets \in Seq(0..255)
             PROVE  HuffmanDecode(HuffmanEncode(octets, <<>>)) = [ok |-> TRUE, read |-> octets]
  OBVIOUS
<1>1. PICK encoded : encoded = HuffmanEncode(octets, <<>>)
  OBVIOUS
<1>2. PICK padding \in Seq(0..1) : padding = <<>>
  <2>1. <<>> \in Seq(0..1)
    OBVIOUS
  <2> QED
    BY <2>1
<1>3. PICK m, k, n, d : EncodedRun(octets, padding, encoded, m, k, n, d)
  BY <1>1, <1>2, EncodedIsRead
<1>4. k = 0
  BY <1>2, <1>3 DEF EncodedRun
<1>5. PICK j \in k..(k + 7) :
        HuffmanDecode(encoded) = [ok |-> Padding(TwoTo[j] - 1, j), read |-> octets]
  <2>1. \A i \in 1..k : padding[i] = 1
    BY <1>4
  <2>2. k <= 8
    BY <1>4
  <2> QED
    BY <1>3, <2>1, <2>2, OnesAreLeft
<1>6. Padding(TwoTo[j] - 1, j) = TRUE
  BY <1>4 DEF Padding
<1> QED
  BY <1>1, <1>5, <1>6

\* An octet of ones or more is no padding.
LEMMA LongPaddingIsRefused ==
    ASSUME NEW octets \in Seq(0..255)
    PROVE  ~HuffmanDecode(HuffmanEncode(octets, <<1, 1, 1, 1, 1, 1, 1, 1>>)).ok
<1>1. PICK encoded : encoded = HuffmanEncode(octets, <<1, 1, 1, 1, 1, 1, 1, 1>>)
  OBVIOUS
<1>2. PICK padding \in Seq(0..1) : padding = <<1, 1, 1, 1, 1, 1, 1, 1>>
  <2>1. <<1, 1, 1, 1, 1, 1, 1, 1>> \in Seq(0..1)
    OBVIOUS
  <2> QED
    BY <2>1
<1>3. PICK m, k, n, d : EncodedRun(octets, padding, encoded, m, k, n, d)
  BY <1>1, <1>2, EncodedIsRead
<1>4. k = 8 /\ \A i \in 1..8 : padding[i] = 1
  BY <1>2, <1>3 DEF EncodedRun
<1>5. PICK j \in k..(k + 7) :
        HuffmanDecode(encoded) = [ok |-> Padding(TwoTo[j] - 1, j), read |-> octets]
  <2>1. k <= 8 /\ \A i \in 1..k : padding[i] = 1
    BY <1>4
  <2> QED
    BY <1>3, <2>1, OnesAreLeft
<1>6. Padding(TwoTo[j] - 1, j) = FALSE
  BY <1>4 DEF Padding
<1> QED
  BY <1>1, <1>5, <1>6

\* A zero behind the codes: the code begun is not all ones, or a symbol follows.
Unfinished(state, octets) ==
    /\ state \in DecoderStates
    /\ state.ok => /\ Len(state.read) >= Len(octets)
                   /\ Len(state.read) > Len(octets) \/ state.code < TwoTo[state.bits] - 1

LEMMA StaysUnfinished ==
    ASSUME NEW octets \in Seq(0..255), NEW before, Unfinished(before, octets), NEW bit \in 0..1
    PROVE  Unfinished(ReadBit(before, bit), octets)
<1> DEFINE code == 2 * before.code + bit
           bits == before.bits + 1
           symbols == HuffmanSymbols(code, bits)
<1>1. before \in DecoderStates
  BY DEF Unfinished
<1>2. /\ code \in Nat /\ bits \in Nat
      /\ ~before.ok => ReadBit(before, bit) = before
      /\ before.ok /\ symbols # {} =>
           \E s \in symbols : ReadBit(before, bit) = CodeBegun(0, 0, Append(before.read, s))
      /\ before.ok /\ symbols = {} =>
           ReadBit(before, bit) =
             [ok |-> bits <= LongestCode, code |-> code, bits |-> bits, read |-> before.read]
  BY <1>1, ReadBitIs
<1>3. before.read \in Seq(Nat) /\ before.ok \in BOOLEAN /\ before.code \in Nat /\ before.bits \in Nat
  BY <1>1 DEF DecoderStates
<1>4. PICK x \in Nat, y \in Nat, a \in Nat, z \in Nat :
        x = before.code /\ y = before.bits /\ a = Len(before.read) /\ z = Len(octets)
  BY <1>3, LenProperties
<1>5. code = 2 * x + bit /\ bits = y + 1
  BY <1>4
<1> HIDE DEF code, bits
<1>6. symbols \in SUBSET Nat
  BY <1>2, SymbolsType
<1>7. ReadBit(before, bit) \in DecoderStates
  BY <1>1, ReadBitType
<1> HIDE DEF symbols
<1>8. CASE ~before.ok
  BY <1>2, <1>8
<1>9. CASE before.ok /\ a > z
  <2>1. CASE symbols # {}
    <3>1. PICK s \in symbols : ReadBit(before, bit) = CodeBegun(0, 0, Append(before.read, s))
      BY <1>2, <1>9, <2>1
    <3>2. Len(Append(before.read, s)) = a + 1
      BY <1>3, <1>4, <1>6, AppendProperties
    <3>3. ReadBit(before, bit).read = Append(before.read, s)
      BY <3>1 DEF CodeBegun
    <3>4. Len(ReadBit(before, bit).read) > z
      BY <1>9, <3>2, <3>3
    <3> QED
      BY <1>4, <1>7, <3>2, <3>3, <3>4 DEF Unfinished
  <2>2. CASE symbols = {}
    <3>1. ReadBit(before, bit).read = before.read
      BY <1>2, <1>9, <2>2
    <3> QED
      BY <1>4, <1>7, <1>9, <3>1 DEF Unfinished
  <2> QED
    BY <2>1, <2>2
<1>10. CASE before.ok /\ x < TwoTo[y] - 1 /\ a >= z
  <2>1. CASE symbols # {}
    <3>1. PICK s \in symbols : ReadBit(before, bit) = CodeBegun(0, 0, Append(before.read, s))
      BY <1>2, <1>10, <2>1
    <3>2. Len(Append(before.read, s)) = a + 1
      BY <1>3, <1>4, <1>6, AppendProperties
    <3>3. ReadBit(before, bit).read = Append(before.read, s)
      BY <3>1 DEF CodeBegun
    <3>4. Len(ReadBit(before, bit).read) > z
      BY <1>10, <3>2, <3>3
    <3> QED
      BY <1>4, <1>7, <3>2, <3>3, <3>4 DEF Unfinished
  <2>2. CASE symbols = {}
    <3>1. ReadBit(before, bit).code = code /\ ReadBit(before, bit).bits = bits
          /\ Len(ReadBit(before, bit).read) = a
      BY <1>2, <1>4, <1>10, <2>2
    <3>2. PICK t \in Nat \ {0} : t = TwoTo[y] /\ TwoTo[y + 1] = 2 * t
      BY TwoToType, TwoToNext
    <3>3. code < TwoTo[bits] - 1
      BY <1>5, <1>10, <3>2
    <3>4. ReadBit(before, bit).code < TwoTo[ReadBit(before, bit).bits] - 1
      BY <3>1, <3>3
    <3> QED
      BY <1>4, <1>7, <1>10, <3>1, <3>4 DEF Unfinished
  <2> QED
    BY <2>1, <2>2
<1> QED
  BY <1>4, <1>8, <1>9, <1>10 DEF Unfinished

----------------------------------------------------------------------------
(* A zero behind the codes.                                                *)

LEMMA ZeroIsNotLost ==
    ASSUME NEW octets \in Seq(0..255)
    PROVE  HuffmanDecode(HuffmanEncode(octets, <<0>>)) # [ok |-> TRUE, read |-> octets]
<1>1. PICK encoded : encoded = HuffmanEncode(octets, <<0>>)
  OBVIOUS
<1>2. PICK padding \in Seq(0..1) : padding = <<0>>
  <2>1. <<0>> \in Seq(0..1)
    OBVIOUS
  <2> QED
    BY <2>1
<1>3. PICK m, k, n, d : EncodedRun(octets, padding, encoded, m, k, n, d)
  BY <1>1, <1>2, EncodedIsRead
<1> DEFINE input == Bits(encoded)
<1>4. /\ m \in Nat /\ k = 1 /\ n \in Nat /\ m + 1 <= 8 * n
      /\ DecoderRun(d, input) /\ input \in Seq(0..1) /\ Len(input) = 8 * n
      /\ d[m] = CodeBegun(0, 0, octets) /\ input[m + 1] = 0
      /\ HuffmanDecode(encoded) =
           [ok |-> d[8 * n].ok /\ Padding(d[8 * n].code, d[8 * n].bits), read |-> d[8 * n].read]
  BY <1>2, <1>3 DEF EncodedRun
<1> HIDE DEF input
<1>5. PICK first \in Nat, last \in Nat : first = m + 1 /\ last = 8 * n /\ last \in first..last
  BY <1>4
<1>6. /\ \A i \in 0..last : d[i] \in DecoderStates
      /\ \A i \in 1..last : d[i] = ReadBit(d[i - 1], input[i]) /\ input[i] \in 0..1
  BY <1>4, <1>5, DecodingSteps, ElementOfSeq
<1> DEFINE S == {i \in first..last : Unfinished(d[i], octets)}
<1>7. first \in S
  <2>1. d[m] \in DecoderStates /\ first \in 1..last /\ first - 1 = m /\ first \in first..last
    BY <1>4, <1>5, <1>6
  <2>2. d[first] = ReadBit(d[m], 0)
    BY <1>4, <1>5, <1>6, <2>1
  <2>3. d[m].ok /\ d[m].code = 0 /\ d[m].bits = 0 /\ d[m].read = octets
    BY <1>4 DEF CodeBegun
  <2>4. d[first] \in DecoderStates
    BY <1>5, <1>6, <2>1
  <2>5. PICK z \in Nat : z = Len(octets)
    BY LenProperties
  <2>6. PICK before \in DecoderStates, bit \in 0..1 :
          /\ before = d[m] /\ bit = 0
          /\ before.ok /\ before.code = 0 /\ before.bits = 0 /\ before.read = octets
    <3>1. 0 \in 0..1
      OBVIOUS
    <3> QED
      BY <2>1, <2>3, <3>1
  <2>7. LET c == 2 * before.code + bit
            b == before.bits + 1
        IN  /\ before.ok /\ HuffmanSymbols(c, b) # {} =>
                 \E s \in HuffmanSymbols(c, b) :
                   ReadBit(before, bit) = CodeBegun(0, 0, Append(before.read, s))
            /\ before.ok /\ HuffmanSymbols(c, b) = {} =>
                 ReadBit(before, bit) =
                   [ok |-> b <= LongestCode, code |-> c, bits |-> b, read |-> before.read]
    BY ReadBitIs
  <2>8. CASE HuffmanSymbols(0, 1) # {}
    <3>1. PICK s \in HuffmanSymbols(0, 1) : ReadBit(d[m], 0) = CodeBegun(0, 0, Append(octets, s))
      <4>1. HuffmanSymbols(2 * before.code + bit, before.bits + 1) = HuffmanSymbols(0, 1)
        BY <2>6
      <4>2. \E s \in HuffmanSymbols(2 * before.code + bit, before.bits + 1) :
              ReadBit(before, bit) = CodeBegun(0, 0, Append(before.read, s))
        BY <2>8, <2>6, <2>7, <4>1
      <4> QED
        BY <2>6, <4>1, <4>2
    <3>2. s \in Nat /\ octets \in Seq(Nat)
      BY SymbolsType, OctetsAreNaturals
    <3>3. Len(Append(octets, s)) = z + 1
      BY <2>5, <3>2, AppendProperties
    <3>4. d[first].read = Append(octets, s)
      BY <2>2, <3>1 DEF CodeBegun
    <3>5. Unfinished(d[first], octets)
      BY <2>4, <2>5, <3>3, <3>4 DEF Unfinished
    <3> QED
      BY <2>1, <3>5
  <2>9. CASE HuffmanSymbols(0, 1) = {}
    <3>1. ReadBit(d[m], 0) = [ok |-> 1 <= LongestCode, code |-> 0, bits |-> 1, read |-> octets]
      <4>1. HuffmanSymbols(2 * before.code + bit, before.bits + 1) = HuffmanSymbols(0, 1)
        BY <2>6
      <4>2. ReadBit(before, bit) =
              [ok |-> before.bits + 1 <= LongestCode, code |-> 2 * before.code + bit,
               bits |-> before.bits + 1, read |-> before.read]
        BY <2>9, <2>6, <2>7, <4>1
      <4>3. 2 * before.code + bit = 0 /\ before.bits + 1 = 1
        BY <2>6
      <4> QED
        BY <2>6, <4>2, <4>3
    <3>2. d[first].code = 0 /\ d[first].bits = 1 /\ d[first].read = octets
      BY <2>2, <3>1
    <3>3. TwoTo[1] = 2
      BY TwoToTable
    <3>4. Unfinished(d[first], octets)
      BY <2>4, <2>5, <3>2, <3>3 DEF Unfinished
    <3> QED
      BY <2>1, <3>4
  <2> QED
    BY <2>8, <2>9
<1>8. ASSUME NEW i \in first..last, i \in S, i < last PROVE i + 1 \in S
  <2>1. i + 1 \in 1..last /\ (i + 1) - 1 = i /\ i + 1 \in first..last
    BY <1>5, <1>8
  <2>2. d[i + 1] = ReadBit(d[i], input[i + 1]) /\ input[i + 1] \in 0..1
    BY <1>6, <2>1
  <2>3. Unfinished(d[i], octets)
    BY <1>8
  <2>4. Unfinished(d[i + 1], octets)
    BY <2>2, <2>3, StaysUnfinished
  <2> QED
    BY <2>1, <2>4
<1> HIDE DEF S
<1>9. last \in S
  <2>1. first..last \subseteq S
    BY <1>7, <1>8, IntervalInduction
  <2> QED
    BY <1>5, <2>1
<1>10. Unfinished(d[last], octets)
  BY <1>9 DEF S
<1>11. ASSUME HuffmanDecode(encoded) = [ok |-> TRUE, read |-> octets] PROVE FALSE
  <2>1. [ok |-> d[last].ok /\ Padding(d[last].code, d[last].bits), read |-> d[last].read]
          = [ok |-> TRUE, read |-> octets]
    BY <1>4, <1>5, <1>11, Zenon
  <2>2. \A x, y, u, v : [ok |-> x, read |-> y] = [ok |-> u, read |-> v] => x = u /\ y = v
    <3> SUFFICES ASSUME NEW x, NEW y, NEW u, NEW v,
                        [ok |-> x, read |-> y] = [ok |-> u, read |-> v]
                 PROVE  x = u /\ y = v
      OBVIOUS
    <3>1. [ok |-> x, read |-> y].ok = [ok |-> u, read |-> v].ok
          /\ [ok |-> x, read |-> y].read = [ok |-> u, read |-> v].read
      OBVIOUS
    <3> QED
      BY <3>1
  <2>3. /\ (d[last].ok /\ Padding(d[last].code, d[last].bits)) = TRUE
        /\ d[last].read = octets
    BY <2>1, <2>2, Zenon
  <2>4. d[last].ok /\ d[last].code = TwoTo[d[last].bits] - 1
    BY <2>3 DEF Padding
  <2>5. d[last].code \in Nat /\ Len(octets) \in Nat
    BY <1>10, LenProperties DEF Unfinished, DecoderStates
  <2>6. Len(d[last].read) > Len(octets) \/ d[last].code < TwoTo[d[last].bits] - 1
    BY <1>10, <2>4 DEF Unfinished
  <2> QED
    BY <2>3, <2>4, <2>5, <2>6
<1> QED
  BY <1>1, <1>11

\* Behind the code of any octet: no padding of an octet or more, and none that hides a zero.
THEOREM PaddingIsRefused == PaddingRefused
<1>1. ASSUME NEW o \in OctetOfRow PROVE <<o>> \in Seq(0..255)
  <2>1. PICK r \in DOMAIN HuffmanRows : o = HuffmanRows[r].octets[Len(HuffmanRows[r].octets)]
    BY DEF OctetOfRow
  <2>2. r \in 1..21 /\ Len(HuffmanRows[r].octets) = RowCount[r] /\ RowCount[r] \in Nat \ {0}
    BY RowsAre, RowTypes
  <2>3. RowCount[r] \in 1..RowCount[r]
    BY <2>2
  <2>4. o \in 0..255
    BY <2>1, <2>2, <2>3, RowOctets DEF HasOctets
  <2> QED
    BY <2>4
<1> QED
  BY <1>1, LongPaddingIsRefused, ZeroIsNotLost DEF PaddingRefused

\* The table is a canonical code, without gaps up to EOS.
THEOREM TableIsCanonical == HuffmanCanonical
<1>1. Len(HuffmanRows) = 21 /\ DOMAIN HuffmanRows = 1..21
  BY RowsAre
<1>2. HuffmanRows[1].first = 0
  <2>1. 1 \in 1..21
    OBVIOUS
  <2>2. HuffmanRows[1].first = RowFirst[1]
    BY <2>1, RowsAre, Zenon
  <2> QED
    BY <2>2, RowsFollow
<1>3. ASSUME NEW r \in 1..20
      PROVE  HuffmanRows[r + 1].first = (HuffmanRows[r].first + Len(HuffmanRows[r].octets))
               * TwoTo[HuffmanRows[r + 1].bits - HuffmanRows[r].bits]
  <2>1. r \in 1..21 /\ r + 1 \in 1..21
    OBVIOUS
  <2>2. /\ HuffmanRows[r + 1].first = RowFirst[r + 1] /\ HuffmanRows[r + 1].bits = RowBits[r + 1]
        /\ HuffmanRows[r].bits = RowBits[r]
        /\ HuffmanRows[r].first + Len(HuffmanRows[r].octets) = RowBehind(r)
    BY <2>1, RowsAre DEF RowBehind
  <2>3. RowFirst[r + 1] = RowBehind(r) * TwoTo[RowBits[r + 1] - RowBits[r]]
    BY RowsFollow
  <2> QED
    BY <2>2, <2>3, Zenon
<1>4. HuffmanRows[21].bits = LongestCode
      /\ HuffmanRows[21].first + Len(HuffmanRows[21].octets) = TwoTo[LongestCode] - 1
  <2>1. /\ HuffmanRows[21].bits = RowBits[21]
        /\ HuffmanRows[21].first + Len(HuffmanRows[21].octets) = RowBehind(21)
    BY RowsAre DEF RowBehind
  <2> QED
    BY <2>1, RowsFollow DEF LongestCode
<1>5. \A r \in 1..21 : \A i \in 2..Len(HuffmanRows[r].octets) :
        HuffmanRows[r].octets[i - 1] < HuffmanRows[r].octets[i]
  BY RowsAre, RowsAscend DEF Ascends
<1>6. 21 - 1 = 20
  OBVIOUS
<1> QED
  BY <1>1, <1>2, <1>3, <1>4, <1>5, <1>6, Zenon DEF HuffmanCanonical

----------------------------------------------------------------------------
(* Strings with their lengths.                                              *)

\* What the octets of a string say, in the code or not, if they are few.
StringSays(flag, e, n, said) ==
    /\ e \in Seq(0..255) /\ n \in 0..126 /\ Len(e) = n /\ flag \in {0, 128} /\ IsUtf8(said)
    /\ (IF flag = 0 THEN [ok |-> TRUE, read |-> e] ELSE HuffmanDecode(e)) = [ok |-> TRUE, read |-> said]

IsRead(flag, e, n, said) ==
    DecodeString(<<flag + n>> \o e) = [ok |-> TRUE, read |-> said, used |-> 1 + n]

\* A string of less than 127 octets has its length in the first octet.
LEMMA ShortIsRead ==
    ASSUME NEW flag \in {0, 128}, NEW e \in Seq(0..255), NEW n \in 0..126, NEW said,
           StringSays(flag, e, n, said)
    PROVE  IsRead(flag, e, n, said)
<1>1. /\ e \in Seq(0..255) /\ n \in 0..126 /\ Len(e) = n /\ flag \in {0, 128} /\ IsUtf8(said)
       /\ (IF flag = 0 THEN [ok |-> TRUE, read |-> e] ELSE HuffmanDecode(e)) = [ok |-> TRUE, read |-> said]
  BY DEF StringSays
<1>2. PICK decoded :
        /\ decoded = IF flag = 0 THEN [ok |-> TRUE, read |-> e] ELSE HuffmanDecode(e)
        /\ decoded.ok /\ decoded.read = said /\ IsUtf8(decoded.read)
  <2>1. PICK decoded : decoded = [ok |-> TRUE, read |-> said]
    OBVIOUS
  <2>2. decoded = IF flag = 0 THEN [ok |-> TRUE, read |-> e] ELSE HuffmanDecode(e)
    BY <1>1, <2>1, Zenon
  <2>3. decoded.ok /\ decoded.read = said
    BY <2>1
  <2> QED
    BY <1>1, <2>2, <2>3
<1> DEFINE block == <<flag + n>> \o e
           octets == [i \in DOMAIN block |-> IF i = 1 THEN block[1] % 128 ELSE block[i]]
           int == DecodeInt(7, octets)
<1>3. /\ block \in Seq(0..255) /\ Len(block) = 1 + n /\ block[1] = flag + n
      /\ \A i \in 1..n : block[1 + i] = e[i]
  <2>1. <<flag + n>> \in Seq(0..255)
    <3>1. flag + n \in 0..255
      OBVIOUS
    <3> QED
      BY <3>1
  <2>2. PICK h \in Seq(0..255) : h = <<flag + n>>
    BY <2>1
  <2>3. Joined(block, <<flag + n>>, e)
    <3>1. Joined(h \o e, h, e)
      BY PartsJoined
    <3> QED
      BY <2>2, <3>1
  <2>4. block \in Seq(0..255)
    BY <2>1, ConcatProperties
  <2>5. Len(<<flag + n>>) = 1 /\ <<flag + n>>[1] = flag + n
    OBVIOUS
  <2> HIDE DEF block
  <2>6. Len(block) = 1 + n /\ \A i \in 1..n : block[1 + i] = e[i]
    <3>1. Len(<<flag + n>>) = 1 /\ Len(e) = n
      BY <1>1, <2>5
    <3>2. /\ Len(block) = Len(<<flag + n>>) + Len(e)
          /\ \A i \in 1..Len(e) : block[Len(<<flag + n>>) + i] = e[i]
      BY <2>3 DEF Joined
    <3> QED
      BY <3>1, <3>2, Zenon
  <2>7. 1 \in 1..Len(<<flag + n>>)
    BY <2>5
  <2>8. block[1] = flag + n
    BY <2>3, <2>5, <2>7 DEF Joined
  <2> QED
    BY <2>4, <2>6, <2>8
<1> HIDE DEF block
<1>4. block # <<>> /\ 1 \in DOMAIN block /\ DOMAIN block = 1..(1 + n)
  BY <1>3
<1>5. octets[1] = n /\ octets # <<>>
  <2>1. (flag + n) % 128 = n
    <3>1. CASE flag = 0
      <4>1. n % 128 = n
        OBVIOUS
      <4> QED
        BY <3>1, <4>1
    <3>2. CASE flag = 128
      <4>1. (128 + n) % 128 = n
        OBVIOUS
      <4> QED
        BY <3>2, <4>1
    <3> QED
      BY <3>1, <3>2
  <2>2. octets[1] = block[1] % 128
    BY <1>4
  <2>3. DOMAIN octets # {}
    BY <1>4
  <2> QED
    BY <1>3, <2>1, <2>2, <2>3
<1> HIDE DEF octets
<1>6. int = [ok |-> TRUE, value |-> n, used |-> 1]
  <2>1. octets[1] < TwoTo[7] - 1
    BY <1>5, TwoToTable
  <2>2. int = [ok |-> TRUE, value |-> octets[1], used |-> 1]
    BY <1>5, <2>1 DEF DecodeInt
  <2> QED
    BY <1>5, <2>2
<1>7. SubSeq(block, 2, 1 + n) = e
  <2>1. SubSeq(block, 2, 1 + n) \in Seq(0..255) /\ Len(SubSeq(block, 2, 1 + n)) = n
        /\ \A i \in 1..n : SubSeq(block, 2, 1 + n)[i] = block[1 + i]
    <3>1. \A i \in 2..(1 + n) : block[i] \in 0..255
      <4>1. \A i \in 2..(1 + n) : i \in 1..Len(block)
        BY <1>3
      <4>2. \A i \in 1..Len(block) : block[i] \in 0..255
        BY <1>3, ElementOfSeq
      <4> QED
        BY <4>1, <4>2
    <3>2. 2 \in Int /\ 1 + n \in Int
      OBVIOUS
    <3>3. /\ SubSeq(block, 2, 1 + n) \in Seq(0..255)
          /\ Len(SubSeq(block, 2, 1 + n)) = IF 2 <= 1 + n THEN (1 + n) - 2 + 1 ELSE 0
          /\ \A i \in 1..((1 + n) - 2 + 1) : SubSeq(block, 2, 1 + n)[i] = block[2 + i - 1]
      BY <3>1, <3>2, SubSeqProperties
    <3>4. (1 + n) - 2 + 1 = n /\ \A i \in 1..n : 2 + i - 1 = 1 + i
      OBVIOUS
    <3>5. Len(SubSeq(block, 2, 1 + n)) = n
      BY <3>3
    <3> QED
      BY <3>3, <3>4, <3>5
  <2>2. PICK part : part = SubSeq(block, 2, 1 + n)
    OBVIOUS
  <2>3. part \in Seq(0..255) /\ Len(part) = Len(e) /\ \A i \in 1..Len(part) : part[i] = e[i]
    <3>1. Len(e) = n
      BY <1>1
    <3>2. \A i \in 1..n : part[i] = e[i]
      BY <1>3, <2>1, <2>2, Zenon
    <3> QED
      BY <2>1, <2>2, <3>1, <3>2, Zenon
  <2>4. part = e
    BY <2>3, SeqEqual
  <2> QED
    BY <2>2, <2>4
<1>8. int.ok /\ int.value = n /\ int.used = 1
  BY <1>6
<1> DEFINE raw == SubSeq(block, int.used + 1, int.used + int.value)
           read == IF block[1] < 128 THEN [ok |-> TRUE, read |-> raw] ELSE HuffmanDecode(raw)
<1>9. DecodeString(block) =
        IF block = <<>> \/ ~int.ok THEN [ok |-> FALSE]
        ELSE IF int.used + int.value > Len(block) \/ ~read.ok \/ ~IsUtf8(read.read)
          THEN [ok |-> FALSE]
        ELSE [ok |-> TRUE, read |-> read.read, used |-> int.used + int.value]
  BY DEF DecodeString, octets
<1>10. raw = e
  BY <1>7, <1>8
<1> HIDE DEF int, raw
<1>11. read = decoded
  <2>1. block[1] < 128 <=> flag = 0
    BY <1>3
  <2> QED
    BY <1>2, <1>10, <2>1
<1> HIDE DEF read
<1>12. ~(int.used + int.value > Len(block))
  BY <1>3, <1>8
<1>13. DecodeString(block) = [ok |-> TRUE, read |-> read.read, used |-> int.used + int.value]
  BY <1>2, <1>4, <1>8, <1>9, <1>11, <1>12
<1> QED
  BY <1>2, <1>8, <1>11, <1>13 DEF block, IsRead

LEMMA SaidIsRead ==
    ASSUME NEW flag, NEW e, NEW n, NEW said, StringSays(flag, e, n, said)
    PROVE  IsRead(flag, e, n, said)
<1>1. e \in Seq(0..255) /\ n \in 0..126 /\ flag \in {0, 128}
  BY DEF StringSays
<1> QED
  BY <1>1, ShortIsRead

\* No code is longer than 30 bits.
LEMMA CodesAreShort ==
    ASSUME NEW octets \in Seq(0..255)
    PROVE  Len(HuffmanBits(octets)) <= 30 * Len(octets)
<1>1. PICK f : CodeSteps(f, octets)
  BY CodesAre
<1>2. PICK n \in Nat : n = Len(octets)
  BY LenProperties
<1>3. /\ f[0] = <<>> /\ \A i \in 0..n : f[i] \in Seq(0..1)
      /\ \A i \in 1..n : f[i] = f[i - 1] \o HuffmanCode[octets[i]]
      /\ HuffmanBits(octets) = f[n]
  BY <1>1, <1>2 DEF CodeSteps
<1> DEFINE S == {k \in 0..n : Len(f[k]) <= 30 * k}
<1>4. 0 \in S
  BY <1>3
<1>5. ASSUME NEW k \in 0..n, k \in S, k < n PROVE k + 1 \in S
  <2>1. k + 1 \in 1..n /\ (k + 1) - 1 = k
    BY <1>5
  <2>2. octets[k + 1] \in 0..255
    BY <1>2, <2>1, ElementOfSeq
  <2>3. PICK q, i, code : HasCode(octets[k + 1], q, i, code)
    BY <2>2, CodeBits
  <2>4. PICK c \in Seq(0..1) : c = HuffmanCode[octets[k + 1]] /\ Len(c) \in 5..30
    BY <2>3 DEF HasCode
  <2>5. f[k] \in Seq(0..1) /\ f[k + 1] = f[k] \o c
    BY <1>3, <2>1, <2>4
  <2>6. Len(f[k + 1]) = Len(f[k]) + Len(c) /\ Len(f[k]) \in Nat
    BY <2>5, LenProperties
  <2>7. PICK x \in Nat : x = Len(f[k]) /\ x <= 30 * k
    BY <1>5, <2>6
  <2>8. PICK y \in Nat : y = Len(f[k + 1]) /\ y <= x + 30
    <3>1. PICK z \in 5..30 : z = Len(c)
      BY <2>4
    <3>2. Len(f[k + 1]) = x + z
      BY <2>6, <2>7, <3>1
    <3>3. x + z \in Nat /\ x + z <= x + 30
      OBVIOUS
    <3> QED
      BY <3>2, <3>3
  <2>9. y <= 30 * (k + 1)
    BY <2>8, <2>7
  <2> QED
    BY <2>1, <2>8, <2>9
<1> HIDE DEF S
<1>6. n \in S
  <2>1. 0..n \subseteq S
    BY <1>4, <1>5, IntervalInduction
  <2> QED
    BY <2>1
<1> QED
  BY <1>2, <1>3, <1>6 DEF S

\* Strings come back from how they are written, in the code or not.
THEOREM ShortStringsReadBack ==
    \A s \in Seq(0..255) : IsUtf8(s) =>
      /\ Len(s) <= 126 =>
           DecodeString(EncodeString(s)) = [ok |-> TRUE, read |-> s, used |-> Len(EncodeString(s))]
      /\ Len(s) <= 33 =>
           DecodeString(HuffmanString(s, <<>>)) =
             [ok |-> TRUE, read |-> s, used |-> Len(HuffmanString(s, <<>>))]
<1> SUFFICES ASSUME NEW s \in Seq(0..255), IsUtf8(s)
             PROVE  /\ Len(s) <= 126 => DecodeString(EncodeString(s)) =
                         [ok |-> TRUE, read |-> s, used |-> Len(EncodeString(s))]
                    /\ Len(s) <= 33 => DecodeString(HuffmanString(s, <<>>)) =
                         [ok |-> TRUE, read |-> s, used |-> Len(HuffmanString(s, <<>>))]
  OBVIOUS
<1>1. ASSUME NEW e \in Seq(0..255), NEW h \in 0..255 PROVE Len(<<h>> \o e) = 1 + Len(e)
  <2>1. <<h>> \in Seq(0..255) /\ Len(<<h>>) = 1
    OBVIOUS
  <2>2. Joined(<<h>> \o e, <<h>>, e)
    BY <2>1, PartsJoined
  <2> QED
    BY <2>1, <2>2 DEF Joined
<1>2. ASSUME Len(s) <= 126
      PROVE  DecodeString(EncodeString(s)) = [ok |-> TRUE, read |-> s, used |-> Len(EncodeString(s))]
  <2>1. PICK l \in Nat : l = Len(s)
    BY LenProperties
  <2>2. PICK n \in 0..126 : n = Len(s)
    <3>1. l <= 126
      BY <1>2, <2>1
    <3>2. l \in 0..126
      BY <3>1
    <3> QED
      BY <2>1, <3>2
  <2>3. PICK flag \in {0, 128} : flag = 0
    OBVIOUS
  <2>4. EncodeInt(7, n) = <<n>>
    <3>1. n < TwoTo[7] - 1
      BY TwoToTable
    <3> QED
      BY <3>1 DEF EncodeInt
  <2>5. EncodeString(s) = <<flag + n>> \o s
    <3>1. flag + n = n
      BY <2>3
    <3>2. EncodeString(s) = EncodeInt(7, n) \o s
      BY <2>2 DEF EncodeString
    <3> QED
      BY <2>4, <3>1, <3>2
  <2>6. PICK e \in Seq(0..255) : e = s
    OBVIOUS
  <2>7. StringSays(flag, e, n, s)
    BY <2>2, <2>3, <2>6 DEF StringSays
  <2>8. DecodeString(<<flag + n>> \o e) = [ok |-> TRUE, read |-> s, used |-> 1 + n]
    <3>1. IsRead(flag, e, n, s)
      BY <2>7, SaidIsRead
    <3> QED
      BY <3>1 DEF IsRead
  <2>9. DecodeString(<<flag + n>> \o s) = [ok |-> TRUE, read |-> s, used |-> 1 + n]
    BY <2>6, <2>8
  <2>10. flag + n \in 0..255
    OBVIOUS
  <2> QED
    BY <1>1, <2>2, <2>5, <2>9, <2>10
<1>3. ASSUME Len(s) <= 33
      PROVE  DecodeString(HuffmanString(s, <<>>)) =
               [ok |-> TRUE, read |-> s, used |-> Len(HuffmanString(s, <<>>))]
  <2>1. PICK e : e = HuffmanEncode(s, <<>>)
    OBVIOUS
  <2>2. PICK padding \in Seq(0..1) : padding = <<>>
    <3>1. <<>> \in Seq(0..1)
      OBVIOUS
    <3> QED
      BY <3>1
  <2>3. PICK m, k, n, d : EncodedRun(s, padding, e, m, k, n, d)
    BY <2>1, <2>2, EncodedIsRead
  <2>4. /\ m \in Nat /\ k = 0 /\ n \in Nat /\ e \in Seq(0..255) /\ Len(e) = n
        /\ m = Len(HuffmanBits(s)) /\ 8 * n <= m + 7
    BY <2>2, <2>3 DEF EncodedRun
  <2>5. n \in 0..126
    <3>1. PICK x \in Nat : x = Len(s)
      BY LenProperties
    <3>2. PICK l \in 0..33 : l = Len(s)
      <4>1. x <= 33
        BY <1>3, <3>1
      <4>2. x \in 0..33
        BY <4>1
      <4> QED
        BY <3>1, <4>2
    <3>3. m <= 30 * l
      BY <2>4, <3>2, CodesAreShort
    <3> QED
      BY <2>4, <3>3
  <2>6. PICK flag \in {0, 128} : flag = 128
    OBVIOUS
  <2>7. HuffmanString(s, <<>>) = <<flag + n>> \o e
    BY <2>1, <2>4, <2>6 DEF HuffmanString
  <2>8. StringSays(flag, e, n, s)
    BY <2>1, <2>4, <2>5, <2>6, HuffmanReadsBack DEF StringSays
  <2>9. DecodeString(<<flag + n>> \o e) = [ok |-> TRUE, read |-> s, used |-> 1 + n]
    <3>1. IsRead(flag, e, n, s)
      BY <2>8, SaidIsRead
    <3> QED
      BY <3>1 DEF IsRead
  <2>10. flag + n \in 0..255
    BY <2>5
  <2> QED
    <3>1. Len(<<flag + n>> \o e) = 1 + n
      BY <1>1, <2>4, <2>10
    <3> QED
      BY <2>7, <2>9, <3>1
<1> QED
  BY <1>2, <1>3

----------------------------------------------------------------------------
(* The examples of RFC 7541, octet by octet and code by code.               *)

\* The bits of an octet behind p, and of a code.
OctetAt(input, p, v) ==
    /\ input[p + 1] = (v \div 128) % 2 /\ input[p + 2] = (v \div 64) % 2
    /\ input[p + 3] = (v \div 32) % 2 /\ input[p + 4] = (v \div 16) % 2
    /\ input[p + 5] = (v \div 8) % 2 /\ input[p + 6] = (v \div 4) % 2
    /\ input[p + 7] = (v \div 2) % 2 /\ input[p + 8] = v % 2

LEMMA OctetsAt ==
    ASSUME NEW octets \in Seq(0..255), NEW o \in 1..Len(octets), NEW p, p = 8 * (o - 1),
           NEW v \in Nat, v = octets[o]
    PROVE  OctetAt(Bits(octets), p, v)
<1>1. \A b \in 1..8 : Bits(octets)[p + b] = (v \div TwoTo[8 - b]) % 2
  BY BitOfOctet
<1>2. /\ TwoTo[7] = 128 /\ TwoTo[6] = 64 /\ TwoTo[5] = 32 /\ TwoTo[4] = 16
      /\ TwoTo[3] = 8 /\ TwoTo[2] = 4 /\ TwoTo[1] = 2 /\ TwoTo[0] = 1
  BY TwoToTable, TwoToNext
<1>3. /\ Bits(octets)[p + 1] = (v \div TwoTo[7]) % 2 /\ Bits(octets)[p + 2] = (v \div TwoTo[6]) % 2
      /\ Bits(octets)[p + 3] = (v \div TwoTo[5]) % 2 /\ Bits(octets)[p + 4] = (v \div TwoTo[4]) % 2
      /\ Bits(octets)[p + 5] = (v \div TwoTo[3]) % 2 /\ Bits(octets)[p + 6] = (v \div TwoTo[2]) % 2
      /\ Bits(octets)[p + 7] = (v \div TwoTo[1]) % 2 /\ Bits(octets)[p + 8] = (v \div TwoTo[0]) % 2
  BY <1>1
<1>4. v \div 1 = v
  OBVIOUS
<1> QED
  BY <1>2, <1>3, <1>4, Zenon DEF OctetAt

LEMMA CodeOf5Bits ==
    ASSUME NEW input, NEW p \in Nat, NEW code \in Nat,
           input[p + 1] = (code \div 16) % 2,
           input[p + 2] = (code \div 8) % 2,
           input[p + 3] = (code \div 4) % 2,
           input[p + 4] = (code \div 2) % 2,
           input[p + 5] = code % 2
    PROVE  CodeAt(input, p, code, 5)
<1>1. TwoTo[0] = 1 /\ TwoTo[1] = 2 /\ TwoTo[2] = 4 /\ TwoTo[3] = 8 /\ TwoTo[4] = 16
  BY TwoToTable, TwoToNext
<1>2. code \div 1 = code
  OBVIOUS
<1>3. ASSUME NEW b \in 1..5 PROVE input[p + b] = (code \div TwoTo[5 - b]) % 2
  <2>1. CASE b = 1
    BY <1>1, <1>2, <2>1
  <2>2. CASE b = 2
    BY <1>1, <1>2, <2>2
  <2>3. CASE b = 3
    BY <1>1, <1>2, <2>3
  <2>4. CASE b = 4
    BY <1>1, <1>2, <2>4
  <2>5. CASE b = 5
    BY <1>1, <1>2, <2>5
  <2> QED
    BY <2>1, <2>2, <2>3, <2>4, <2>5
<1> QED
  BY <1>3 DEF CodeAt

LEMMA CodeOf6Bits ==
    ASSUME NEW input, NEW p \in Nat, NEW code \in Nat,
           input[p + 1] = (code \div 32) % 2,
           input[p + 2] = (code \div 16) % 2,
           input[p + 3] = (code \div 8) % 2,
           input[p + 4] = (code \div 4) % 2,
           input[p + 5] = (code \div 2) % 2,
           input[p + 6] = code % 2
    PROVE  CodeAt(input, p, code, 6)
<1>1. TwoTo[0] = 1 /\ TwoTo[1] = 2 /\ TwoTo[2] = 4 /\ TwoTo[3] = 8 /\ TwoTo[4] = 16 /\ TwoTo[5] = 32
  BY TwoToTable, TwoToNext
<1>2. code \div 1 = code
  OBVIOUS
<1>3. ASSUME NEW b \in 1..6 PROVE input[p + b] = (code \div TwoTo[6 - b]) % 2
  <2>1. CASE b = 1
    BY <1>1, <1>2, <2>1
  <2>2. CASE b = 2
    BY <1>1, <1>2, <2>2
  <2>3. CASE b = 3
    BY <1>1, <1>2, <2>3
  <2>4. CASE b = 4
    BY <1>1, <1>2, <2>4
  <2>5. CASE b = 5
    BY <1>1, <1>2, <2>5
  <2>6. CASE b = 6
    BY <1>1, <1>2, <2>6
  <2> QED
    BY <2>1, <2>2, <2>3, <2>4, <2>5, <2>6
<1> QED
  BY <1>3 DEF CodeAt

LEMMA CodeOf7Bits ==
    ASSUME NEW input, NEW p \in Nat, NEW code \in Nat,
           input[p + 1] = (code \div 64) % 2,
           input[p + 2] = (code \div 32) % 2,
           input[p + 3] = (code \div 16) % 2,
           input[p + 4] = (code \div 8) % 2,
           input[p + 5] = (code \div 4) % 2,
           input[p + 6] = (code \div 2) % 2,
           input[p + 7] = code % 2
    PROVE  CodeAt(input, p, code, 7)
<1>1. TwoTo[0] = 1 /\ TwoTo[1] = 2 /\ TwoTo[2] = 4 /\ TwoTo[3] = 8 /\ TwoTo[4] = 16 /\ TwoTo[5] = 32 /\ TwoTo[6] = 64
  BY TwoToTable, TwoToNext
<1>2. code \div 1 = code
  OBVIOUS
<1>3. ASSUME NEW b \in 1..7 PROVE input[p + b] = (code \div TwoTo[7 - b]) % 2
  <2>1. CASE b = 1
    BY <1>1, <1>2, <2>1
  <2>2. CASE b = 2
    BY <1>1, <1>2, <2>2
  <2>3. CASE b = 3
    BY <1>1, <1>2, <2>3
  <2>4. CASE b = 4
    BY <1>1, <1>2, <2>4
  <2>5. CASE b = 5
    BY <1>1, <1>2, <2>5
  <2>6. CASE b = 6
    BY <1>1, <1>2, <2>6
  <2>7. CASE b = 7
    BY <1>1, <1>2, <2>7
  <2> QED
    BY <2>1, <2>2, <2>3, <2>4, <2>5, <2>6, <2>7
<1> QED
  BY <1>3 DEF CodeAt

\* An octet and its code; the octets of a text that have been read up to p.
Letter(o, code, m) ==
    /\ o \in Nat /\ m \in Nat
    /\ \E q \in 1..21 : \E i \in 1..RowCount[q] :
         RowBits[q] = m /\ RowFirst[q] + i - 1 = code /\ HuffmanRows[q].octets[i] = o
ReadTo(input, d, p, text, k) ==
    /\ input \in Seq(0..1) /\ DecoderRun(d, input) /\ p \in Nat
    /\ text \in Seq(0..255) /\ k \in 0..Len(text)
    /\ d[p] = CodeBegun(0, 0, SubSeq(text, 1, k))

LEMMA NextLetter ==
    ASSUME NEW input, NEW d, NEW p, NEW text, NEW k, ReadTo(input, d, p, text, k),
           NEW o, NEW code, NEW m, Letter(o, code, m), CodeAt(input, p, code, m),
           NEW n, n = p + m, n <= Len(input),
           NEW next, next = k + 1, next <= Len(text), text[next] = o
    PROVE  ReadTo(input, d, n, text, next)
<1>1. PICK l \in Nat : l = Len(text)
  BY LenProperties DEF ReadTo
<1>2. /\ input \in Seq(0..1) /\ DecoderRun(d, input) /\ p \in Nat
      /\ text \in Seq(0..255) /\ k \in 0..l /\ d[p] = CodeBegun(0, 0, SubSeq(text, 1, k))
  BY <1>1 DEF ReadTo
<1>3. o \in Nat /\ m \in Nat
  BY DEF Letter
<1>4. next \in 1..l /\ next = k + 1 /\ k \in 0..l
  BY <1>1, <1>2
<1>5. SubSeq(text, 1, next) = Append(SubSeq(text, 1, k), o)
  BY <1>1, <1>2, <1>4
<1>6. SubSeq(text, 1, k) \in Seq(Nat)
  <2>1. PICK c \in Nat : c = k
    BY <1>4
  <2>2. ASSUME NEW j \in 1..c PROVE text[j] \in Nat
    <3>1. j \in 1..Len(text)
      BY <1>1, <1>4, <2>1
    <3>2. PICK v \in 0..255 : v = text[j]
      BY <1>2, <3>1, ElementOfSeq
    <3>3. v \in Nat
      OBVIOUS
    <3> QED
      BY <3>2, <3>3
  <2>3. 1 \in Int /\ c \in Int
    OBVIOUS
  <2>4. SubSeq(text, 1, c) \in Seq(Nat)
    BY <2>2, <2>3, SubSeqProperties
  <2> QED
    BY <2>1, <2>4
<1>7. CodeFound(input, p, n, o)
  BY <1>2 DEF Letter, CodeFound
<1>8. d[n] = CodeBegun(0, 0, SubSeq(text, 1, next))
  <2>1. PICK read \in Seq(Nat) : read = SubSeq(text, 1, k)
    BY <1>6
  <2>2. d[n] = CodeBegun(0, 0, Append(read, o))
    <3>1. input \in Seq(0..1) /\ DecoderRun(d, input) /\ d[p] = CodeBegun(0, 0, read)
      BY <1>2, <2>1
    <3> QED
      BY <1>7, <3>1, FoundIsRead
  <2> QED
    BY <1>5, <2>1, <2>2
<1>9. n \in Nat /\ next \in 0..Len(text)
  BY <1>1, <1>2, <1>3, <1>4
<1> QED
  BY <1>2, <1>8, <1>9 DEF ReadTo

LEMMA Letters ==
    /\ Letter(46, 23, 6)
    /\ Letter(97, 3, 5)
    /\ Letter(99, 4, 5)
    /\ Letter(101, 5, 5)
    /\ Letter(105, 6, 5)
    /\ Letter(108, 40, 6)
    /\ Letter(109, 41, 6)
    /\ Letter(111, 7, 5)
    /\ Letter(112, 43, 6)
    /\ Letter(114, 44, 6)
    /\ Letter(116, 9, 5)
    /\ Letter(118, 119, 7)
    /\ Letter(119, 120, 7)
    /\ Letter(120, 121, 7)
<1>1. Letter(46, 23, 6)
  <2>1. RowBits[2] = 6 /\ RowFirst[2] + 4 - 1 = 23 /\ 4 \in 1..RowCount[2]
    BY DEF RowBits, RowFirst, RowCount
  <2>2. HuffmanRows[2].octets[4] = 46 /\ 2 \in 1..21 /\ 46 \in Nat /\ 6 \in Nat
    BY DEF HuffmanRows
  <2> QED
    BY <2>1, <2>2 DEF Letter
<1>2. Letter(97, 3, 5)
  <2>1. RowBits[1] = 5 /\ RowFirst[1] + 4 - 1 = 3 /\ 4 \in 1..RowCount[1]
    BY DEF RowBits, RowFirst, RowCount
  <2>2. HuffmanRows[1].octets[4] = 97 /\ 1 \in 1..21 /\ 97 \in Nat /\ 5 \in Nat
    BY DEF HuffmanRows
  <2> QED
    BY <2>1, <2>2 DEF Letter
<1>3. Letter(99, 4, 5)
  <2>1. RowBits[1] = 5 /\ RowFirst[1] + 5 - 1 = 4 /\ 5 \in 1..RowCount[1]
    BY DEF RowBits, RowFirst, RowCount
  <2>2. HuffmanRows[1].octets[5] = 99 /\ 1 \in 1..21 /\ 99 \in Nat /\ 5 \in Nat
    BY DEF HuffmanRows
  <2> QED
    BY <2>1, <2>2 DEF Letter
<1>4. Letter(101, 5, 5)
  <2>1. RowBits[1] = 5 /\ RowFirst[1] + 6 - 1 = 5 /\ 6 \in 1..RowCount[1]
    BY DEF RowBits, RowFirst, RowCount
  <2>2. HuffmanRows[1].octets[6] = 101 /\ 1 \in 1..21 /\ 101 \in Nat /\ 5 \in Nat
    BY DEF HuffmanRows
  <2> QED
    BY <2>1, <2>2 DEF Letter
<1>5. Letter(105, 6, 5)
  <2>1. RowBits[1] = 5 /\ RowFirst[1] + 7 - 1 = 6 /\ 7 \in 1..RowCount[1]
    BY DEF RowBits, RowFirst, RowCount
  <2>2. HuffmanRows[1].octets[7] = 105 /\ 1 \in 1..21 /\ 105 \in Nat /\ 5 \in Nat
    BY DEF HuffmanRows
  <2> QED
    BY <2>1, <2>2 DEF Letter
<1>6. Letter(108, 40, 6)
  <2>1. RowBits[2] = 6 /\ RowFirst[2] + 21 - 1 = 40 /\ 21 \in 1..RowCount[2]
    BY DEF RowBits, RowFirst, RowCount
  <2>2. HuffmanRows[2].octets[21] = 108 /\ 2 \in 1..21 /\ 108 \in Nat /\ 6 \in Nat
    BY DEF HuffmanRows
  <2> QED
    BY <2>1, <2>2 DEF Letter
<1>7. Letter(109, 41, 6)
  <2>1. RowBits[2] = 6 /\ RowFirst[2] + 22 - 1 = 41 /\ 22 \in 1..RowCount[2]
    BY DEF RowBits, RowFirst, RowCount
  <2>2. HuffmanRows[2].octets[22] = 109 /\ 2 \in 1..21 /\ 109 \in Nat /\ 6 \in Nat
    BY DEF HuffmanRows
  <2> QED
    BY <2>1, <2>2 DEF Letter
<1>8. Letter(111, 7, 5)
  <2>1. RowBits[1] = 5 /\ RowFirst[1] + 8 - 1 = 7 /\ 8 \in 1..RowCount[1]
    BY DEF RowBits, RowFirst, RowCount
  <2>2. HuffmanRows[1].octets[8] = 111 /\ 1 \in 1..21 /\ 111 \in Nat /\ 5 \in Nat
    BY DEF HuffmanRows
  <2> QED
    BY <2>1, <2>2 DEF Letter
<1>9. Letter(112, 43, 6)
  <2>1. RowBits[2] = 6 /\ RowFirst[2] + 24 - 1 = 43 /\ 24 \in 1..RowCount[2]
    BY DEF RowBits, RowFirst, RowCount
  <2>2. HuffmanRows[2].octets[24] = 112 /\ 2 \in 1..21 /\ 112 \in Nat /\ 6 \in Nat
    BY DEF HuffmanRows
  <2> QED
    BY <2>1, <2>2 DEF Letter
<1>10. Letter(114, 44, 6)
  <2>1. RowBits[2] = 6 /\ RowFirst[2] + 25 - 1 = 44 /\ 25 \in 1..RowCount[2]
    BY DEF RowBits, RowFirst, RowCount
  <2>2. HuffmanRows[2].octets[25] = 114 /\ 2 \in 1..21 /\ 114 \in Nat /\ 6 \in Nat
    BY DEF HuffmanRows
  <2> QED
    BY <2>1, <2>2 DEF Letter
<1>11. Letter(116, 9, 5)
  <2>1. RowBits[1] = 5 /\ RowFirst[1] + 10 - 1 = 9 /\ 10 \in 1..RowCount[1]
    BY DEF RowBits, RowFirst, RowCount
  <2>2. HuffmanRows[1].octets[10] = 116 /\ 1 \in 1..21 /\ 116 \in Nat /\ 5 \in Nat
    BY DEF HuffmanRows
  <2> QED
    BY <2>1, <2>2 DEF Letter
<1>12. Letter(118, 119, 7)
  <2>1. RowBits[3] = 7 /\ RowFirst[3] + 28 - 1 = 119 /\ 28 \in 1..RowCount[3]
    BY DEF RowBits, RowFirst, RowCount
  <2>2. HuffmanRows[3].octets[28] = 118 /\ 3 \in 1..21 /\ 118 \in Nat /\ 7 \in Nat
    BY DEF HuffmanRows
  <2> QED
    BY <2>1, <2>2 DEF Letter
<1>13. Letter(119, 120, 7)
  <2>1. RowBits[3] = 7 /\ RowFirst[3] + 29 - 1 = 120 /\ 29 \in 1..RowCount[3]
    BY DEF RowBits, RowFirst, RowCount
  <2>2. HuffmanRows[3].octets[29] = 119 /\ 3 \in 1..21 /\ 119 \in Nat /\ 7 \in Nat
    BY DEF HuffmanRows
  <2> QED
    BY <2>1, <2>2 DEF Letter
<1>14. Letter(120, 121, 7)
  <2>1. RowBits[3] = 7 /\ RowFirst[3] + 30 - 1 = 121 /\ 30 \in 1..RowCount[3]
    BY DEF RowBits, RowFirst, RowCount
  <2>2. HuffmanRows[3].octets[30] = 120 /\ 3 \in 1..21 /\ 120 \in Nat /\ 7 \in Nat
    BY DEF HuffmanRows
  <2> QED
    BY <2>1, <2>2 DEF Letter
<1> QED
  BY <1>1, <1>2, <1>3, <1>4, <1>5, <1>6, <1>7, <1>8, <1>9, <1>10, <1>11, <1>12, <1>13, <1>14

LEMMA WwwExampleCom == HuffmanDecode(<<241, 227, 194, 229, 242, 58, 107, 160, 171, 144, 244, 255>>)
                  = [ok |-> TRUE, read |-> <<119, 119, 119, 46, 101, 120, 97, 109, 112, 108, 101, 46, 99, 111, 109>>]
<1>1. PICK octets : octets = <<241, 227, 194, 229, 242, 58, 107, 160, 171, 144, 244, 255>>
  OBVIOUS
<1>2. octets \in Seq(0..255) /\ Len(octets) = 12
  <2>1. <<241, 227, 194, 229, 242, 58, 107, 160, 171, 144, 244, 255>> \in Seq(0..255)
    OBVIOUS
  <2> QED
    BY <1>1, <2>1
<1> DEFINE input == Bits(octets)
<1>3. /\ input[1] = 1 /\ input[2] = 1 /\ input[3] = 1 /\ input[4] = 1
      /\ input[5] = 0 /\ input[6] = 0 /\ input[7] = 0 /\ input[8] = 1
  <2>1. OctetAt(input, 0, 241)
    <3>1. 1 \in 1..Len(octets) /\ 0 = 8 * (1 - 1) /\ 241 \in Nat /\ 241 = octets[1]
      BY <1>1, <1>2
    <3> QED
      BY <1>2, <3>1, OctetsAt
  <2> HIDE DEF input
  <2> QED
    BY <2>1 DEF OctetAt
<1>4. /\ input[9] = 1 /\ input[10] = 1 /\ input[11] = 1 /\ input[12] = 0
      /\ input[13] = 0 /\ input[14] = 0 /\ input[15] = 1 /\ input[16] = 1
  <2>1. OctetAt(input, 8, 227)
    <3>1. 2 \in 1..Len(octets) /\ 8 = 8 * (2 - 1) /\ 227 \in Nat /\ 227 = octets[2]
      BY <1>1, <1>2
    <3> QED
      BY <1>2, <3>1, OctetsAt
  <2> HIDE DEF input
  <2> QED
    BY <2>1 DEF OctetAt
<1>5. /\ input[17] = 1 /\ input[18] = 1 /\ input[19] = 0 /\ input[20] = 0
      /\ input[21] = 0 /\ input[22] = 0 /\ input[23] = 1 /\ input[24] = 0
  <2>1. OctetAt(input, 16, 194)
    <3>1. 3 \in 1..Len(octets) /\ 16 = 8 * (3 - 1) /\ 194 \in Nat /\ 194 = octets[3]
      BY <1>1, <1>2
    <3> QED
      BY <1>2, <3>1, OctetsAt
  <2> HIDE DEF input
  <2> QED
    BY <2>1 DEF OctetAt
<1>6. /\ input[25] = 1 /\ input[26] = 1 /\ input[27] = 1 /\ input[28] = 0
      /\ input[29] = 0 /\ input[30] = 1 /\ input[31] = 0 /\ input[32] = 1
  <2>1. OctetAt(input, 24, 229)
    <3>1. 4 \in 1..Len(octets) /\ 24 = 8 * (4 - 1) /\ 229 \in Nat /\ 229 = octets[4]
      BY <1>1, <1>2
    <3> QED
      BY <1>2, <3>1, OctetsAt
  <2> HIDE DEF input
  <2> QED
    BY <2>1 DEF OctetAt
<1>7. /\ input[33] = 1 /\ input[34] = 1 /\ input[35] = 1 /\ input[36] = 1
      /\ input[37] = 0 /\ input[38] = 0 /\ input[39] = 1 /\ input[40] = 0
  <2>1. OctetAt(input, 32, 242)
    <3>1. 5 \in 1..Len(octets) /\ 32 = 8 * (5 - 1) /\ 242 \in Nat /\ 242 = octets[5]
      BY <1>1, <1>2
    <3> QED
      BY <1>2, <3>1, OctetsAt
  <2> HIDE DEF input
  <2> QED
    BY <2>1 DEF OctetAt
<1>8. /\ input[41] = 0 /\ input[42] = 0 /\ input[43] = 1 /\ input[44] = 1
      /\ input[45] = 1 /\ input[46] = 0 /\ input[47] = 1 /\ input[48] = 0
  <2>1. OctetAt(input, 40, 58)
    <3>1. 6 \in 1..Len(octets) /\ 40 = 8 * (6 - 1) /\ 58 \in Nat /\ 58 = octets[6]
      BY <1>1, <1>2
    <3> QED
      BY <1>2, <3>1, OctetsAt
  <2> HIDE DEF input
  <2> QED
    BY <2>1 DEF OctetAt
<1>9. /\ input[49] = 0 /\ input[50] = 1 /\ input[51] = 1 /\ input[52] = 0
      /\ input[53] = 1 /\ input[54] = 0 /\ input[55] = 1 /\ input[56] = 1
  <2>1. OctetAt(input, 48, 107)
    <3>1. 7 \in 1..Len(octets) /\ 48 = 8 * (7 - 1) /\ 107 \in Nat /\ 107 = octets[7]
      BY <1>1, <1>2
    <3> QED
      BY <1>2, <3>1, OctetsAt
  <2> HIDE DEF input
  <2> QED
    BY <2>1 DEF OctetAt
<1>10. /\ input[57] = 1 /\ input[58] = 0 /\ input[59] = 1 /\ input[60] = 0
       /\ input[61] = 0 /\ input[62] = 0 /\ input[63] = 0 /\ input[64] = 0
  <2>1. OctetAt(input, 56, 160)
    <3>1. 8 \in 1..Len(octets) /\ 56 = 8 * (8 - 1) /\ 160 \in Nat /\ 160 = octets[8]
      BY <1>1, <1>2
    <3> QED
      BY <1>2, <3>1, OctetsAt
  <2> HIDE DEF input
  <2> QED
    BY <2>1 DEF OctetAt
<1>11. /\ input[65] = 1 /\ input[66] = 0 /\ input[67] = 1 /\ input[68] = 0
       /\ input[69] = 1 /\ input[70] = 0 /\ input[71] = 1 /\ input[72] = 1
  <2>1. OctetAt(input, 64, 171)
    <3>1. 9 \in 1..Len(octets) /\ 64 = 8 * (9 - 1) /\ 171 \in Nat /\ 171 = octets[9]
      BY <1>1, <1>2
    <3> QED
      BY <1>2, <3>1, OctetsAt
  <2> HIDE DEF input
  <2> QED
    BY <2>1 DEF OctetAt
<1>12. /\ input[73] = 1 /\ input[74] = 0 /\ input[75] = 0 /\ input[76] = 1
       /\ input[77] = 0 /\ input[78] = 0 /\ input[79] = 0 /\ input[80] = 0
  <2>1. OctetAt(input, 72, 144)
    <3>1. 10 \in 1..Len(octets) /\ 72 = 8 * (10 - 1) /\ 144 \in Nat /\ 144 = octets[10]
      BY <1>1, <1>2
    <3> QED
      BY <1>2, <3>1, OctetsAt
  <2> HIDE DEF input
  <2> QED
    BY <2>1 DEF OctetAt
<1>13. /\ input[81] = 1 /\ input[82] = 1 /\ input[83] = 1 /\ input[84] = 1
       /\ input[85] = 0 /\ input[86] = 1 /\ input[87] = 0 /\ input[88] = 0
  <2>1. OctetAt(input, 80, 244)
    <3>1. 11 \in 1..Len(octets) /\ 80 = 8 * (11 - 1) /\ 244 \in Nat /\ 244 = octets[11]
      BY <1>1, <1>2
    <3> QED
      BY <1>2, <3>1, OctetsAt
  <2> HIDE DEF input
  <2> QED
    BY <2>1 DEF OctetAt
<1>14. /\ input[89] = 1 /\ input[90] = 1 /\ input[91] = 1 /\ input[92] = 1
       /\ input[93] = 1 /\ input[94] = 1 /\ input[95] = 1 /\ input[96] = 1
  <2>1. OctetAt(input, 88, 255)
    <3>1. 12 \in 1..Len(octets) /\ 88 = 8 * (12 - 1) /\ 255 \in Nat /\ 255 = octets[12]
      BY <1>1, <1>2
    <3> QED
      BY <1>2, <3>1, OctetsAt
  <2> HIDE DEF input
  <2> QED
    BY <2>1 DEF OctetAt
<1>15. input \in Seq(0..1) /\ Len(input) = 96
  <2>1. octets \in Seq(Nat)
    BY <1>2, OctetsAreNaturals
  <2>2. input \in Seq(0..1) /\ Len(input) = 8 * Len(octets)
    BY <2>1, BitsType
  <2> HIDE DEF input
  <2> QED
    BY <1>2, <2>2
<1>16. PICK d : /\ DecoderRun(d, input)
                /\ LET end == d[Len(input)]
                   IN  HuffmanDecode(octets) =
                         [ok |-> end.ok /\ Padding(end.code, end.bits), read |-> end.read]
  BY <1>2, OctetsAreNaturals, DecodedByStates
<1> HIDE DEF input
<1>17. PICK text \in Seq(0..255) : text = <<119, 119, 119, 46, 101, 120, 97, 109, 112, 108, 101, 46, 99, 111, 109>> /\ Len(text) = 15
  <2>1. <<119, 119, 119, 46, 101, 120, 97, 109, 112, 108, 101, 46, 99, 111, 109>> \in Seq(0..255)
    OBVIOUS
  <2> QED
    BY <2>1
<1>18. ReadTo(input, d, 0, text, 0)
  <2>1. d[0] = CodeBegun(0, 0, <<>>)
    BY <1>15, <1>16, DecodingSteps
  <2>2. SubSeq(text, 1, 0) = <<>> /\ 0 \in 0..Len(text)
    BY <1>17, SubSeqEmpty
  <2> QED
    BY <1>15, <1>16, <2>1, <2>2 DEF ReadTo
<1>19. ReadTo(input, d, 7, text, 1)
  <2>1. CodeAt(input, 0, 120, 7)
    <3>1. /\ input[0 + 1] = 1 /\ input[0 + 2] = 1 /\ input[0 + 3] = 1 /\ input[0 + 4] = 1
          /\ input[0 + 5] = 0 /\ input[0 + 6] = 0 /\ input[0 + 7] = 0
      BY <1>3
    <3>2. /\ (120 \div 64) % 2 = 1 /\ (120 \div 32) % 2 = 1 /\ (120 \div 16) % 2 = 1
          /\ (120 \div 8) % 2 = 1 /\ (120 \div 4) % 2 = 0 /\ (120 \div 2) % 2 = 0 /\ 120 % 2 = 0
      OBVIOUS
    <3>3. 0 \in Nat /\ 120 \in Nat
      OBVIOUS
    <3> QED
      BY <3>1, <3>2, <3>3, CodeOf7Bits
  <2>2. 7 = 0 + 7 /\ 7 <= Len(input)
    BY <1>15
  <2>3. Letter(119, 120, 7)
    BY Letters
  <2>4. 1 = 0 + 1 /\ 1 <= Len(text) /\ text[1] = 119
    BY <1>17
  <2> QED
    BY <1>18, <2>1, <2>2, <2>3, <2>4, NextLetter
<1>20. ReadTo(input, d, 14, text, 2)
  <2>1. CodeAt(input, 7, 120, 7)
    <3>1. /\ input[7 + 1] = 1 /\ input[7 + 2] = 1 /\ input[7 + 3] = 1 /\ input[7 + 4] = 1
          /\ input[7 + 5] = 0 /\ input[7 + 6] = 0 /\ input[7 + 7] = 0
      BY <1>3, <1>4
    <3>2. /\ (120 \div 64) % 2 = 1 /\ (120 \div 32) % 2 = 1 /\ (120 \div 16) % 2 = 1
          /\ (120 \div 8) % 2 = 1 /\ (120 \div 4) % 2 = 0 /\ (120 \div 2) % 2 = 0 /\ 120 % 2 = 0
      OBVIOUS
    <3>3. 7 \in Nat /\ 120 \in Nat
      OBVIOUS
    <3> QED
      BY <3>1, <3>2, <3>3, CodeOf7Bits
  <2>2. 14 = 7 + 7 /\ 14 <= Len(input)
    BY <1>15
  <2>3. Letter(119, 120, 7)
    BY Letters
  <2>4. 2 = 1 + 1 /\ 2 <= Len(text) /\ text[2] = 119
    BY <1>17
  <2> QED
    BY <1>19, <2>1, <2>2, <2>3, <2>4, NextLetter
<1>21. ReadTo(input, d, 21, text, 3)
  <2>1. CodeAt(input, 14, 120, 7)
    <3>1. /\ input[14 + 1] = 1 /\ input[14 + 2] = 1 /\ input[14 + 3] = 1 /\ input[14 + 4] = 1
          /\ input[14 + 5] = 0 /\ input[14 + 6] = 0 /\ input[14 + 7] = 0
      BY <1>4, <1>5
    <3>2. /\ (120 \div 64) % 2 = 1 /\ (120 \div 32) % 2 = 1 /\ (120 \div 16) % 2 = 1
          /\ (120 \div 8) % 2 = 1 /\ (120 \div 4) % 2 = 0 /\ (120 \div 2) % 2 = 0 /\ 120 % 2 = 0
      OBVIOUS
    <3>3. 14 \in Nat /\ 120 \in Nat
      OBVIOUS
    <3> QED
      BY <3>1, <3>2, <3>3, CodeOf7Bits
  <2>2. 21 = 14 + 7 /\ 21 <= Len(input)
    BY <1>15
  <2>3. Letter(119, 120, 7)
    BY Letters
  <2>4. 3 = 2 + 1 /\ 3 <= Len(text) /\ text[3] = 119
    BY <1>17
  <2> QED
    BY <1>20, <2>1, <2>2, <2>3, <2>4, NextLetter
<1>22. ReadTo(input, d, 27, text, 4)
  <2>1. CodeAt(input, 21, 23, 6)
    <3>1. /\ input[21 + 1] = 0 /\ input[21 + 2] = 1 /\ input[21 + 3] = 0 /\ input[21 + 4] = 1
          /\ input[21 + 5] = 1 /\ input[21 + 6] = 1
      BY <1>5, <1>6
    <3>2. /\ (23 \div 32) % 2 = 0 /\ (23 \div 16) % 2 = 1 /\ (23 \div 8) % 2 = 0
          /\ (23 \div 4) % 2 = 1 /\ (23 \div 2) % 2 = 1 /\ 23 % 2 = 1
      OBVIOUS
    <3>3. 21 \in Nat /\ 23 \in Nat
      OBVIOUS
    <3> QED
      BY <3>1, <3>2, <3>3, CodeOf6Bits
  <2>2. 27 = 21 + 6 /\ 27 <= Len(input)
    BY <1>15
  <2>3. Letter(46, 23, 6)
    BY Letters
  <2>4. 4 = 3 + 1 /\ 4 <= Len(text) /\ text[4] = 46
    BY <1>17
  <2> QED
    BY <1>21, <2>1, <2>2, <2>3, <2>4, NextLetter
<1>23. ReadTo(input, d, 32, text, 5)
  <2>1. CodeAt(input, 27, 5, 5)
    <3>1. /\ input[27 + 1] = 0 /\ input[27 + 2] = 0 /\ input[27 + 3] = 1 /\ input[27 + 4] = 0
          /\ input[27 + 5] = 1
      BY <1>6
    <3>2. /\ (5 \div 16) % 2 = 0 /\ (5 \div 8) % 2 = 0 /\ (5 \div 4) % 2 = 1
          /\ (5 \div 2) % 2 = 0 /\ 5 % 2 = 1
      OBVIOUS
    <3>3. 27 \in Nat /\ 5 \in Nat
      OBVIOUS
    <3> QED
      BY <3>1, <3>2, <3>3, CodeOf5Bits
  <2>2. 32 = 27 + 5 /\ 32 <= Len(input)
    BY <1>15
  <2>3. Letter(101, 5, 5)
    BY Letters
  <2>4. 5 = 4 + 1 /\ 5 <= Len(text) /\ text[5] = 101
    BY <1>17
  <2> QED
    BY <1>22, <2>1, <2>2, <2>3, <2>4, NextLetter
<1>24. ReadTo(input, d, 39, text, 6)
  <2>1. CodeAt(input, 32, 121, 7)
    <3>1. /\ input[32 + 1] = 1 /\ input[32 + 2] = 1 /\ input[32 + 3] = 1 /\ input[32 + 4] = 1
          /\ input[32 + 5] = 0 /\ input[32 + 6] = 0 /\ input[32 + 7] = 1
      BY <1>7
    <3>2. /\ (121 \div 64) % 2 = 1 /\ (121 \div 32) % 2 = 1 /\ (121 \div 16) % 2 = 1
          /\ (121 \div 8) % 2 = 1 /\ (121 \div 4) % 2 = 0 /\ (121 \div 2) % 2 = 0 /\ 121 % 2 = 1
      OBVIOUS
    <3>3. 32 \in Nat /\ 121 \in Nat
      OBVIOUS
    <3> QED
      BY <3>1, <3>2, <3>3, CodeOf7Bits
  <2>2. 39 = 32 + 7 /\ 39 <= Len(input)
    BY <1>15
  <2>3. Letter(120, 121, 7)
    BY Letters
  <2>4. 6 = 5 + 1 /\ 6 <= Len(text) /\ text[6] = 120
    BY <1>17
  <2> QED
    BY <1>23, <2>1, <2>2, <2>3, <2>4, NextLetter
<1>25. ReadTo(input, d, 44, text, 7)
  <2>1. CodeAt(input, 39, 3, 5)
    <3>1. /\ input[39 + 1] = 0 /\ input[39 + 2] = 0 /\ input[39 + 3] = 0 /\ input[39 + 4] = 1
          /\ input[39 + 5] = 1
      BY <1>7, <1>8
    <3>2. /\ (3 \div 16) % 2 = 0 /\ (3 \div 8) % 2 = 0 /\ (3 \div 4) % 2 = 0
          /\ (3 \div 2) % 2 = 1 /\ 3 % 2 = 1
      OBVIOUS
    <3>3. 39 \in Nat /\ 3 \in Nat
      OBVIOUS
    <3> QED
      BY <3>1, <3>2, <3>3, CodeOf5Bits
  <2>2. 44 = 39 + 5 /\ 44 <= Len(input)
    BY <1>15
  <2>3. Letter(97, 3, 5)
    BY Letters
  <2>4. 7 = 6 + 1 /\ 7 <= Len(text) /\ text[7] = 97
    BY <1>17
  <2> QED
    BY <1>24, <2>1, <2>2, <2>3, <2>4, NextLetter
<1>26. ReadTo(input, d, 50, text, 8)
  <2>1. CodeAt(input, 44, 41, 6)
    <3>1. /\ input[44 + 1] = 1 /\ input[44 + 2] = 0 /\ input[44 + 3] = 1 /\ input[44 + 4] = 0
          /\ input[44 + 5] = 0 /\ input[44 + 6] = 1
      BY <1>8, <1>9
    <3>2. /\ (41 \div 32) % 2 = 1 /\ (41 \div 16) % 2 = 0 /\ (41 \div 8) % 2 = 1
          /\ (41 \div 4) % 2 = 0 /\ (41 \div 2) % 2 = 0 /\ 41 % 2 = 1
      OBVIOUS
    <3>3. 44 \in Nat /\ 41 \in Nat
      OBVIOUS
    <3> QED
      BY <3>1, <3>2, <3>3, CodeOf6Bits
  <2>2. 50 = 44 + 6 /\ 50 <= Len(input)
    BY <1>15
  <2>3. Letter(109, 41, 6)
    BY Letters
  <2>4. 8 = 7 + 1 /\ 8 <= Len(text) /\ text[8] = 109
    BY <1>17
  <2> QED
    BY <1>25, <2>1, <2>2, <2>3, <2>4, NextLetter
<1>27. ReadTo(input, d, 56, text, 9)
  <2>1. CodeAt(input, 50, 43, 6)
    <3>1. /\ input[50 + 1] = 1 /\ input[50 + 2] = 0 /\ input[50 + 3] = 1 /\ input[50 + 4] = 0
          /\ input[50 + 5] = 1 /\ input[50 + 6] = 1
      BY <1>9
    <3>2. /\ (43 \div 32) % 2 = 1 /\ (43 \div 16) % 2 = 0 /\ (43 \div 8) % 2 = 1
          /\ (43 \div 4) % 2 = 0 /\ (43 \div 2) % 2 = 1 /\ 43 % 2 = 1
      OBVIOUS
    <3>3. 50 \in Nat /\ 43 \in Nat
      OBVIOUS
    <3> QED
      BY <3>1, <3>2, <3>3, CodeOf6Bits
  <2>2. 56 = 50 + 6 /\ 56 <= Len(input)
    BY <1>15
  <2>3. Letter(112, 43, 6)
    BY Letters
  <2>4. 9 = 8 + 1 /\ 9 <= Len(text) /\ text[9] = 112
    BY <1>17
  <2> QED
    BY <1>26, <2>1, <2>2, <2>3, <2>4, NextLetter
<1>28. ReadTo(input, d, 62, text, 10)
  <2>1. CodeAt(input, 56, 40, 6)
    <3>1. /\ input[56 + 1] = 1 /\ input[56 + 2] = 0 /\ input[56 + 3] = 1 /\ input[56 + 4] = 0
          /\ input[56 + 5] = 0 /\ input[56 + 6] = 0
      BY <1>10
    <3>2. /\ (40 \div 32) % 2 = 1 /\ (40 \div 16) % 2 = 0 /\ (40 \div 8) % 2 = 1
          /\ (40 \div 4) % 2 = 0 /\ (40 \div 2) % 2 = 0 /\ 40 % 2 = 0
      OBVIOUS
    <3>3. 56 \in Nat /\ 40 \in Nat
      OBVIOUS
    <3> QED
      BY <3>1, <3>2, <3>3, CodeOf6Bits
  <2>2. 62 = 56 + 6 /\ 62 <= Len(input)
    BY <1>15
  <2>3. Letter(108, 40, 6)
    BY Letters
  <2>4. 10 = 9 + 1 /\ 10 <= Len(text) /\ text[10] = 108
    BY <1>17
  <2> QED
    BY <1>27, <2>1, <2>2, <2>3, <2>4, NextLetter
<1>29. ReadTo(input, d, 67, text, 11)
  <2>1. CodeAt(input, 62, 5, 5)
    <3>1. /\ input[62 + 1] = 0 /\ input[62 + 2] = 0 /\ input[62 + 3] = 1 /\ input[62 + 4] = 0
          /\ input[62 + 5] = 1
      BY <1>10, <1>11
    <3>2. /\ (5 \div 16) % 2 = 0 /\ (5 \div 8) % 2 = 0 /\ (5 \div 4) % 2 = 1
          /\ (5 \div 2) % 2 = 0 /\ 5 % 2 = 1
      OBVIOUS
    <3>3. 62 \in Nat /\ 5 \in Nat
      OBVIOUS
    <3> QED
      BY <3>1, <3>2, <3>3, CodeOf5Bits
  <2>2. 67 = 62 + 5 /\ 67 <= Len(input)
    BY <1>15
  <2>3. Letter(101, 5, 5)
    BY Letters
  <2>4. 11 = 10 + 1 /\ 11 <= Len(text) /\ text[11] = 101
    BY <1>17
  <2> QED
    BY <1>28, <2>1, <2>2, <2>3, <2>4, NextLetter
<1>30. ReadTo(input, d, 73, text, 12)
  <2>1. CodeAt(input, 67, 23, 6)
    <3>1. /\ input[67 + 1] = 0 /\ input[67 + 2] = 1 /\ input[67 + 3] = 0 /\ input[67 + 4] = 1
          /\ input[67 + 5] = 1 /\ input[67 + 6] = 1
      BY <1>11, <1>12
    <3>2. /\ (23 \div 32) % 2 = 0 /\ (23 \div 16) % 2 = 1 /\ (23 \div 8) % 2 = 0
          /\ (23 \div 4) % 2 = 1 /\ (23 \div 2) % 2 = 1 /\ 23 % 2 = 1
      OBVIOUS
    <3>3. 67 \in Nat /\ 23 \in Nat
      OBVIOUS
    <3> QED
      BY <3>1, <3>2, <3>3, CodeOf6Bits
  <2>2. 73 = 67 + 6 /\ 73 <= Len(input)
    BY <1>15
  <2>3. Letter(46, 23, 6)
    BY Letters
  <2>4. 12 = 11 + 1 /\ 12 <= Len(text) /\ text[12] = 46
    BY <1>17
  <2> QED
    BY <1>29, <2>1, <2>2, <2>3, <2>4, NextLetter
<1>31. ReadTo(input, d, 78, text, 13)
  <2>1. CodeAt(input, 73, 4, 5)
    <3>1. /\ input[73 + 1] = 0 /\ input[73 + 2] = 0 /\ input[73 + 3] = 1 /\ input[73 + 4] = 0
          /\ input[73 + 5] = 0
      BY <1>12
    <3>2. /\ (4 \div 16) % 2 = 0 /\ (4 \div 8) % 2 = 0 /\ (4 \div 4) % 2 = 1
          /\ (4 \div 2) % 2 = 0 /\ 4 % 2 = 0
      OBVIOUS
    <3>3. 73 \in Nat /\ 4 \in Nat
      OBVIOUS
    <3> QED
      BY <3>1, <3>2, <3>3, CodeOf5Bits
  <2>2. 78 = 73 + 5 /\ 78 <= Len(input)
    BY <1>15
  <2>3. Letter(99, 4, 5)
    BY Letters
  <2>4. 13 = 12 + 1 /\ 13 <= Len(text) /\ text[13] = 99
    BY <1>17
  <2> QED
    BY <1>30, <2>1, <2>2, <2>3, <2>4, NextLetter
<1>32. ReadTo(input, d, 83, text, 14)
  <2>1. CodeAt(input, 78, 7, 5)
    <3>1. /\ input[78 + 1] = 0 /\ input[78 + 2] = 0 /\ input[78 + 3] = 1 /\ input[78 + 4] = 1
          /\ input[78 + 5] = 1
      BY <1>12, <1>13
    <3>2. /\ (7 \div 16) % 2 = 0 /\ (7 \div 8) % 2 = 0 /\ (7 \div 4) % 2 = 1
          /\ (7 \div 2) % 2 = 1 /\ 7 % 2 = 1
      OBVIOUS
    <3>3. 78 \in Nat /\ 7 \in Nat
      OBVIOUS
    <3> QED
      BY <3>1, <3>2, <3>3, CodeOf5Bits
  <2>2. 83 = 78 + 5 /\ 83 <= Len(input)
    BY <1>15
  <2>3. Letter(111, 7, 5)
    BY Letters
  <2>4. 14 = 13 + 1 /\ 14 <= Len(text) /\ text[14] = 111
    BY <1>17
  <2> QED
    BY <1>31, <2>1, <2>2, <2>3, <2>4, NextLetter
<1>33. ReadTo(input, d, 89, text, 15)
  <2>1. CodeAt(input, 83, 41, 6)
    <3>1. /\ input[83 + 1] = 1 /\ input[83 + 2] = 0 /\ input[83 + 3] = 1 /\ input[83 + 4] = 0
          /\ input[83 + 5] = 0 /\ input[83 + 6] = 1
      BY <1>13, <1>14
    <3>2. /\ (41 \div 32) % 2 = 1 /\ (41 \div 16) % 2 = 0 /\ (41 \div 8) % 2 = 1
          /\ (41 \div 4) % 2 = 0 /\ (41 \div 2) % 2 = 0 /\ 41 % 2 = 1
      OBVIOUS
    <3>3. 83 \in Nat /\ 41 \in Nat
      OBVIOUS
    <3> QED
      BY <3>1, <3>2, <3>3, CodeOf6Bits
  <2>2. 89 = 83 + 6 /\ 89 <= Len(input)
    BY <1>15
  <2>3. Letter(109, 41, 6)
    BY Letters
  <2>4. 15 = 14 + 1 /\ 15 <= Len(text) /\ text[15] = 109
    BY <1>17
  <2> QED
    BY <1>32, <2>1, <2>2, <2>3, <2>4, NextLetter
<1>34. d[96] = CodeBegun(TwoTo[7] - 1, 7, text)
  <2>1. PICK p \in Nat, k \in 0..30 : p = 89 /\ k = 7
    OBVIOUS
  <2>2. SubSeq(text, 1, 15) = text
    BY <1>17, SubSeqFull
  <2>3. text \in Seq(Nat) /\ d[p] = CodeBegun(0, 0, text)
    BY <1>33, <2>1, <2>2, OctetsAreNaturals DEF ReadTo
  <2>4. \A b \in 1..k : input[p + b] = 1
    BY <2>1, <1>14
  <2>5. p + k = 96 /\ p + k <= Len(input)
    BY <1>15, <2>1
  <2>6. d[p + k] = CodeBegun(TwoTo[k] - 1, k, text)
    <3>1. /\ input \in Seq(0..1) /\ DecoderRun(d, input) /\ p \in Nat /\ k \in 0..30
          /\ p + k <= Len(input) /\ text \in Seq(Nat) /\ d[p] = CodeBegun(0, 0, text)
      BY <1>15, <1>16, <2>3, <2>5
    <3> QED
      BY <2>4, <3>1, OnesAreRead, Zenon
  <2> QED
    BY <2>1, <2>5, <2>6
<1>35. HuffmanDecode(octets) = [ok |-> TRUE, read |-> text]
  <2>1. /\ d[96].ok = TRUE /\ d[96].code = TwoTo[7] - 1 /\ d[96].bits = 7
        /\ d[96].read = text
    BY <1>34 DEF CodeBegun
  <2>2. (TRUE /\ Padding(TwoTo[7] - 1, 7)) = TRUE
    BY DEF Padding
  <2>3. HuffmanDecode(octets) =
          [ok |-> d[96].ok /\ Padding(d[96].code, d[96].bits), read |-> d[96].read]
    BY <1>15, <1>16
  <2> QED
    BY <2>1, <2>2, <2>3, Zenon
<1> QED
  BY <1>1, <1>17, <1>35

LEMMA Private == HuffmanDecode(<<174, 195, 119, 26, 75>>)
                  = [ok |-> TRUE, read |-> <<112, 114, 105, 118, 97, 116, 101>>]
<1>1. PICK octets : octets = <<174, 195, 119, 26, 75>>
  OBVIOUS
<1>2. octets \in Seq(0..255) /\ Len(octets) = 5
  <2>1. <<174, 195, 119, 26, 75>> \in Seq(0..255)
    OBVIOUS
  <2> QED
    BY <1>1, <2>1
<1> DEFINE input == Bits(octets)
<1>3. /\ input[1] = 1 /\ input[2] = 0 /\ input[3] = 1 /\ input[4] = 0
      /\ input[5] = 1 /\ input[6] = 1 /\ input[7] = 1 /\ input[8] = 0
  <2>1. OctetAt(input, 0, 174)
    <3>1. 1 \in 1..Len(octets) /\ 0 = 8 * (1 - 1) /\ 174 \in Nat /\ 174 = octets[1]
      BY <1>1, <1>2
    <3> QED
      BY <1>2, <3>1, OctetsAt
  <2> HIDE DEF input
  <2> QED
    BY <2>1 DEF OctetAt
<1>4. /\ input[9] = 1 /\ input[10] = 1 /\ input[11] = 0 /\ input[12] = 0
      /\ input[13] = 0 /\ input[14] = 0 /\ input[15] = 1 /\ input[16] = 1
  <2>1. OctetAt(input, 8, 195)
    <3>1. 2 \in 1..Len(octets) /\ 8 = 8 * (2 - 1) /\ 195 \in Nat /\ 195 = octets[2]
      BY <1>1, <1>2
    <3> QED
      BY <1>2, <3>1, OctetsAt
  <2> HIDE DEF input
  <2> QED
    BY <2>1 DEF OctetAt
<1>5. /\ input[17] = 0 /\ input[18] = 1 /\ input[19] = 1 /\ input[20] = 1
      /\ input[21] = 0 /\ input[22] = 1 /\ input[23] = 1 /\ input[24] = 1
  <2>1. OctetAt(input, 16, 119)
    <3>1. 3 \in 1..Len(octets) /\ 16 = 8 * (3 - 1) /\ 119 \in Nat /\ 119 = octets[3]
      BY <1>1, <1>2
    <3> QED
      BY <1>2, <3>1, OctetsAt
  <2> HIDE DEF input
  <2> QED
    BY <2>1 DEF OctetAt
<1>6. /\ input[25] = 0 /\ input[26] = 0 /\ input[27] = 0 /\ input[28] = 1
      /\ input[29] = 1 /\ input[30] = 0 /\ input[31] = 1 /\ input[32] = 0
  <2>1. OctetAt(input, 24, 26)
    <3>1. 4 \in 1..Len(octets) /\ 24 = 8 * (4 - 1) /\ 26 \in Nat /\ 26 = octets[4]
      BY <1>1, <1>2
    <3> QED
      BY <1>2, <3>1, OctetsAt
  <2> HIDE DEF input
  <2> QED
    BY <2>1 DEF OctetAt
<1>7. /\ input[33] = 0 /\ input[34] = 1 /\ input[35] = 0 /\ input[36] = 0
      /\ input[37] = 1 /\ input[38] = 0 /\ input[39] = 1 /\ input[40] = 1
  <2>1. OctetAt(input, 32, 75)
    <3>1. 5 \in 1..Len(octets) /\ 32 = 8 * (5 - 1) /\ 75 \in Nat /\ 75 = octets[5]
      BY <1>1, <1>2
    <3> QED
      BY <1>2, <3>1, OctetsAt
  <2> HIDE DEF input
  <2> QED
    BY <2>1 DEF OctetAt
<1>8. input \in Seq(0..1) /\ Len(input) = 40
  <2>1. octets \in Seq(Nat)
    BY <1>2, OctetsAreNaturals
  <2>2. input \in Seq(0..1) /\ Len(input) = 8 * Len(octets)
    BY <2>1, BitsType
  <2> HIDE DEF input
  <2> QED
    BY <1>2, <2>2
<1>9. PICK d : /\ DecoderRun(d, input)
               /\ LET end == d[Len(input)]
                  IN  HuffmanDecode(octets) =
                        [ok |-> end.ok /\ Padding(end.code, end.bits), read |-> end.read]
  BY <1>2, OctetsAreNaturals, DecodedByStates
<1> HIDE DEF input
<1>10. PICK text \in Seq(0..255) : text = <<112, 114, 105, 118, 97, 116, 101>> /\ Len(text) = 7
  <2>1. <<112, 114, 105, 118, 97, 116, 101>> \in Seq(0..255)
    OBVIOUS
  <2> QED
    BY <2>1
<1>11. ReadTo(input, d, 0, text, 0)
  <2>1. d[0] = CodeBegun(0, 0, <<>>)
    BY <1>8, <1>9, DecodingSteps
  <2>2. SubSeq(text, 1, 0) = <<>> /\ 0 \in 0..Len(text)
    BY <1>10, SubSeqEmpty
  <2> QED
    BY <1>8, <1>9, <2>1, <2>2 DEF ReadTo
<1>12. ReadTo(input, d, 6, text, 1)
  <2>1. CodeAt(input, 0, 43, 6)
    <3>1. /\ input[0 + 1] = 1 /\ input[0 + 2] = 0 /\ input[0 + 3] = 1 /\ input[0 + 4] = 0
          /\ input[0 + 5] = 1 /\ input[0 + 6] = 1
      BY <1>3
    <3>2. /\ (43 \div 32) % 2 = 1 /\ (43 \div 16) % 2 = 0 /\ (43 \div 8) % 2 = 1
          /\ (43 \div 4) % 2 = 0 /\ (43 \div 2) % 2 = 1 /\ 43 % 2 = 1
      OBVIOUS
    <3>3. 0 \in Nat /\ 43 \in Nat
      OBVIOUS
    <3> QED
      BY <3>1, <3>2, <3>3, CodeOf6Bits
  <2>2. 6 = 0 + 6 /\ 6 <= Len(input)
    BY <1>8
  <2>3. Letter(112, 43, 6)
    BY Letters
  <2>4. 1 = 0 + 1 /\ 1 <= Len(text) /\ text[1] = 112
    BY <1>10
  <2> QED
    BY <1>11, <2>1, <2>2, <2>3, <2>4, NextLetter
<1>13. ReadTo(input, d, 12, text, 2)
  <2>1. CodeAt(input, 6, 44, 6)
    <3>1. /\ input[6 + 1] = 1 /\ input[6 + 2] = 0 /\ input[6 + 3] = 1 /\ input[6 + 4] = 1
          /\ input[6 + 5] = 0 /\ input[6 + 6] = 0
      BY <1>3, <1>4
    <3>2. /\ (44 \div 32) % 2 = 1 /\ (44 \div 16) % 2 = 0 /\ (44 \div 8) % 2 = 1
          /\ (44 \div 4) % 2 = 1 /\ (44 \div 2) % 2 = 0 /\ 44 % 2 = 0
      OBVIOUS
    <3>3. 6 \in Nat /\ 44 \in Nat
      OBVIOUS
    <3> QED
      BY <3>1, <3>2, <3>3, CodeOf6Bits
  <2>2. 12 = 6 + 6 /\ 12 <= Len(input)
    BY <1>8
  <2>3. Letter(114, 44, 6)
    BY Letters
  <2>4. 2 = 1 + 1 /\ 2 <= Len(text) /\ text[2] = 114
    BY <1>10
  <2> QED
    BY <1>12, <2>1, <2>2, <2>3, <2>4, NextLetter
<1>14. ReadTo(input, d, 17, text, 3)
  <2>1. CodeAt(input, 12, 6, 5)
    <3>1. /\ input[12 + 1] = 0 /\ input[12 + 2] = 0 /\ input[12 + 3] = 1 /\ input[12 + 4] = 1
          /\ input[12 + 5] = 0
      BY <1>4, <1>5
    <3>2. /\ (6 \div 16) % 2 = 0 /\ (6 \div 8) % 2 = 0 /\ (6 \div 4) % 2 = 1
          /\ (6 \div 2) % 2 = 1 /\ 6 % 2 = 0
      OBVIOUS
    <3>3. 12 \in Nat /\ 6 \in Nat
      OBVIOUS
    <3> QED
      BY <3>1, <3>2, <3>3, CodeOf5Bits
  <2>2. 17 = 12 + 5 /\ 17 <= Len(input)
    BY <1>8
  <2>3. Letter(105, 6, 5)
    BY Letters
  <2>4. 3 = 2 + 1 /\ 3 <= Len(text) /\ text[3] = 105
    BY <1>10
  <2> QED
    BY <1>13, <2>1, <2>2, <2>3, <2>4, NextLetter
<1>15. ReadTo(input, d, 24, text, 4)
  <2>1. CodeAt(input, 17, 119, 7)
    <3>1. /\ input[17 + 1] = 1 /\ input[17 + 2] = 1 /\ input[17 + 3] = 1 /\ input[17 + 4] = 0
          /\ input[17 + 5] = 1 /\ input[17 + 6] = 1 /\ input[17 + 7] = 1
      BY <1>5
    <3>2. /\ (119 \div 64) % 2 = 1 /\ (119 \div 32) % 2 = 1 /\ (119 \div 16) % 2 = 1
          /\ (119 \div 8) % 2 = 0 /\ (119 \div 4) % 2 = 1 /\ (119 \div 2) % 2 = 1 /\ 119 % 2 = 1
      OBVIOUS
    <3>3. 17 \in Nat /\ 119 \in Nat
      OBVIOUS
    <3> QED
      BY <3>1, <3>2, <3>3, CodeOf7Bits
  <2>2. 24 = 17 + 7 /\ 24 <= Len(input)
    BY <1>8
  <2>3. Letter(118, 119, 7)
    BY Letters
  <2>4. 4 = 3 + 1 /\ 4 <= Len(text) /\ text[4] = 118
    BY <1>10
  <2> QED
    BY <1>14, <2>1, <2>2, <2>3, <2>4, NextLetter
<1>16. ReadTo(input, d, 29, text, 5)
  <2>1. CodeAt(input, 24, 3, 5)
    <3>1. /\ input[24 + 1] = 0 /\ input[24 + 2] = 0 /\ input[24 + 3] = 0 /\ input[24 + 4] = 1
          /\ input[24 + 5] = 1
      BY <1>6
    <3>2. /\ (3 \div 16) % 2 = 0 /\ (3 \div 8) % 2 = 0 /\ (3 \div 4) % 2 = 0
          /\ (3 \div 2) % 2 = 1 /\ 3 % 2 = 1
      OBVIOUS
    <3>3. 24 \in Nat /\ 3 \in Nat
      OBVIOUS
    <3> QED
      BY <3>1, <3>2, <3>3, CodeOf5Bits
  <2>2. 29 = 24 + 5 /\ 29 <= Len(input)
    BY <1>8
  <2>3. Letter(97, 3, 5)
    BY Letters
  <2>4. 5 = 4 + 1 /\ 5 <= Len(text) /\ text[5] = 97
    BY <1>10
  <2> QED
    BY <1>15, <2>1, <2>2, <2>3, <2>4, NextLetter
<1>17. ReadTo(input, d, 34, text, 6)
  <2>1. CodeAt(input, 29, 9, 5)
    <3>1. /\ input[29 + 1] = 0 /\ input[29 + 2] = 1 /\ input[29 + 3] = 0 /\ input[29 + 4] = 0
          /\ input[29 + 5] = 1
      BY <1>6, <1>7
    <3>2. /\ (9 \div 16) % 2 = 0 /\ (9 \div 8) % 2 = 1 /\ (9 \div 4) % 2 = 0
          /\ (9 \div 2) % 2 = 0 /\ 9 % 2 = 1
      OBVIOUS
    <3>3. 29 \in Nat /\ 9 \in Nat
      OBVIOUS
    <3> QED
      BY <3>1, <3>2, <3>3, CodeOf5Bits
  <2>2. 34 = 29 + 5 /\ 34 <= Len(input)
    BY <1>8
  <2>3. Letter(116, 9, 5)
    BY Letters
  <2>4. 6 = 5 + 1 /\ 6 <= Len(text) /\ text[6] = 116
    BY <1>10
  <2> QED
    BY <1>16, <2>1, <2>2, <2>3, <2>4, NextLetter
<1>18. ReadTo(input, d, 39, text, 7)
  <2>1. CodeAt(input, 34, 5, 5)
    <3>1. /\ input[34 + 1] = 0 /\ input[34 + 2] = 0 /\ input[34 + 3] = 1 /\ input[34 + 4] = 0
          /\ input[34 + 5] = 1
      BY <1>7
    <3>2. /\ (5 \div 16) % 2 = 0 /\ (5 \div 8) % 2 = 0 /\ (5 \div 4) % 2 = 1
          /\ (5 \div 2) % 2 = 0 /\ 5 % 2 = 1
      OBVIOUS
    <3>3. 34 \in Nat /\ 5 \in Nat
      OBVIOUS
    <3> QED
      BY <3>1, <3>2, <3>3, CodeOf5Bits
  <2>2. 39 = 34 + 5 /\ 39 <= Len(input)
    BY <1>8
  <2>3. Letter(101, 5, 5)
    BY Letters
  <2>4. 7 = 6 + 1 /\ 7 <= Len(text) /\ text[7] = 101
    BY <1>10
  <2> QED
    BY <1>17, <2>1, <2>2, <2>3, <2>4, NextLetter
<1>19. d[40] = CodeBegun(TwoTo[1] - 1, 1, text)
  <2>1. PICK p \in Nat, k \in 0..30 : p = 39 /\ k = 1
    OBVIOUS
  <2>2. SubSeq(text, 1, 7) = text
    BY <1>10, SubSeqFull
  <2>3. text \in Seq(Nat) /\ d[p] = CodeBegun(0, 0, text)
    BY <1>18, <2>1, <2>2, OctetsAreNaturals DEF ReadTo
  <2>4. \A b \in 1..k : input[p + b] = 1
    BY <2>1, <1>7
  <2>5. p + k = 40 /\ p + k <= Len(input)
    BY <1>8, <2>1
  <2>6. d[p + k] = CodeBegun(TwoTo[k] - 1, k, text)
    <3>1. /\ input \in Seq(0..1) /\ DecoderRun(d, input) /\ p \in Nat /\ k \in 0..30
          /\ p + k <= Len(input) /\ text \in Seq(Nat) /\ d[p] = CodeBegun(0, 0, text)
      BY <1>8, <1>9, <2>3, <2>5
    <3> QED
      BY <2>4, <3>1, OnesAreRead, Zenon
  <2> QED
    BY <2>1, <2>5, <2>6
<1>20. HuffmanDecode(octets) = [ok |-> TRUE, read |-> text]
  <2>1. /\ d[40].ok = TRUE /\ d[40].code = TwoTo[1] - 1 /\ d[40].bits = 1
        /\ d[40].read = text
    BY <1>19 DEF CodeBegun
  <2>2. (TRUE /\ Padding(TwoTo[1] - 1, 1)) = TRUE
    BY DEF Padding
  <2>3. HuffmanDecode(octets) =
          [ok |-> d[40].ok /\ Padding(d[40].code, d[40].bits), read |-> d[40].read]
    BY <1>8, <1>9
  <2> QED
    BY <2>1, <2>2, <2>3, Zenon
<1> QED
  BY <1>1, <1>10, <1>20

\* What a peer writes is read back.
THEOREM StringsAreReadAsWritten == StringsReadAsWritten
<1>1. ASSUME NEW o \in OctetOfRow PROVE o \in 0..255
  <2>1. PICK r \in DOMAIN HuffmanRows : o = HuffmanRows[r].octets[Len(HuffmanRows[r].octets)]
    BY DEF OctetOfRow
  <2>2. r \in 1..21 /\ Len(HuffmanRows[r].octets) = RowCount[r] /\ RowCount[r] \in Nat \ {0}
    BY RowsAre, RowTypes
  <2>3. RowCount[r] \in 1..RowCount[r]
    BY <2>2
  <2> QED
    BY <2>1, <2>2, <2>3, RowOctets DEF HasOctets
<1>2. ASSUME NEW s \in ShortStrings PROVE s \in Seq(0..255) /\ Len(s) <= 4
  <2>1. CASE s \in {<<o>> : o \in 0..255}
    <3>1. PICK o \in 0..255 : s = <<o>>
      BY <2>1
    <3>2. <<o>> \in Seq(0..255) /\ Len(<<o>>) = 1
      OBVIOUS
    <3> QED
      BY <3>1, <3>2
  <2>2. CASE s \in {<<o, p>> : o \in OctetOfRow, p \in OctetOfRow}
    <3>1. PICK o \in OctetOfRow, p \in OctetOfRow : s = <<o, p>>
      BY <2>2
    <3>2. PICK x \in 0..255, y \in 0..255 : x = o /\ y = p
      BY <1>1
    <3>3. <<x, y>> \in Seq(0..255) /\ Len(<<x, y>>) = 2
      OBVIOUS
    <3> QED
      BY <3>1, <3>2, <3>3
  <2>3. CASE s \in LongCharacters
    <3>1. <<224, 160, 128>> \in Seq(0..255) /\ Len(<<224, 160, 128>>) <= 4
      OBVIOUS
    <3>2. <<239, 191, 191>> \in Seq(0..255) /\ Len(<<239, 191, 191>>) <= 4
      OBVIOUS
    <3>3. <<240, 144, 128, 128>> \in Seq(0..255) /\ Len(<<240, 144, 128, 128>>) <= 4
      OBVIOUS
    <3>4. <<244, 143, 191, 191>> \in Seq(0..255) /\ Len(<<244, 143, 191, 191>>) <= 4
      OBVIOUS
    <3>5. \/ s = <<224, 160, 128>> \/ s = <<239, 191, 191>>
          \/ s = <<240, 144, 128, 128>> \/ s = <<244, 143, 191, 191>>
      BY <2>3 DEF LongCharacters
    <3>6. CASE s = <<224, 160, 128>>
      BY <3>1, <3>6
    <3>7. CASE s = <<239, 191, 191>>
      BY <3>2, <3>7
    <3>8. CASE s = <<240, 144, 128, 128>>
      BY <3>3, <3>8
    <3>9. CASE s = <<244, 143, 191, 191>>
      BY <3>4, <3>9
    <3> QED
      BY <3>5, <3>6, <3>7, <3>8, <3>9
  <2> QED
    BY <2>1, <2>2, <2>3 DEF ShortStrings
<1>3. ASSUME NEW s \in ShortStrings, IsUtf8(s)
      PROVE  /\ DecodeString(EncodeString(s)) =
                  [ok |-> TRUE, read |-> s, used |-> Len(EncodeString(s))]
             /\ DecodeString(HuffmanString(s, <<>>)) =
                  [ok |-> TRUE, read |-> s, used |-> Len(HuffmanString(s, <<>>))]
  <2>1. PICK l \in Nat : l = Len(s) /\ l <= 4
    BY <1>2, LenProperties
  <2>2. Len(s) <= 126 /\ Len(s) <= 33
    BY <2>1
  <2> QED
    BY <1>2, <1>3, <2>2, ShortStringsReadBack, Zenon
<1>4. ASSUME NEW e \in RfcExamples PROVE HuffmanDecode(e[2]) = [ok |-> TRUE, read |-> e[1]]
  <2>1. CASE e = <<<<119, 119, 119, 46, 101, 120, 97, 109, 112, 108, 101, 46, 99, 111, 109>>,
                  <<241, 227, 194, 229, 242, 58, 107, 160, 171, 144, 244, 255>>>>
    <3>1. e[1] = <<119, 119, 119, 46, 101, 120, 97, 109, 112, 108, 101, 46, 99, 111, 109>>
          /\ e[2] = <<241, 227, 194, 229, 242, 58, 107, 160, 171, 144, 244, 255>>
      BY <2>1
    <3> QED
      BY <3>1, WwwExampleCom, Zenon
  <2>2. CASE e = <<<<112, 114, 105, 118, 97, 116, 101>>,
                  <<174, 195, 119, 26, 75>>>>
    <3>1. e[1] = <<112, 114, 105, 118, 97, 116, 101>>
          /\ e[2] = <<174, 195, 119, 26, 75>>
      BY <2>2
    <3> QED
      BY <3>1, Private, Zenon
  <2> QED
    BY <2>1, <2>2 DEF RfcExamples
<1> QED
  BY <1>3, <1>4, Zenon DEF StringsReadAsWritten
=============================================================================
