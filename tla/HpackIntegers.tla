--------------------------- MODULE HpackIntegers ---------------------------
(***************************************************************************)
(* The integers of HPACK as src/src/runtime.rs writes and reads them: a    *)
(* prefix in the low bits of the first octet, then groups of bits from the *)
(* lowest, each but the last with its continuation bit.  The width of the  *)
(* machine integer and of a group are constants, so that every value and   *)
(* every octet can be tried on a scaled instance (the code has 32, 7, 28). *)
(***************************************************************************)
EXTENDS Naturals, Sequences

CONSTANTS
    Width,      \* bits of the machine integer
    GroupBits,  \* bits of a continuation octet, its continuation bit apart
    LastShift   \* the largest shift that is accepted

ASSUME WidthAssumption ==
    /\ Width \in Nat /\ GroupBits \in Nat \ {0}
    /\ LastShift \in 0..(Width - 1) /\ LastShift + GroupBits >= Width
    /\ LastShift % GroupBits = 0

\* Powers of two, as a function that can be proved about.
TwoTo[n \in Nat] == IF n = 0 THEN 1 ELSE 2 * TwoTo[n - 1]

MaxInt == TwoTo[Width] - 1
Radix == TwoTo[GroupBits]    \* an octet of this value or more is continued

\* The octets after the prefix for what is left of a value.
Groups[n \in 0..MaxInt] ==
    IF n < Radix THEN <<n>> ELSE <<Radix + (n % Radix)>> \o Groups[n \div Radix]

\* hpack_encode_int, without the flags above the prefix.
EncodeInt(prefixBits, value) ==
    LET full == TwoTo[prefixBits] - 1
    IN  IF value < full THEN <<value>> ELSE <<full>> \o Groups[value - full]

Saturated(n) == IF n > MaxInt THEN MaxInt ELSE n

\* Faulty variant: every group is shifted by one octet and not by one group.
GroupValueByOctets(octets, i) == ((octets[i] % Radix) * TwoTo[(i - 2) * (GroupBits + 1)]) % TwoTo[Width]

\* What octet i adds, shifted within the width: bits shifted out are lost.
GroupValue(octets, i) == ((octets[i] % Radix) * TwoTo[(i - 2) * GroupBits]) % TwoTo[Width]

\* hpack_decode_int.  Sums saturate.  It ends at the first octet that is not
\* continued and fails if there is none up to the last shift.
DecodeInt(prefixBits, octets) ==
    LET full == TwoTo[prefixBits] - 1
        sum[i \in 1..Len(octets)] ==
          IF i = 1 THEN full ELSE Saturated(sum[i - 1] + GroupValue(octets, i))
        ends == {i \in 2..Len(octets) : octets[i] < Radix /\ (i - 2) * GroupBits <= LastShift}
        end == CHOOSE i \in ends : \A j \in ends : i <= j
    IN  IF octets = <<>> THEN [ok |-> FALSE]
        ELSE IF octets[1] < full THEN [ok |-> TRUE, value |-> octets[1], used |-> 1]
        ELSE IF ends = {} THEN [ok |-> FALSE]
        ELSE [ok |-> TRUE, value |-> sum[end], used |-> end]

----------------------------------------------------------------------------
(* What the octets after a full prefix say, whatever the width.            *)

Meaning(prefixBits, octets) ==
    LET sum[i \in 1..Len(octets)] ==
          IF i = 1 THEN TwoTo[prefixBits] - 1
          ELSE sum[i - 1] + (octets[i] % Radix) * TwoTo[(i - 2) * GroupBits]
    IN  sum[Len(octets)]

\* Strings of n continued octets and one that ends them.
Continued(n) == {s \in [1..(n + 1) -> 0..(2 * Radix - 1)] :
                   s[n + 1] < Radix /\ \A i \in 1..n : s[i] >= Radix}

\* All that is written is read back, with its octets; and octets up to the last
\* shift, minimal or not, that say an integer of the width are read as that.
ReadAsWritten(prefixBits) ==
    \A v \in 0..MaxInt :
      LET octets == EncodeInt(prefixBits, v)
      IN  DecodeInt(prefixBits, octets) = [ok |-> TRUE, value |-> v, used |-> Len(octets)]
ReadAsMeant(prefixBits) ==
    \A n \in 0..(LastShift \div GroupBits) : \A rest \in Continued(n) :
      LET octets == <<TwoTo[prefixBits] - 1>> \o rest
          meant == Meaning(prefixBits, octets)
      IN  meant <= MaxInt
            => DecodeInt(prefixBits, octets) = [ok |-> TRUE, value |-> meant, used |-> n + 2]
=============================================================================
