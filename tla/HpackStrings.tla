---------------------------- MODULE HpackStrings ----------------------------
(***************************************************************************)
(* The strings of HPACK as src/src/runtime.rs reads and writes them: a     *)
(* length, and the octets as they are or in the Huffman code of            *)
(* src/src/hpack_huffman_table.rs, filled up to an octet with ones.        *)
(***************************************************************************)
EXTENDS HpackIntegers

\* HPACK_HUFFMAN_CODES, by length: the octets of a row have consecutive codes.
HuffmanRows == <<
    [bits |-> 5, first |-> 0, octets |-> <<48, 49, 50, 97, 99, 101, 105, 111, 115, 116>>],
    [bits |-> 6, first |-> 20, octets |-> <<32, 37, 45, 46, 47, 51, 52, 53, 54, 55, 56, 57, 61,
        65, 95, 98, 100, 102, 103, 104, 108, 109, 110, 112, 114, 117>>],
    [bits |-> 7, first |-> 92, octets |-> <<58, 66, 67, 68, 69, 70, 71, 72, 73, 74, 75, 76, 77,
        78, 79, 80, 81, 82, 83, 84, 85, 86, 87, 89, 106, 107, 113, 118, 119, 120, 121, 122>>],
    [bits |-> 8, first |-> 248, octets |-> <<38, 42, 44, 59, 88, 90>>],
    [bits |-> 10, first |-> 1016, octets |-> <<33, 34, 40, 41, 63>>],
    [bits |-> 11, first |-> 2042, octets |-> <<39, 43, 124>>],
    [bits |-> 12, first |-> 4090, octets |-> <<35, 62>>],
    [bits |-> 13, first |-> 8184, octets |-> <<0, 36, 64, 91, 93, 126>>],
    [bits |-> 14, first |-> 16380, octets |-> <<94, 125>>],
    [bits |-> 15, first |-> 32764, octets |-> <<60, 96, 123>>],
    [bits |-> 19, first |-> 524272, octets |-> <<92, 195, 208>>],
    [bits |-> 20, first |-> 1048550, octets |-> <<128, 130, 131, 162, 184, 194, 224, 226>>],
    [bits |-> 21, first |-> 2097116, octets |-> <<153, 161, 167, 172, 176, 177, 179, 209, 216,
        217, 227, 229, 230>>],
    [bits |-> 22, first |-> 4194258, octets |-> <<129, 132, 133, 134, 136, 146, 154, 156, 160,
        163, 164, 169, 170, 173, 178, 181, 185, 186, 187, 189, 190, 196, 198, 228, 232, 233>>],
    [bits |-> 23, first |-> 8388568, octets |-> <<1, 135, 137, 138, 139, 140, 141, 143, 147,
        149, 150, 151, 152, 155, 157, 158, 165, 166, 168, 174, 175, 180, 182, 183, 188, 191,
        197, 231, 239>>],
    [bits |-> 24, first |-> 16777194, octets |-> <<9, 142, 144, 145, 148, 159, 171, 206, 215,
        225, 236, 237>>],
    [bits |-> 25, first |-> 33554412, octets |-> <<199, 207, 234, 235>>],
    [bits |-> 26, first |-> 67108832, octets |-> <<192, 193, 200, 201, 202, 205, 210, 213, 218,
        219, 238, 240, 242, 243, 255>>],
    [bits |-> 27, first |-> 134217694, octets |-> <<203, 204, 211, 212, 214, 221, 222, 223, 241,
        244, 245, 246, 247, 248, 250, 251, 252, 253, 254>>],
    [bits |-> 28, first |-> 268435426, octets |-> <<2, 3, 4, 5, 6, 7, 8, 11, 12, 14, 15, 16, 17,
        18, 19, 20, 21, 23, 24, 25, 26, 27, 28, 29, 30, 31, 127, 220, 249>>],
    [bits |-> 30, first |-> 1073741820, octets |-> <<10, 13, 22>>]
  >>

\* hpack_huffman_symbol: the octets that have a code of this length.
HuffmanSymbols(code, bits) ==
    {HuffmanRows[r].octets[code - HuffmanRows[r].first + 1] :
       r \in {q \in DOMAIN HuffmanRows :
                /\ HuffmanRows[q].bits = bits
                /\ code \in HuffmanRows[q].first..(HuffmanRows[q].first + Len(HuffmanRows[q].octets) - 1)}}

\* The bits of octets, the highest of each first.
Bits(octets) ==
    [i \in 1..(8 * Len(octets)) |-> (octets[(i + 7) \div 8] \div TwoTo[(8 - (i % 8)) % 8]) % 2]

LongestCode == 30

\* Faulty variant: the padding may be of any length.
PaddingOfAnyLength(code, bits) == bits <= LongestCode /\ code = TwoTo[bits] - 1

\* What may be left behind the last symbol: less than an octet, all ones.
Padding(code, bits) == bits <= 7 /\ code = TwoTo[bits] - 1

\* The decoder goes on, with a code of so many bits begun.
CodeBegun(code, bits, read) == [ok |-> TRUE, code |-> code, bits |-> bits, read |-> read]

\* One bit more: it completes a symbol, or the code goes on if it may.
ReadBit(before, bit) ==
    LET code == 2 * before.code + bit
        bits == before.bits + 1
        symbols == HuffmanSymbols(code, bits)
    IN  IF ~before.ok THEN before
        ELSE IF symbols # {}
          THEN CodeBegun(0, 0, Append(before.read, CHOOSE s \in symbols : TRUE))
        ELSE [before EXCEPT !.ok = bits <= LongestCode, !.code = code, !.bits = bits]

\* hpack_huffman_decode, bit by bit.  The code that ends a string (EOS) is not
\* in the table: it is refused for its length, in the middle or as padding.
HuffmanDecode(octets) ==
    LET input == Bits(octets)
        after[i \in 0..Len(input)] ==
          IF i = 0 THEN CodeBegun(0, 0, <<>>) ELSE ReadBit(after[i - 1], input[i])
        end == after[Len(input)]
    IN  [ok |-> end.ok /\ Padding(end.code, end.bits), read |-> end.read]

\* The characters of UTF-8, by the octets that each may have: none is longer than
\* it must be, a surrogate or beyond the last.
Utf8Characters ==
    LET next == 128..191
    IN  {<<0..127>>, <<194..223, next>>,
         <<{224}, 160..191, next>>, <<(225..239) \ {237}, next, next>>, <<{237}, 128..159, next>>,
         <<{240}, 144..191, next, next>>, <<241..243, next, next, next>>,
         <<{244}, 128..143, next, next>>}

\* String::from_utf8: one character after the other.
IsUtf8(octets) ==
    LET upTo[i \in 0..Len(octets)] ==
          \/ i = 0
          \/ \E c \in Utf8Characters :
               /\ Len(c) <= i
               /\ \A j \in DOMAIN c : octets[i - Len(c) + j] \in c[j]
               /\ upTo[i - Len(c)]
    IN  upTo[Len(octets)]

\* hpack_decode_string at the start of a block: the string and the octets used.
DecodeString(block) ==
    LET int == DecodeInt(7, [i \in DOMAIN block |-> IF i = 1 THEN block[1] % 128 ELSE block[i]])
        raw == SubSeq(block, int.used + 1, int.used + int.value)
        decoded == IF block[1] < 128 THEN [ok |-> TRUE, read |-> raw] ELSE HuffmanDecode(raw)
    IN  IF block = <<>> \/ ~int.ok THEN [ok |-> FALSE]
        ELSE IF int.used + int.value > Len(block) \/ ~decoded.ok \/ ~IsUtf8(decoded.read)
          THEN [ok |-> FALSE]
        ELSE [ok |-> TRUE, read |-> decoded.read, used |-> int.used + int.value]

\* hpack_encode_string: the server never uses the Huffman code itself.
EncodeString(octets) == EncodeInt(7, Len(octets)) \o octets

----------------------------------------------------------------------------
(* The peer's encoder: codes one after the other, then ones.               *)

HuffmanCode[o \in 0..255] ==
    LET r == CHOOSE q \in DOMAIN HuffmanRows : \E i \in DOMAIN HuffmanRows[q].octets :
                                                  HuffmanRows[q].octets[i] = o
        i == CHOOSE j \in DOMAIN HuffmanRows[r].octets : HuffmanRows[r].octets[j] = o
        code == HuffmanRows[r].first + i - 1
        bits == HuffmanRows[r].bits
    IN  [b \in 1..bits |-> (code \div TwoTo[bits - b]) % 2]

HuffmanBits(octets) ==
    LET bits[i \in 0..Len(octets)] ==
          IF i = 0 THEN <<>> ELSE bits[i - 1] \o HuffmanCode[octets[i]]
    IN  bits[Len(octets)]

\* padding: the bits behind the last code, some of which fill up the last octet.
HuffmanEncode(octets, padding) ==
    LET code == HuffmanBits(octets) \o padding
        bit(i) == IF i <= Len(code) THEN code[i] ELSE 1
    IN  [o \in 1..((Len(code) + 7) \div 8) |->
           CHOOSE octet \in 0..255 :
             \A b \in 1..8 : (octet \div TwoTo[8 - b]) % 2 = bit(8 * (o - 1) + b)]

HuffmanString(octets, padding) ==
    LET code == HuffmanEncode(octets, padding)
    IN  <<128 + Len(code)>> \o code

\* The rows are those of a canonical code: codes of one length follow each other
\* in the order of their octets, the next length goes on where they stop, and
\* nothing but EOS, of 30 ones, is missing at the end.
HuffmanCanonical ==
    LET octets(r) == HuffmanRows[r].octets
        behind(r) == HuffmanRows[r].first + Len(octets(r))
        end == Len(HuffmanRows)
    IN  /\ HuffmanRows[1].first = 0
        /\ \A r \in 1..(end - 1) :
             HuffmanRows[r + 1].first = behind(r) * TwoTo[HuffmanRows[r + 1].bits - HuffmanRows[r].bits]
        /\ HuffmanRows[end].bits = LongestCode /\ behind(end) = TwoTo[LongestCode] - 1
        /\ \A r \in DOMAIN HuffmanRows : \A i \in 2..Len(octets(r)) : octets(r)[i - 1] < octets(r)[i]

\* Examples of RFC 7541 (C.4.1, C.6.1), "www.example.com" and "private".
RfcExamples ==
    {<<<<119, 119, 119, 46, 101, 120, 97, 109, 112, 108, 101, 46, 99, 111, 109>>,
       <<241, 227, 194, 229, 242, 58, 107, 160, 171, 144, 244, 255>>>>,
     <<<<112, 114, 105, 118, 97, 116, 101>>, <<174, 195, 119, 26, 75>>>>}

\* Strings of one and two octets, with those of each code length, and characters of
\* three and four octets, the first and the last of their length.
OctetOfRow == {HuffmanRows[r].octets[Len(HuffmanRows[r].octets)] : r \in DOMAIN HuffmanRows}
LongCharacters == {<<224, 160, 128>>, <<239, 191, 191>>, <<240, 144, 128, 128>>, <<244, 143, 191, 191>>}
ShortStrings ==
    {<<o>> : o \in 0..255} \cup {<<o, p>> : o \in OctetOfRow, p \in OctetOfRow} \cup LongCharacters

\* What a peer writes is read back, in the code or not; a string whose padding
\* holds a zero or is an octet or more is refused.
StringsReadAsWritten ==
    /\ \A s \in ShortStrings : IsUtf8(s) =>
         LET plain == EncodeString(s)
             coded == HuffmanString(s, <<>>)
         IN  /\ DecodeString(plain) = [ok |-> TRUE, read |-> s, used |-> Len(plain)]
             /\ DecodeString(coded) = [ok |-> TRUE, read |-> s, used |-> Len(coded)]
    /\ \A e \in RfcExamples : HuffmanDecode(e[2]) = [ok |-> TRUE, read |-> e[1]]
PaddingRefused ==
    \A o \in OctetOfRow :
      /\ ~HuffmanDecode(HuffmanEncode(<<o>>, <<1, 1, 1, 1, 1, 1, 1, 1>>)).ok
      /\ HuffmanDecode(HuffmanEncode(<<o>>, <<0>>)) # [ok |-> TRUE, read |-> <<o>>]
=============================================================================
