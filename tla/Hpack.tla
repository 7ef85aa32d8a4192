------------------------------- MODULE Hpack -------------------------------
(***************************************************************************)
(* HPACK as HpackDecoder (src/src/runtime.rs) decodes it: header blocks    *)
(* are sequences of representations, a field is a name and a value, and    *)
(* the dynamic table is kept under a size.  The integers in which indexes  *)
(* and lengths are written are in HpackIntegers, the strings in            *)
(* HpackStrings; here an index is a number and a string is a value.        *)
(***************************************************************************)
EXTENDS Naturals, Sequences

CONSTANTS
    StaticTable,    \* the fields of the static table (61 of them in the code)
    Names, Values,  \* header names and values
    Octets,         \* length of each name and value
    Overhead        \* added to the size of an entry (32 in the code)

Field == [name : Names, value : Values]

ASSUME StaticAssumption == StaticTable \in Seq(Field)
ASSUME SizesAssumption == Octets \in [Names \cup Values -> Nat] /\ Overhead \in Nat \ {0}

\* A representation: a field of the tables, a field with its name from the
\* tables (index) or with a name of its own (index 0), added to the dynamic
\* table or not, or a new size for that table.
Indexed(i) == [kind |-> "indexed", index |-> i]
Literal(i, field, added) ==
    [kind |-> "literal", index |-> i, name |-> field.name, value |-> field.value, add |-> added]
Resize(n) == [kind |-> "resize", size |-> n]
Representation(largest) ==
    [kind : {"indexed"}, index : Nat]
      \cup [kind : {"literal"}, index : Nat, name : Names, value : Values, add : BOOLEAN]
      \cup [kind : {"resize"}, size : 0..largest]

Size(field) == Octets[field.name] + Octets[field.value] + Overhead
SizeOf(fields) ==
    LET sum[i \in 0..Len(fields)] == IF i = 0 THEN 0 ELSE sum[i - 1] + Size(fields[i])
    IN  sum[Len(fields)]

----------------------------------------------------------------------------
(* The decoder's table: the dynamic entries, newest first, the size that   *)
(* it has counted for them and the size allowed.                           *)

EmptyTable(n) == [dynamic |-> <<>>, size |-> 0, max |-> n]

\* The only member of a set.  Looping over sets of one makes TLC evaluate what
\* the loop has so far once in each turn.
Only(S) == CHOOSE x \in S : TRUE

\* One turn of the loop of evict: the oldest entry goes if the counted size is
\* too large; a table that is empty counts zero.
Evicted(table) ==
    IF table.size <= table.max THEN table
    ELSE IF table.dynamic = <<>> THEN [table EXCEPT !.size = 0]
    ELSE LET last == Len(table.dynamic)
             dropped == Size(table.dynamic[last])
         IN  [dynamic |-> SubSeq(table.dynamic, 1, last - 1),
              size |-> IF dropped < table.size THEN table.size - dropped ELSE 0,
              max |-> table.max]

\* It turns until the size fits, once per entry and once more at most.
Evict(table) ==
    LET turns == Len(table.dynamic) + 1
        after[i \in 0..turns] == IF i = 0 THEN table ELSE Only({Evicted(t) : t \in {after[i - 1]}})
    IN  after[turns]

Longer(table, field) ==
    [dynamic |-> <<field>> \o table.dynamic, size |-> table.size + Size(field),
     max |-> table.max]

\* Faulty variant: an entry that is too large leaves the table alone.
AddFitting(table, field) ==
    IF Size(field) > table.max THEN table ELSE Evict(Longer(table, field))

\* An entry larger than the table empties it.
Add(table, field) ==
    IF Size(field) > table.max THEN EmptyTable(table.max) ELSE Evict(Longer(table, field))

UpdateSize(table, n) == Evict([table EXCEPT !.max = n])

\* Index 0 and an index behind the last entry are errors.
Known(table, i) == i \in 1..(Len(StaticTable) + Len(table.dynamic))
Entry(table, i) ==
    IF i <= Len(StaticTable) THEN StaticTable[i] ELSE table.dynamic[i - Len(StaticTable)]

\* What one representation does to a decoding: the table, the headers so far,
\* and whether all was well.  The name is looked up before the field is added.
DecodeNext(decoding, item) ==
    LET table == decoding.table
        With(field, added) ==
          [table |-> IF added THEN Add(table, field) ELSE table,
           headers |-> Append(decoding.headers, field), ok |-> TRUE]
    IN  IF ~decoding.ok THEN decoding
        ELSE IF item.kind = "resize" THEN [decoding EXCEPT !.table = UpdateSize(table, item.size)]
        ELSE IF item.kind = "literal" /\ item.index = 0
          THEN With([name |-> item.name, value |-> item.value], item.add)
        ELSE IF ~Known(table, item.index) THEN [decoding EXCEPT !.ok = FALSE]
        ELSE IF item.kind = "indexed" THEN With(Entry(table, item.index), FALSE)
        ELSE With([name |-> Entry(table, item.index).name, value |-> item.value], item.add)

\* A block is decoded from left to right.
Decode(table, block) ==
    LET after[i \in 0..Len(block)] ==
          IF i = 0 THEN [table |-> table, headers |-> <<>>, ok |-> TRUE]
          ELSE Only({DecodeNext(d, block[i]) : d \in {after[i - 1]}})
    IN  after[Len(block)]

----------------------------------------------------------------------------
(* The encoder of a peer, after RFC 7541: its table always holds the most  *)
(* recent entries that fit.                                                *)

LongestFitting(fields, n) ==
    LET fitting == {k \in 0..Len(fields) : SizeOf(SubSeq(fields, 1, k)) <= n}
    IN  SubSeq(fields, 1, CHOOSE k \in fitting : \A m \in fitting : m <= k)

EmptyEncoder(n) == [dynamic |-> <<>>, max |-> n]
EncoderAdd(encoder, field) ==
    [encoder EXCEPT !.dynamic = LongestFitting(<<field>> \o @, encoder.max)]
EncoderResize(encoder, n) ==
    [dynamic |-> LongestFitting(encoder.dynamic, n), max |-> n]

\* The ways to write a field, with the encoder's table after each.
Encodings(encoder, field) ==
    LET all == StaticTable \o encoder.dynamic
        named == {0} \cup {i \in DOMAIN all : all[i].name = field.name}
    IN  {[item |-> Indexed(i), encoder |-> encoder] : i \in {j \in DOMAIN all : all[j] = field}}
        \cup {[item |-> Literal(i, field, FALSE), encoder |-> encoder] : i \in named}
        \cup {[item |-> Literal(i, field, TRUE), encoder |-> EncoderAdd(encoder, field)] :
                i \in named}

\* The header blocks that say a list of fields.
Blocks(encoder, fields) ==
    LET written[i \in 0..Len(fields)] ==
          IF i = 0 THEN {[block |-> <<>>, encoder |-> encoder]}
          ELSE UNION {{[block |-> Append(w.block, e.item), encoder |-> e.encoder] :
                         e \in Encodings(w.encoder, fields[i])} : w \in written[i - 1]}
    IN  written[Len(fields)]
=============================================================================
