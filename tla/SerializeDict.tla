--------------------------- MODULE SerializeDict ---------------------------
(***************************************************************************)
(* The dictionary of the items that a collection mints at once             *)
(* (SerializeDict.cs, called by NftController.BatchMint), beside the TON   *)
(* library's dictionary (tonlib/ton/crypto/vm/dict.cpp), which the         *)
(* contract reads it with and which the program uses for the contents of   *)
(* jettons.                                                                *)
(*                                                                         *)
(* A cell is its label's bits, its references and the item it holds; what  *)
(* the serializer writes for an item is left out.  The functions of the    *)
(* sources that call themselves are recursive functions of the bits that   *)
(* keys still have.                                                        *)
(***************************************************************************)
EXTENDS Naturals, Sequences, FiniteSets, SequencesExt

CONSTANTS
  KeyLength, \* bits of a key: 64
  Items      \* what a batch can hold

NoItem == "no item"

ASSUME KeyLengthAssumption == KeyLength \in Nat \ {0}
ASSUME ItemsAssumption == NoItem \notin Items

Bits == {0, 1}
Keys(n) == [1..n -> Bits]
Labels(n) == UNION {Keys(k) : k \in 0..n}

\* The keys that have an item; the dictionaries with keys of n bits, one at least.
KeysOf(d) == {k \in DOMAIN d : d[k] # NoItem}
Dicts(n) == {d \in [Keys(n) -> Items \cup {NoItem}] : KeysOf(d) # {}}

Cell(bits, refs, item) == [bits |-> bits, refs |-> refs, item |-> item]
NoCell == Cell(<< >>, << >>, NoItem)

\* The cells with at most n forks one below the other.
Trees[n \in 0..KeyLength] ==
  [bits : Seq(Bits),
   refs : {<< >>} \cup (IF n = 0 THEN {} ELSE Trees[n - 1] \X Trees[n - 1]),
   item : Items \cup {NoItem}]

Power2[k \in 0..KeyLength] == IF k = 0 THEN 1 ELSE 2 * Power2[k - 1]

\* v in w bits, the highest one first; and the number that bits stand for.
Binary(v, w) == [i \in 1..w |-> (v \div Power2[w - i]) % 2]
Number(bits) ==
  LET value[i \in 0..Len(bits)] == IF i = 0 THEN 0 ELSE 2 * value[i - 1] + bits[i]
  IN value[Len(bits)]

Indexes == 0..(Power2[KeyLength] - 1)

IsSame(s) == \A i \in 1..Len(s) : s[i] = s[1]
Repeat(b, n) == [i \in 1..n |-> b]
After(s, n) == SubSeq(s, n + 1, Len(s))

-----------------------------------------------------------------------------
(* SerializeDict.cs *)

\* Mutant of LengthBits: a label may be one bit shorter than the key.
LengthBitsShort(n) == CHOOSE k \in 0..n : Power2[k] >= n /\ \A i \in 0..n : Power2[i] >= n => k <= i

\* Ceiling(Log(n + 1, 2)).
LengthBits(n) ==
  CHOOSE k \in 0..n : Power2[k] >= n + 1 /\ \A i \in 0..n : Power2[i] >= n + 1 => k <= i

LabelShort(s) == <<0>> \o Repeat(1, Len(s)) \o <<0>> \o s
LabelLong(s, n) == <<1, 0>> \o Binary(Len(s), LengthBits(n)) \o s
LabelSame(s, n) == <<1, 1, s[1]>> \o Binary(Len(s), LengthBits(n))
LabelSameLength(n) == 3 + LengthBits(n)

\* The label s of an edge below which keys have n bits, in the shortest form.
WriteLabel(s, n) ==
  LET short == LabelShort(s)
      best == IF Len(LabelLong(s, n)) < Len(short) THEN LabelLong(s, n) ELSE short
  IN IF IsSame(s) /\ LabelSameLength(n) < Len(best) THEN LabelSame(s, n) ELSE best

\* The part of d below the prefix p, where keys have n bits (RemovePrefixMap, ForkMap).
Below(d, p, n) == [s \in Keys(n) |-> d[p \o s]]

\* Mutant of Edge: the right branch comes first.
EdgeSwapped(edge, d, n) ==
  LET label == LongestCommonPrefix(KeysOf(d))
      m == n - Len(label) - 1
      Child(b) == edge[m][Below(d, Append(label, b), m)]
  IN IF Cardinality(KeysOf(d)) = 1
       THEN Cell(WriteLabel(label, n), << >>, d[label])
       ELSE Cell(WriteLabel(label, n), <<Child(1), Child(0)>>, NoItem)

\* The edge to the keys of d, all of n bits (BuildEdge and WriteEdge).
Edge(edge, d, n) ==
  LET label == LongestCommonPrefix(KeysOf(d))
      m == n - Len(label) - 1
      Child(b) == edge[m][Below(d, Append(label, b), m)]
  IN IF Cardinality(KeysOf(d)) = 1
       THEN Cell(WriteLabel(label, n), << >>, d[label])
       ELSE Cell(WriteLabel(label, n), <<Child(0), Child(1)>>, NoItem)

WriteEdge[n \in 0..KeyLength] == [d \in Dicts(n) |-> Edge(WriteEdge, d, n)]

\* The indexes as keys, padded with zeros.
Converted(d) ==
  LET padded == {Binary(i, KeyLength) : i \in KeysOf(d)}
  IN [k \in Keys(KeyLength) |-> IF k \in padded THEN d[Number(k)] ELSE NoItem]

Serialize(d) == WriteEdge[KeyLength][Converted(d)]

-----------------------------------------------------------------------------
(* dict.cpp *)

\* 32 - count_leading_zeroes32(n).
BitWidth(n) == CHOOSE k \in 0..n : Power2[k] > n /\ (k > 0 => Power2[k - 1] <= n)

append_dict_label(s, n) ==
  LET k == BitWidth(n)
      same == Len(s) > 1 /\ IsSame(s) /\ k < 2 * Len(s) - 1
  IN CASE same -> <<1, 1, s[1]>> \o Binary(Len(s), k)
       [] ~same /\ k < Len(s) -> <<1, 0>> \o Binary(Len(s), k) \o s
       [] OTHER -> <<0>> \o Repeat(1, Len(s)) \o <<0>> \o s

\* The label that a cell's bits stand for.
parse_label(bits, n) ==
  LET k == BitWidth(n)
      ones == CHOOSE c \in 0..n : bits[c + 2] = 0 /\ \A i \in 1..c : bits[i + 1] = 1
  IN CASE bits[1] = 0 -> SubSeq(bits, ones + 3, 2 * ones + 2)
       [] bits[1] = 1 /\ bits[2] = 0 -> SubSeq(bits, k + 3, k + 2 + Number(SubSeq(bits, 3, k + 2)))
       [] OTHER -> Repeat(bits[3], Number(SubSeq(bits, 4, k + 3)))

\* The cells that have a label when keys have n bits (LabelParser::is_valid).
Labelled(n) == {cell \in Trees[n] : parse_label(cell.bits, n) \in Labels(n)}

\* One turn of lookup's loop.
Find(find, cell, key) ==
  LET label == parse_label(cell.bits, Len(key))
      rest == After(key, Len(label))
  IN CASE ~IsPrefix(label, key) -> NoItem
       [] label = key -> cell.item
       [] OTHER -> find[Len(rest) - 1][cell.refs[rest[1] + 1]][Tail(rest)]

lookup[n \in 0..KeyLength] == [cell \in Labelled(n) |-> [key \in Keys(n) |-> Find(lookup, cell, key)]]

\* The dictionary with one more item: the first; on a new fork inside the edge;
\* in the place of the old one; or further down.
Set(set, cell, key, item) ==
  LET n == Len(key)
      label == parse_label(cell.bits, n)
      p == Len(LongestCommonPrefix({label, key}))
      m == n - p - 1
      new == Cell(append_dict_label(After(key, p + 1), m), << >>, item)
      old == [cell EXCEPT !.bits = append_dict_label(After(label, p + 1), m)]
  IN CASE cell = NoCell -> Cell(append_dict_label(key, n), << >>, item)
       [] cell # NoCell /\ p < Len(label) ->
            Cell(append_dict_label(SubSeq(key, 1, p), n),
                 IF key[p + 1] = 1 THEN <<old, new>> ELSE <<new, old>>, NoItem)
       [] cell # NoCell /\ label = key -> [cell EXCEPT !.item = item]
       [] OTHER ->
            [cell EXCEPT !.refs[key[p + 1] + 1] = set[m][@][After(key, p + 1)][item]]

dict_set[n \in 0..KeyLength] ==
  [cell \in Labelled(n) \cup {NoCell} |->
    [key \in Keys(n) |-> [item \in Items |-> Set(dict_set, cell, key, item)]]]
=============================================================================
