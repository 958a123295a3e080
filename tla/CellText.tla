------------------------------ MODULE CellText ------------------------------
(***************************************************************************)
(* Texts in cells: how the contents of tokens are written into a chain of  *)
(* cells (CellBuilder.StoreBuffer, NftController.BatchMint) and read from  *)
(* it again (JettonController.LoadText, Slice.LoadString).                 *)
(*                                                                         *)
(* A text is the widths of its characters in UTF-8; a byte is a character, *)
(* the byte's place in it and the character's width.  A chain is the       *)
(* sequence of the bytes of its cells, the root first.                     *)
(***************************************************************************)
EXTENDS Naturals, Sequences, SequencesExt

CONSTANT CellBytes \* CELL_MAX_SIZE_BYTES: 127

ASSUME CellBytesAssumption == CellBytes \in Nat \ {0}

\* Encoding.UTF8.GetBytes.
GetBytes(t) == FlattenSeq([c \in 1..Len(t) |-> [n \in 1..t[c] |-> <<c, n, t[c]>>]])

\* DataFormat.SNAKE.
Snake == <<0, 1, 1>>

\* The native builder stores bytes that still fit and else nothing; the result
\* of CellBuilderStoreBytes is not looked at.
Store(cell, bytes) == IF 8 * Len(cell \o bytes) <= 8 * CellBytes + 7 THEN cell \o bytes ELSE cell

\* Mutant of StoreBuffer: every cell takes as much as the last one.
StoreBufferSize(bytes, prefix) ==
  LET last == Len(bytes) \div CellBytes
      Part(i) == SubSeq(bytes, i * CellBytes + 1, i * CellBytes + (Len(bytes) % CellBytes))
  IN [i \in 1..(last + 1) |-> Store(IF i = 1 THEN prefix ELSE << >>, Part(i - 1))]

\* StoreBuffer: full cells, and in the last one what remains, which may be nothing.
StoreBuffer(bytes, prefix) ==
  LET last == Len(bytes) \div CellBytes
      Part(i) == SubSeq(bytes, i * CellBytes + 1,
                        IF i < last THEN (i + 1) * CellBytes ELSE Len(bytes))
  IN [i \in 1..(last + 1) |-> Store(IF i = 1 THEN prefix ELSE << >>, Part(i - 1))]

Unreadable == 0

\* Encoding.UTF8.GetString: a character where its first byte is; the bytes of a
\* character that is not whole are unreadable.
GetString(bytes) ==
  LET Whole(b) == \A n \in 1..b[3] : Contains(bytes, <<b[1], n, b[3]>>)
      Shown(b) == IF ~Whole(b) THEN <<Unreadable>> ELSE IF b[2] = 1 THEN <<b[1]>> ELSE << >>
  IN FlattenSeq([i \in 1..Len(bytes) |-> Shown(bytes[i])])

\* Slice.LoadString: every cell's bytes are decoded by themselves.
LoadString(chain) == FlattenSeq([i \in 1..Len(chain) |-> GetString(chain[i])])

LoadText(chain) == LoadString([chain EXCEPT ![1] = Tail(@)])
=============================================================================
