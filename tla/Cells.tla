------------------------------- MODULE Cells -------------------------------
(***************************************************************************)
(* What the token forms write into cells, and what is read from them: a    *)
(* batch of items under their indexes (SerializeDict), and the texts of    *)
(* jettons and items (CellText).                                           *)
(***************************************************************************)
EXTENDS SerializeDict, CellText

CONSTANTS
  MaxItems, \* bound: items in a batch
  MaxBytes  \* bound: the length of a text

ASSUME BoundsAssumption == MaxItems \in Nat /\ MaxBytes \in Nat

\* A jetton's description, an item's content, and that of an item of a batch.
Kinds == {"jetton", "item", "batch"}

Texts == {t \in SeqOf(1..4, MaxBytes) : Len(GetBytes(t)) \in 1..MaxBytes}

VARIABLES
  dict,   \* Dict: the item of a batch under each index
  native, \* the same items, set one by one in the library's dictionary
  kind,   \* what a text is for
  text,   \* what the user has entered
  cells,  \* what the contract holds
  shown   \* what the program reads

batchVars == <<dict, native>>
textVars == <<kind, text, cells, shown>>
vars == <<batchVars, textVars>>

-----------------------------------------------------------------------------
(* Specification *)

Init ==
  /\ dict = [i \in Indexes |-> NoItem] /\ native = NoCell
  /\ kind = "item" /\ text = << >> /\ cells = << << >> >> /\ shown = << >>

\* One turn of BatchMint's loop.  (Batches and texts are explored apart, as
\* neither looks at the other.)
Add(i, item) ==
  /\ text = << >>
  /\ Cardinality(KeysOf(dict)) < MaxItems /\ i \notin KeysOf(dict)
  /\ dict' = [dict EXCEPT ![i] = item]
  /\ native' = dict_set[KeyLength][native][Binary(i, KeyLength)][item]
  /\ UNCHANGED textVars

Stored(k, t) ==
  CASE k = "jetton" -> StoreBuffer(GetBytes(t), <<Snake>>)
    [] k = "item" -> StoreBuffer(GetBytes(t), << >>)
    [] k = "batch" -> <<Store(<< >>, GetBytes(t))>>

\* The token is deployed, or its content is changed.
Write(k, t) ==
  /\ KeysOf(dict) = {}
  /\ kind' = k
  /\ text' = t
  /\ cells' = Stored(k, t)
  /\ shown' = << >>
  /\ UNCHANGED batchVars

\* GetJettonInfo, GetNftData: the account is refreshed.
Read ==
  /\ text # << >>
  /\ shown' = IF kind = "jetton" THEN LoadText(cells) ELSE LoadString(cells)
  /\ UNCHANGED <<batchVars, kind, text, cells>>

Next ==
  \/ \E i \in Indexes, item \in Items : Add(i, item)
  \/ \E k \in Kinds, t \in Texts : Write(k, t)
  \/ Read

Spec == Init /\ [][Next]_vars

-----------------------------------------------------------------------------
(* Properties *)

\* The serializer, which builds the tree from the top down, makes bit for bit
\* the cells that the library makes by setting the items one by one, in whatever
\* order they come: the same forks, and the same form of every label.
SameAsNative == KeysOf(dict) # {} => Serialize(dict) = native

\* The contract finds each item under its index in what SerializeDict wrote, and
\* nothing under any other index.
ItemsFound ==
  KeysOf(dict) # {} =>
    LET cell == Serialize(dict)
    IN \A i \in Indexes :
         lookup[KeyLength][cell][Binary(i, KeyLength)] = dict[i]

\* The texts that StoreBuffer and LoadString preserve: a description shorter than
\* a cell, whose first byte is the format; the content of an item of any length
\* that has no character across the end of a cell; the content of an item of a
\* batch when it fits one cell.
Survives(k, t) ==
  LET bytes == GetBytes(t)
      Across(n) == n % CellBytes = 0 /\ bytes[n][1] = bytes[n + 1][1]
  IN CASE k = "jetton" -> Len(bytes) < CellBytes
       [] k = "item" -> ~\E n \in 1..(Len(bytes) - 1) : Across(n)
       [] k = "batch" -> Len(bytes) <= CellBytes

\* Exactly such texts are read character by character as they were entered, also
\* those that fill cells to the last byte and those that leave the last one empty.
TextReadsBack ==
  [][Read => (shown' = [c \in 1..Len(text) |-> c] <=> Survives(kind, text))]_vars
=============================================================================
