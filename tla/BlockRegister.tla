--------------------------- MODULE BlockRegister ---------------------------
(***************************************************************************)
(* What the client promises of the blocks it reads accounts at: a register *)
(* that holds a block and only moves forward, that every read returns, and *)
(* that a restart finds where it was left.  When writes may fail to reach  *)
(* the disk (Lossy), a restart falls back to the last one that did.        *)
(***************************************************************************)
EXTENDS Naturals

CONSTANT Lossy

VARIABLES
  block,   \* the register
  durable, \* what a restart finds
  read     \* the block that the last read returned

vars == <<block, durable, read>>

Init == block = 0 /\ durable = 0 /\ read = 0

Write ==
  /\ block' \in Nat /\ block' >= block
  /\ durable' = block' \/ (Lossy /\ durable' = durable)
  /\ UNCHANGED read

Read == read' = block /\ UNCHANGED <<block, durable>>

Restart == block' = durable /\ UNCHANGED <<durable, read>>

Next == Write \/ Read \/ Restart

Spec == Init /\ [][Next]_vars
=============================================================================
