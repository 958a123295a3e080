---------------------------- MODULE MCLastBlock ----------------------------
(* LastBlock for model checking. *)
EXTENDS LastBlock

BundledState == [last |-> 1, key |-> 1]
=============================================================================
