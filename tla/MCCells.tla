------------------------------ MODULE MCCells ------------------------------
(* Cells for model checking. *)
EXTENDS Cells

CONSTANTS a, b

ItemSymmetry == Permutations(Items)
=============================================================================
