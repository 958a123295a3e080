---------------------------- MODULE MCTokenForms ----------------------------
(* A form of any kind, and one that gives the minter a new owner. *)
EXTENDS TokenForms

MCKindsOf == [f \in Forms |-> IF f = "form" THEN Kinds ELSE {"changeOwner"}]

=============================================================================
