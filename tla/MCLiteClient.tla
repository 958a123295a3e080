--------------------------- MODULE MCLiteClient ---------------------------
(* LiteClient for model checking. *)
EXTENDS LiteClient
=============================================================================
