------------------------ MODULE MCTransactionHistory ------------------------
(* TransactionHistory for model checking. *)
EXTENDS TransactionHistory

CONSTANTS p1
=============================================================================
