--------------------------- MODULE MCTonConnect ---------------------------
(* TonConnect for model checking. *)
EXTENDS TonConnect

CONSTANTS r1, r2

\* The reply to one of the messages for r1 may be lost.
MCMaxLost == [r \in Requests |-> IF r = r1 THEN 1 ELSE 0]

=============================================================================
