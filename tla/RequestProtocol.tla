-------------------------- MODULE RequestProtocol --------------------------
(***************************************************************************)
(* What the wallet promises a dApp about each transaction it asks for: the *)
(* request is rejected as invalid, or put before the user, who declines it *)
(* or pays it.  The dApp gets at most one answer, a declined request is    *)
(* never paid, and a confirmation follows the payment.  When the reply to  *)
(* a payment is lost the wallet does not know of it: such a request may be *)
(* paid again, but it is not declined any more; no other is paid twice.    *)
(***************************************************************************)
CONSTANT Requests

VARIABLE status \* what became of each request

Init == status = [r \in Requests |-> "new"]

Move(r, from, to) == status[r] = from /\ status' = [status EXCEPT ![r] = to]

Reject(r) == Move(r, "new", "rejected")
Ask(r) == Move(r, "new", "asked")
Decline(r) == Move(r, "asked", "declined")
Pay(r) == Move(r, "asked", "paid")
Lose(r) == Move(r, "paid", "unsure")
PayAgain(r) == Move(r, "unsure", "paid")
Confirm(r) == Move(r, "paid", "confirmed")

Next ==
  \E r \in Requests :
    Reject(r) \/ Ask(r) \/ Decline(r) \/ Pay(r) \/ Lose(r) \/ PayAgain(r) \/ Confirm(r)

Spec == Init /\ [][Next]_status
=============================================================================
