------------------------------- MODULE Payment -------------------------------
(***************************************************************************)
(* What the treasurer is promised of PIX charges: money is asked for only  *)
(* with a charge that was offered, and is booked only when it was paid.    *)
(* PixPayments is shown to implement it.                                   *)
(***************************************************************************)
CONSTANT Charges

VARIABLE payment   \* [Charges -> how far the payment is]

Stages == {"none", "offered", "paid", "booked"}

Init == payment = [c \in Charges |-> "none"]

Advance(c, from, to) ==
  /\ payment[c] = from
  /\ payment' = [payment EXCEPT ![c] = to]

Offer(c) == Advance(c, "none", "offered")
Pay(c)   == Advance(c, "offered", "paid")
Book(c)  == Advance(c, "paid", "booked")

Next == \E c \in Charges : Offer(c) \/ Pay(c) \/ Book(c)

\* What was paid is booked in the end.
Spec == Init /\ [][Next]_payment /\ \A c \in Charges : WF_payment(Book(c))

==============================================================================
