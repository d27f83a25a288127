-------------------------- MODULE MCRefundService --------------------------
(***************************************************************************)
(* Small instances of RefundService for TLC.                               *)
(***************************************************************************)
EXTENDS RefundService, TLC

\* Request names carry no meaning of their own.
MCSymmetry == Permutations(Requests)

MCTexts == {"", "c1"}
MCTrim == [t \in MCTexts |-> t]
MCOrders == {"o1"}
MCLower == [n \in Adapters \cup {""} |-> n]

\* A payment of amount a on gateway g.
Paid(g, a) == [status |-> "COMPLETED", order |-> "o1", key |-> "",
               amount |-> a, gateway |-> g, created |-> 0]

\* p1 can be refunded by the mock, p2 only fails to be refunded by Stripe or
\* failed itself or does not exist or is of a disabled gateway.
MCTables ==
  {[p \in Payments |-> IF p = "p1" THEN Paid("mock", 3) ELSE other] :
     other \in {Paid("stripe", 2), Paid("paypal", 2),
                [Paid("mock", 2) EXCEPT !.status = "FAILED"], NoRow}}

Refund(p, a, c) ==
  [valid |-> TRUE, payment |-> p, amount |-> a, correlation |-> c]

\* Partial and full refunds of either payment, with and without correlation
\* id, one that is too large and two that are refused.
MCMixed ==
  {Refund("p1", 1, "c1"), Refund("p1", 2, ""), Refund("p1", 3, ""),
   Refund("p1", 4, ""), Refund("p2", 2, ""), Refund("p2", 1, "c1"),
   Refund("p1", 0, ""), [Refund("p1", 1, "") EXCEPT !.valid = FALSE]}

\* One correlation id for refunds of two payments.
MCTwoPayments == {Refund("p1", 1, "c1"), Refund("p2", 1, "c1")}

MCTwoMock == {[p \in Payments |-> Paid("mock", 3)]}
=============================================================================
