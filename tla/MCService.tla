----------------------------- MODULE MCService -----------------------------
(***************************************************************************)
(* Small instances of Service for TLC.                                     *)
(***************************************************************************)
EXTENDS Service, TLC

CONSTANT p1  \* the payment that refunds are asked of

MCSymmetry == Permutations(Returns)

MCTexts == {"", "k1"}
MCTrim == [t \in MCTexts |-> t]
MCOrders == {"o1"}
MCLower == [n \in Adapters \cup {""} |-> n]

Buy(key) ==
  [valid |-> TRUE, order |-> "o1", amount |-> 2, gateway |-> "mock",
   xHeader |-> key, header |-> "", body |-> ""]

\* Payments of one order, with the same key or without one.
MCPurchases == {Buy(""), Buy("k1")}

\* Duplicates of one payment.
MCSamePurchase == {Buy("k1")}

\* Refunds of all of it.
MCReturns ==
  {[valid |-> TRUE, payment |-> p1, amount |-> 2, correlation |-> ""]}
=============================================================================
