------------------------------- MODULE Ledger -------------------------------
(***************************************************************************)
(* What the payment service promises its clients, without requests,        *)
(* transactions, gateways or failures: an account per payment that is      *)
(* opened once, by a settled payment, and from which money goes back in    *)
(* refunds until nothing is left or one of them fails.                     *)
(*                                                                         *)
(* PaymentService, RefundService and Service are shown to implement it.    *)
(***************************************************************************)
EXTENDS Integers

CONSTANTS
  Accounts, \* payment ids
  Amounts   \* amounts of payments and refunds

VARIABLE account

NoAccount == [status |-> "absent", amount |-> 0, refunded |-> 0]

\* An account that a payment has just opened.
Settled(status, amount) ==
  [status |-> status, amount |-> amount, refunded |-> 0]

PaidOrFailed == {"COMPLETED", "FAILED"}

\* The ledger may start with payments that were settled before.
Init ==
  /\ DOMAIN account = Accounts
  /\ \A a \in Accounts :
       \/ account[a] = NoAccount
       \/ /\ account[a].amount > 0
          /\ \E s \in PaidOrFailed : account[a] = Settled(s, account[a].amount)

Pay(a, amount) ==
  /\ account[a] = NoAccount
  /\ amount > 0
  /\ \E s \in PaidOrFailed :
       account' = [account EXCEPT ![a] = Settled(s, amount)]

Left(a) == account[a].amount - account[a].refunded

Refund(a, amount) ==
  /\ account[a].status = "COMPLETED"
  /\ amount > 0
  /\ amount <= Left(a)
  /\ account' = [account EXCEPT ![a] =
       [status |-> IF amount = Left(a) THEN "REFUNDED" ELSE "COMPLETED",
        amount |-> account[a].amount,
        refunded |-> account[a].refunded + amount]]

\* After a failed refund nothing more is refunded.
RefundFails(a) ==
  /\ account[a].status = "COMPLETED"
  /\ account' = [account EXCEPT ![a] =
       [status |-> "REFUND_FAILED", amount |-> account[a].amount,
        refunded |-> account[a].refunded]]

Next ==
  \E a \in Accounts :
    \/ RefundFails(a)
    \/ \E amount \in Amounts : Pay(a, amount) \/ Refund(a, amount)

Spec == Init /\ [][Next]_account
=============================================================================
