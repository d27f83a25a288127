------------------------------ MODULE Service ------------------------------
(***************************************************************************)
(* The running service: payments and refunds share the payments table and  *)
(* one pool of connections, a crash takes both, and clients read what the  *)
(* two have committed.  PaymentService and RefundService are used as they  *)
(* are; this module adds what they share, the reads and                    *)
(* PaymentService.UpdatePaymentStatus.                                     *)
(***************************************************************************)
EXTENDS Gateway, Money

CONSTANTS
  Purchases,      \* the payment requests (= payment uuids)
  PurchaseInputs, \* what a client may put in one
  Oversized, MaxAmount, MaxInFlight,  \* as in PaymentService
  Returns,        \* the refund requests (= refund uuids)
  ReturnInputs,   \* what a client may put in one
  Updates,        \* the payments UpdatePaymentStatus is called for, once each
  NewStatuses,    \* the statuses it sets
  Clients,        \* those who read a payment and then its refunds
  None,
  MaxConns,       \* connections of the pool
  Faults

VARIABLES
  payments,  \* the table both services write
  \* of PaymentService
  chargeLog, taken, stripeMemo, pclock, preq, ppc, pdraft, presult, ptxRow,
  ptxLog, preply, pseen,
  \* of RefundService
  refunds, refundLog, gatewayRefunds, rclock, rreq, rpc, rdraft, rlocked,
  rremaining, rresult, rtxPayment, rtxRefund, rtxLog, rreply, rseen,
  update,    \* UpdatePaymentStatus: where it stands and the row it read
  report     \* Clients -> where the client stands and what it was shown

ofPayments == <<chargeLog, taken, stripeMemo, pclock, preq, ppc, pdraft,
                presult, ptxRow, ptxLog, preply, pseen>>
ofRefunds == <<refunds, refundLog, gatewayRefunds, rclock, rreq, rpc, rdraft,
               rlocked, rremaining, rresult, rtxPayment, rtxRefund, rtxLog,
               rreply, rseen>>
others == <<update, report>>
vars == <<payments, ofPayments, ofRefunds, others>>

P == INSTANCE PaymentService WITH
       Requests <- Purchases, Inputs <- PurchaseInputs,
       transactions <- chargeLog, clock <- pclock, req <- preq, pc <- ppc,
       draft <- pdraft, result <- presult, txRow <- ptxRow, txLog <- ptxLog,
       reply <- preply, seen <- pseen

\* Refunds start from the payments that are committed, none at first.
R == INSTANCE RefundService WITH
       Payments <- Purchases,
       InitialPayments <- {[p \in Purchases |-> NoRow]},
       Requests <- Returns, Inputs <- ReturnInputs,
       transactions <- refundLog, clock <- rclock, req <- rreq, pc <- rpc,
       draft <- rdraft, locked <- rlocked, remaining <- rremaining,
       result <- rresult, txPayment <- rtxPayment, txRefund <- rtxRefund,
       txLog <- rtxLog, reply <- rreply, seen <- rseen

\* What the two services assume, for the constants they share.
ASSUME CompositionAssumption ==
  /\ Purchases # {}
  /\ IsFiniteSet(Returns)
  /\ PurchaseInputs # {} /\ PurchaseInputs \subseteq P!RequestType
  /\ ReturnInputs # {} /\ ReturnInputs \subseteq R!RequestType
  /\ None \notin Purchases \cup Returns
  /\ MaxAmount \in Nat /\ MaxAmount \div UnitsPerCent < Word \div 2
  /\ MaxInFlight \in Nat \ {0}
  /\ MaxConns \in Nat \ {0}
  /\ Faults \in BOOLEAN
  /\ Updates \subseteq Purchases
  /\ NewStatuses \subseteq PaymentStatus

-----------------------------------------------------------------------------
(* State *)

\* Both services take their connections from one pool.
ConnFree == Cardinality(P!InTx) + Cardinality(R!InTx) < MaxConns

\* Where a request of either service has to get a connection.
PAcquires(r) == ppc[r] \in P!DbPcs \ P!InTxPcs
RAcquires(r) == rpc[r] \in R!DbPcs \ R!InTxPcs

NoUpdate == [pc |-> "idle", row |-> NoRow]
NoReport == [pc |-> "idle", payment |-> None, row |-> NoRow, refunds |-> {}]

Init ==
  /\ P!Init
  /\ R!Init
  /\ update = [p \in Updates |-> NoUpdate]
  /\ report = [c \in Clients |-> NoReport]

-----------------------------------------------------------------------------
(* The two services *)

Purchase(r) == P!Receive(r) /\ UNCHANGED <<ofRefunds, others>>
ServePurchase(r) ==
  /\ PAcquires(r) => ConnFree
  /\ P!Serve(r)
  /\ UNCHANGED <<ofRefunds, others>>
FailPurchase(r) == P!Fault(r) /\ UNCHANGED <<ofRefunds, others>>

Return(r) == R!Receive(r) /\ UNCHANGED <<ofPayments, others>>
ServeReturn(r) ==
  /\ RAcquires(r) => ConnFree
  /\ R!Serve(r)
  /\ UNCHANGED <<ofPayments, others>>
FailReturn(r) == R!Fault(r) /\ UNCHANGED <<ofPayments, others>>

-----------------------------------------------------------------------------
(* UpdatePaymentStatus *)

\* The payment is read without a lock; a payment that does not exist is an
\* error.
UpdateReads(p) ==
  /\ update[p].pc = "idle"
  /\ ConnFree
  /\ update' = [update EXCEPT ![p] =
       [pc |-> IF p \in Rows(payments) THEN "write" ELSE "done",
        row |-> payments[p]]]
  /\ UNCHANGED <<payments, ofPayments, ofRefunds, report>>

\* The whole row is written back with the new status.  The UPDATE waits for a
\* refund that has the row locked.
UpdateWrites(p) ==
  /\ update[p].pc = "write"
  /\ ConnFree
  /\ ~R!RowLocked(p)
  /\ \E s \in NewStatuses :
       payments' = [payments EXCEPT ![p] = [update[p].row EXCEPT !.status = s]]
  /\ update' = [update EXCEPT ![p].pc = "written"]
  /\ UNCHANGED <<ofPayments, ofRefunds, report>>

-----------------------------------------------------------------------------
(* Reads *)

\* A client is shown the payment that a lookup found, or told that there is
\* none.
Show(c, found) ==
  /\ report[c].pc = "idle"
  /\ ConnFree
  /\ \/ /\ found = {}
        /\ report' = [report EXCEPT ![c].pc = "done"]
     \/ \E p \in found :
          report' = [report EXCEPT ![c] =
            [pc |-> "refunds", payment |-> p, row |-> payments[p],
             refunds |-> {}]]
  /\ UNCHANGED <<payments, ofPayments, ofRefunds, update>>

\* GET /payments/{id}
GetPayment(c) == \E p \in Purchases : Show(c, {p} \cap Rows(payments))

\* GET /payments/order/{orderId} and GET /payments?orderId=: of the payments of
\* an order, the one created last.
GetPaymentByOrderID(c) ==
  \E order \in Orders : Show(c, P!GetPaymentByOrderID(order))

\* GET /payments/{id}/refunds, a request of its own.
GetRefundsByPayment(c) ==
  /\ report[c].pc = "refunds"
  /\ ConnFree
  /\ report' = [report EXCEPT
       ![c].pc = "done",
       ![c].refunds =
          {q \in Rows(refunds) : refunds[q].payment = report[c].payment}]
  /\ UNCHANGED <<payments, ofPayments, ofRefunds, update>>

-----------------------------------------------------------------------------
(* Specification *)

\* The process dies with everything in flight.
Crash ==
  /\ \/ P!Crash /\ R!Crash
     \/ P!Crash /\ R!InFlight = {} /\ UNCHANGED ofRefunds
     \/ R!Crash /\ P!InFlight = {} /\ UNCHANGED ofPayments
  /\ update' = [p \in Updates |->
       IF update[p].pc = "write" THEN [update[p] EXCEPT !.pc = "done"]
                                 ELSE update[p]]
  /\ UNCHANGED report

\* Everybody is done.
Finished ==
  /\ \A r \in Purchases : ppc[r] = "done"
  /\ \A r \in Returns : rpc[r] = "done"
  /\ \A p \in Updates : update[p].pc \in {"done", "written"}
  /\ \A c \in Clients : report[c].pc = "done"
  /\ UNCHANGED vars

Next ==
  \/ \E r \in Purchases : Purchase(r) \/ ServePurchase(r) \/ FailPurchase(r)
  \/ \E r \in Returns : Return(r) \/ ServeReturn(r) \/ FailReturn(r)
  \/ \E p \in Updates : UpdateReads(p) \/ UpdateWrites(p)
  \/ \E c \in Clients :
       GetPayment(c) \/ GetPaymentByOrderID(c) \/ GetRefundsByPayment(c)
  \/ Crash
  \/ Finished

Spec == Init /\ [][Next]_vars

\* Goroutines are scheduled, gateways and PostgreSQL answer.  Nobody has to
\* send a request and nothing has to fail.
FairSpec ==
  /\ Spec
  /\ \A r \in Purchases : WF_vars(ServePurchase(r))
  /\ \A r \in Returns : WF_vars(ServeReturn(r))
-----------------------------------------------------------------------------
(* Properties *)

Updated(p) == p \in Updates /\ update[p].pc = "written"

RefundsOf(p, status) ==
  {q \in Rows(refunds) : refunds[q].payment = p /\ refunds[q].status = status}

\* Both services together are one ledger for whoever reads the tables, apart
\* from the writes of UpdatePaymentStatus; and a refund that follows such a write
\* is still a step of the ledger.
Book == INSTANCE Ledger WITH
          Accounts <- Purchases,
          Amounts <- {q.amount : q \in PurchaseInputs \cup ReturnInputs},
          account <- [p \in Purchases |-> R!Account(p)]

LedgerKept ==
  /\ Book!Init
  /\ [][Book!Next \/ \E p \in Updates : UpdateWrites(p)]_<<payments, refunds>>

\* UpdatePaymentStatus can reopen a payment that was refunded while it had the
\* row in memory; still no more goes back than was paid, because refunds add up
\* the refunds table and do not trust the status.
NoOverRefund ==
  \A p \in Rows(payments) : R!GetTotalRefunded(p) <= payments[p].amount

\* The audit log alone, written by two services in separate transactions, tells
\* the account: one CHARGE row, successful unless the payment FAILED, and REFUND
\* rows that add up to what was refunded, one of them unsuccessful exactly if the
\* payment is REFUND_FAILED.
AuditTellsAccount ==
  \A p \in Rows(payments) \ {q \in Purchases : Updated(q)} :
    LET refundRows == {t \in refundLog : t.payment = p}
        returned == {t.refund : t \in {u \in refundRows : u.success}}
    IN /\ {t \in chargeLog : t.payment = p} =
            {[payment |-> p, type |-> "CHARGE", amount |-> payments[p].amount,
              success |-> payments[p].status # "FAILED"]}
       /\ (payments[p].status = "REFUNDED") <=>
            (payments[p].amount =
               Total(returned, [q \in Returns |-> refunds[q].amount]))
       /\ (payments[p].status = "REFUND_FAILED") <=>
            (\E t \in refundRows : ~t.success)

\* A retry with the key of a payment that has been refunded since is given that
\* payment and moves no money, whatever the payment's status has become, if its
\* key has no surrounding white space.
RetryAfterRefundNeverCharges ==
  \A r \in Purchases : pseen[r].key /\ P!CleanKey(r) =>
    /\ r \notin P!charges
    /\ P!Answered(r) => /\ preply[r].payment # r
                        /\ payments[preply[r].payment].key = Trim[P!Key(r)]

\* No refund of p can follow: one failed, or nothing is left.
RefundsOver(p) ==
  RefundsOf(p, "FAILED") # {} \/ R!GetTotalRefunded(p) = payments[p].amount

\* UpdatePaymentStatus declared a payment COMPLETED whose charge failed.
DeclaredPaid(p) ==
  Updated(p) /\ \E t \in chargeLog : t.payment = p /\ ~t.success

\* An order that was paid when a request for it arrived is charged once more
\* only if the refunds of the earlier payment are over: it was refunded in full,
\* or a refund of it failed, in which case the order is paid twice; or if the
\* order was not paid, but declared to be.
PaidOrderChargedOnlyAfterRefund ==
  \A r \in P!charges : pseen[r].paid =>
    \E p \in Rows(payments) \ {r} :
      /\ payments[p].order = preq[r].order
      /\ RefundsOver(p) \/ DeclaredPaid(p)

\* A client that is shown a REFUNDED payment and then asks for its refunds gets
\* refunds that add up to it; shown REFUND_FAILED, it finds the one that failed.
ReportsAgree ==
  \A c \in Clients :
    LET shown == report[c]
        p == shown.payment
    IN
    shown.pc = "done" =>
      /\ shown.row.status = "REFUNDED" =>
           shown.row.amount =
             Total(shown.refunds \cap RefundsOf(p, "COMPLETED"),
                   [q \in Returns |-> refunds[q].amount])
      /\ shown.row.status = "REFUND_FAILED" =>
           shown.refunds \cap RefundsOf(p, "FAILED") # {}

\* Every received payment is answered, although open inserts of its key and
\* refunds that wait for a row keep connections of the common pool.
PurchaseAnswered ==
  \A r \in Purchases : ppc[r] # "idle" ~> ppc[r] = "done"

\* Every received refund is answered, although it waits for the row with a
\* connection in hand and payments take from the same pool.
ReturnAnswered ==
  \A r \in Returns : rpc[r] # "idle" ~> rpc[r] = "done"
=============================================================================
