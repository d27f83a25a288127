--------------------------- MODULE ServiceProofs ---------------------------
(***************************************************************************)
(* Theorems about Service: payments, refunds, UpdatePaymentStatus and the  *)
(* reads on common tables, for every set of requests, every pool size,     *)
(* with and without faults.                                                *)
(*                                                                         *)
(* The lemmas about one step of a service, proved in PaymentServiceProofs  *)
(* and RefundServiceProofs, are used here through instances of those       *)
(* modules; what they do not say is that the other service's steps, the    *)
(* writes of UpdatePaymentStatus and crashes keep what a service relies    *)
(* on.                                                                     *)
(***************************************************************************)
EXTENDS Service, FiniteSetTheorems, TLAPS

\* The two services of Service, with what is proved about them.
PP == INSTANCE PaymentServiceProofs WITH
        Requests <- Purchases, Inputs <- PurchaseInputs,
        transactions <- chargeLog, clock <- pclock, req <- preq, pc <- ppc,
        draft <- pdraft, result <- presult, txRow <- ptxRow, txLog <- ptxLog,
        reply <- preply, seen <- pseen

RP == INSTANCE RefundServiceProofs WITH
        Payments <- Purchases,
        InitialPayments <- {[p \in Purchases |-> NoRow]},
        Requests <- Returns, Inputs <- ReturnInputs,
        transactions <- refundLog, clock <- rclock, req <- rreq, pc <- rpc,
        draft <- rdraft, locked <- rlocked, remaining <- rremaining,
        result <- rresult, txPayment <- rtxPayment, txRefund <- rtxRefund,
        txLog <- rtxLog, reply <- rreply, seen <- rseen

-----------------------------------------------------------------------------
(* The inductive invariant *)

\* Two versions of a payment differ in the status at most.
SameButStatus(a, b) ==
  /\ a.order = b.order
  /\ a.key = b.key
  /\ a.amount = b.amount
  /\ a.gateway = b.gateway
  /\ a.created = b.created

\* What UpdatePaymentStatus and the clients of the read endpoints hold.
OthersTypeOK ==
  /\ update \in [Updates -> [pc : {"idle", "write", "written", "done"},
                             row : PaymentRow]]
  /\ report \in [Clients -> [pc : {"idle", "refunds", "done"},
                             payment : Purchases \cup {None},
                             row : PaymentRow, refunds : SUBSET Returns]]

\* The rows that a refund and UpdatePaymentStatus have in memory and will write
\* back whole are the committed ones but for the status: writing them back
\* cannot undo anything else.
LockedKept ==
  \A r \in Returns :
    rpc[r] \in RP!LockedPcs =>
      SameButStatus(rlocked[r], payments[rreq[r].payment])
UpdatesKept ==
  \A p \in Updates :
    update[p].pc \in {"write", "written"} =>
      /\ p \in Rows(payments)
      /\ SameButStatus(update[p].row, payments[p])

\* What PaymentService keeps of its own although others write its rows.
PurchasesOK ==
  /\ PP!TypeOK
  /\ \A r \in Purchases : PP!StepOK(r) /\ PP!Validated(r) /\ PP!SeenStops(r)
  /\ PP!KeyUnique /\ PP!OpenKeyUnique

\* What RefundService keeps of its own.
ReturnsOK ==
  /\ RP!TypeOK
  /\ RP!RefundStepsConsistent
  /\ RP!NoOverRefund
  /\ RP!RefundSettledAndAudited

\* Every committed payment has an amount and one CHARGE row, and there is no
\* CHARGE row without a payment.
ChargeOf(p, success) ==
  {[payment |-> p, type |-> "CHARGE", amount |-> payments[p].amount,
    success |-> success]}
ChargesAudited ==
  /\ \A p \in Rows(payments) :
       /\ payments[p].amount > 0
       /\ {t \in chargeLog : t.payment = p} \in {ChargeOf(p, b) : b \in BOOLEAN}
  /\ \A t \in chargeLog : t.payment \in Rows(payments)

SInv ==
  /\ PurchasesOK
  /\ ReturnsOK
  /\ OthersTypeOK
  /\ LockedKept
  /\ UpdatesKept
  /\ ChargesAudited

(* What particular properties need on top of it *)

\* The status of a payment that UpdatePaymentStatus has not written tells its
\* charge and its refunds.
Told(p) ==
  /\ RP!StatusMatches(p)
  /\ {t \in chargeLog : t.payment = p} =
       ChargeOf(p, payments[p].status # "FAILED")
StatusTold == \A p \in Rows(payments) : ~Updated(p) => Told(p)

\* A known duplicate is given the payment of its key.
RepliesToSeen ==
  \A r \in Purchases :
    /\ ppc[r] # "done" => ~PP!Answered(r)
    /\ pseen[r].key /\ PP!CleanKey(r) /\ PP!Answered(r) =>
         /\ preply[r].payment \in Rows(payments) \ {r}
         /\ payments[preply[r].payment].key = Trim[PP!Key(r)]

\* What a status claims of the refunds is true of the refunds table.
StatusBacked(row, p) ==
  /\ row.status = "REFUNDED" => RP!GetTotalRefunded(p) = row.amount
  /\ row.status = "REFUND_FAILED" => RP!FailedRefunds(p) # {}

StatusesBacked == \A p \in Rows(payments) : StatusBacked(payments[p], p)

\* A client that was shown a payment will find the refunds that its status
\* claims; one that was shown them too has them.
ReportOK(c) ==
  LET shown == report[c] p == shown.payment IN
  /\ shown.pc = "idle" => shown.row.status = "absent" /\ shown.refunds = {}
  /\ shown.pc = "refunds" =>
       /\ p \in Rows(payments)
       /\ shown.row.amount = payments[p].amount
       /\ StatusBacked(shown.row, p)
  /\ shown.pc = "done" =>
       /\ shown.refunds \subseteq Rows(refunds)
       /\ shown.row.status = "REFUNDED" =>
            Total(shown.refunds \cap RefundsOf(p, "COMPLETED"),
                  [q \in Returns |-> refunds[q].amount]) = shown.row.amount
       /\ shown.row.status = "REFUND_FAILED" =>
            shown.refunds \cap RefundsOf(p, "FAILED") # {}
ReportsOK == \A c \in Clients : ReportOK(c)

(* With MaxInFlight = 1: payments are served one after the other *)

\* The money of payment p was moved.
ChargeSucceeded(p) == \E t \in chargeLog : t.payment = p /\ t.success

Over(p) == RP!FailedRefunds(p) # {} \/ RP!GetTotalRefunded(p) = payments[p].amount

Alone ==
  \A r, s \in Purchases :
    ppc[r] \notin {"idle", "done"} /\ ppc[s] \notin {"idle", "done"} => r = s

\* The row being built is the youngest.
DraftYoungest ==
  /\ \A p \in Rows(payments) : payments[p].created <= pclock
  /\ \A r \in Purchases :
       ppc[r] \in PP!DraftPcs =>
         /\ pdraft[r].created <= pclock
         /\ \A p \in Rows(payments) : payments[p].created < pdraft[r].created

\* A charged payment is COMPLETED until its refunds are over; one whose charge
\* failed is FAILED until UpdatePaymentStatus says otherwise.
StatusOfCharge ==
  \A p \in Rows(payments) :
    IF ChargeSucceeded(p) THEN payments[p].status = "COMPLETED" \/ Over(p)
    ELSE payments[p].status = "FAILED" \/ DeclaredPaid(p)

\* A request past its lookups, and a younger payment of the same order, found
\* the refunds of every charged payment of the order over.
PastLookups == {"route"} \cup PP!DraftPcs
OlderOver ==
  /\ \A r \in Purchases : ppc[r] \in PastLookups =>
       \A p \in Rows(payments) :
         payments[p].order = preq[r].order /\ ChargeSucceeded(p) => Over(p)
  /\ \A p, q \in Rows(payments) :
       /\ payments[p].order = payments[q].order
       /\ payments[p].created < payments[q].created
       /\ ChargeSucceeded(p)
       => Over(p)

\* The order was paid, or declared paid, when the request arrived.
PaidSeen ==
  \A r \in Purchases :
    pseen[r].paid /\ ppc[r] \notin {"idle", "done"} =>
      \E p \in Rows(payments) :
        /\ payments[p].order = preq[r].order
        /\ ChargeSucceeded(p) \/ DeclaredPaid(p)

OneByOne ==
  Alone /\ DraftYoungest /\ StatusOfCharge /\ OlderOver /\ PaidSeen
-----------------------------------------------------------------------------
(* The instances *)

\* The constants of Service satisfy what PaymentService assumes.
LEMMA PurchaseConstants ==
  /\ PP!TrimAssumption /\ PP!RouterAssumption /\ PP!GatewayAssumption
  /\ PP!ServiceAssumption
<1>1. PP!TrimAssumption
  BY TrimAssumption
<1>2. PP!RouterAssumption
  BY RouterAssumption DEF Adapters, PP!Adapters
<1>3. PP!GatewayAssumption
  BY GatewayAssumption
<1>4. PP!ServiceAssumption
  BY CompositionAssumption DEF P!RequestType, PP!RequestType
<1> QED
  BY <1>1, <1>2, <1>3, <1>4

\* They satisfy what RefundService assumes; it starts without payments.
LEMMA RefundConstants ==
  /\ RP!TrimAssumption /\ RP!RouterAssumption /\ RP!GatewayAssumption
  /\ RP!RefundAssumption /\ RP!InitialAssumption
<1>1. RP!TrimAssumption
  BY TrimAssumption
<1>2. RP!RouterAssumption
  BY RouterAssumption DEF Adapters, RP!Adapters
<1>3. RP!GatewayAssumption
  BY GatewayAssumption
<1>4. NoRow \in PaymentRow
  BY TrimAssumption DEF NoRow, PaymentRow
<1>5. RP!RefundAssumption
  BY <1>4, CompositionAssumption
     DEF RP!RefundAssumption, R!RequestType, RP!RequestType, PaymentRow,
         RP!PaymentRow, PaymentStatus, RP!PaymentStatus, IsFiniteSet,
         RP!IsFiniteSet
<1>6. RP!InitialAssumption
  BY DEF RP!InitialAssumption, NoRow, RP!NoRow
<1> QED
  BY <1>1, <1>2, <1>3, <1>5, <1>6

\* The instance with the theorems and the one of Service are the same service.
LEMMA SamePurchases ==
  /\ P!Init = PP!Init
  /\ P!Crash = PP!Crash
  /\ P!charges = PP!charges
  /\ \A x : P!Receive(x) = PP!Receive(x)
  /\ \A x : P!Serve(x) = PP!Serve(x)
  /\ \A x : P!Fault(x) = PP!Fault(x)
  /\ \A x : P!CleanKey(x) = PP!CleanKey(x)
  /\ \A x : P!Answered(x) = PP!Answered(x)
  /\ \A x : P!Key(x) = PP!Key(x)
  /\ \A x : P!GetPaymentByOrderID(x) = PP!GetPaymentByOrderID(x)
BY DEF P!nullString, PP!nullString, P!APIErrorFromErr, PP!APIErrorFromErr,
       P!NoRow, PP!NoRow, P!Rows, PP!Rows, P!Adapters, PP!Adapters,
       P!NoGateway, PP!NoGateway, P!GetGateway, PP!GetGateway,
       P!GetDefaultGateway, PP!GetDefaultGateway, P!GetGatewayOrDefault,
       PP!GetGatewayOrDefault, P!Declined, PP!Declined, P!Charged, PP!Charged,
       P!MockProcessPayment, PP!MockProcessPayment, P!PayPalProcessPayment,
       PP!PayPalProcessPayment, P!IntPart, PP!IntPart, P!MinorUnits,
       PP!MinorUnits, P!StripeExecutes, PP!StripeExecutes,
       P!StripeProcessPayment, PP!StripeProcessPayment, P!ProcessPayment,
       PP!ProcessPayment, P!memory, PP!memory, P!tx, PP!tx, P!database,
       PP!database, P!provider, PP!provider, P!InTxPcs, PP!InTxPcs, P!DbPcs,
       PP!DbPcs, P!NoReply, PP!NoReply, P!InFlight, PP!InFlight, P!charges,
       PP!charges, P!InTx, PP!InTx, P!ConnFree, PP!ConnFree, P!EffectiveKey,
       PP!EffectiveKey, P!Key, PP!Key, P!GetPaymentByIdempotencyKey,
       PP!GetPaymentByIdempotencyKey, P!GetPaymentByOrderID,
       PP!GetPaymentByOrderID, P!Init, PP!Init, P!Goto, PP!Goto, P!Return,
       PP!Return, P!StatusCode, PP!StatusCode, P!ReturnPayment,
       PP!ReturnPayment, P!ReturnError, PP!ReturnError,
       P!validateProcessPaymentRequest, PP!validateProcessPaymentRequest,
       P!Receive, PP!Receive, P!FindByKey, PP!FindByKey, P!FindByOrder,
       PP!FindByOrder, P!Route, PP!Route, P!Charge, PP!Charge, P!Begin,
       PP!Begin, P!KeyInserting, PP!KeyInserting, P!KeyTaken, PP!KeyTaken,
       P!Fits, PP!Fits, P!CreatePayment, PP!CreatePayment,
       P!CreatePaymentConflict, PP!CreatePaymentConflict,
       P!CreatePaymentTooLong, PP!CreatePaymentTooLong, P!UpdatePayment,
       PP!UpdatePayment, P!MarkProcessing, PP!MarkProcessing,
       P!CreateTransaction, PP!CreateTransaction, P!Settle, PP!Settle,
       P!Committed, PP!Committed, P!Commit, PP!Commit, P!Recover, PP!Recover,
       P!StatementFails, PP!StatementFails, P!CommitAnswerLost,
       PP!CommitAnswerLost, P!Crash, PP!Crash, P!Serve, PP!Serve, P!Fault,
       PP!Fault, P!CleanKey, PP!CleanKey, P!Answered, PP!Answered,
       P!Cardinality, PP!Cardinality

\* Likewise for the refunds.
LEMMA SameReturns ==
  /\ R!Init = RP!Init
  /\ R!Crash = RP!Crash
  /\ \A x : R!Receive(x) = RP!Receive(x)
  /\ \A x : R!Serve(x) = RP!Serve(x)
  /\ \A x : R!Fault(x) = RP!Fault(x)
  /\ \A x : R!RowLocked(x) = RP!RowLocked(x)
  /\ \A x : R!GetTotalRefunded(x) = RP!GetTotalRefunded(x)
  /\ \A x : R!Account(x) = RP!Account(x)
BY DEF R!nullString, RP!nullString, R!APIErrorFromErr, RP!APIErrorFromErr,
       R!NoRow, RP!NoRow, R!Rows, RP!Rows, R!Adapters, RP!Adapters,
       R!NoGateway, RP!NoGateway, R!GetGateway, RP!GetGateway,
       R!MockProcessRefund, RP!MockProcessRefund, R!StripeProcessRefund,
       RP!StripeProcessRefund, R!PayPalProcessRefund, RP!PayPalProcessRefund,
       R!ProcessRefund, RP!ProcessRefund, R!UnitsOf, RP!UnitsOf, R!Total,
       RP!Total, R!memory, RP!memory, R!tx, RP!tx, R!database, RP!database,
       R!LockedPcs, RP!LockedPcs, R!InTxPcs, RP!InTxPcs, R!DbPcs, RP!DbPcs,
       R!NoRefund, RP!NoRefund, R!InFlight, RP!InFlight, R!InTx, RP!InTx,
       R!ConnFree, RP!ConnFree, R!RowLocked, RP!RowLocked,
       R!GetRefundByCorrelationID, RP!GetRefundByCorrelationID,
       R!CompletedRefunds, RP!CompletedRefunds, R!Amounts, RP!Amounts,
       R!GetTotalRefunded, RP!GetTotalRefunded, R!Refundable, RP!Refundable,
       R!Init, RP!Init, R!Goto, RP!Goto, R!Return, RP!Return, R!ReturnError,
       RP!ReturnError, R!validateRefundRequest, RP!validateRefundRequest,
       R!Receive, RP!Receive, R!FindByCorrelation, RP!FindByCorrelation,
       R!GetPayment, RP!GetPayment, R!Begin, RP!Begin, R!GetPaymentForUpdate,
       RP!GetPaymentForUpdate, R!CheckRemaining, RP!CheckRemaining,
       R!UpdatePayment, RP!UpdatePayment, R!UpdateRefund, RP!UpdateRefund,
       R!CreateRefund, RP!CreateRefund, R!MarkRefundPending,
       RP!MarkRefundPending, R!MarkProcessing, RP!MarkProcessing,
       R!CallGateway, RP!CallGateway, R!CreateTransaction,
       RP!CreateTransaction, R!SettledStatus, RP!SettledStatus,
       R!SettlePayment, RP!SettlePayment, R!SettleRefund, RP!SettleRefund,
       R!Committed, RP!Committed, R!Commit, RP!Commit, R!StatementFails,
       RP!StatementFails, R!CommitAnswerLost, RP!CommitAnswerLost, R!Crash,
       RP!Crash, R!Serve, RP!Serve, R!Fault, RP!Fault, R!Account, RP!Account,
       R!Cardinality, RP!Cardinality

\* A step of PaymentService keeps what it relies on.
LEMMA PurchaseNext ==
  ASSUME PurchasesOK, [PP!Next]_PP!vars
  PROVE  PurchasesOK'
<1> USE PurchaseConstants DEF PurchasesOK
<1>1. PP!TypeOK /\ \A r \in Purchases : PP!StepOK(r)
  OBVIOUS
<1>2. PP!TypeOK'
  BY <1>1, PP!TypeNext
<1>3. \A r \in Purchases : PP!StepOK(r)'
  BY <1>1, PP!StepNext
<1>4. \A r \in Purchases : PP!Validated(r)'
  BY <1>1, PP!ValidatedNext
<1>5. \A r \in Purchases : PP!SeenStops(r)'
  BY <1>1, PP!SeenNext
<1>6. PP!KeyUnique' /\ PP!OpenKeyUnique'
  BY <1>1, PP!KeyNext
<1> QED
  BY <1>2, <1>3, <1>4, <1>5, <1>6

\* A step of RefundService keeps what it relies on.
LEMMA ReturnNext ==
  ASSUME ReturnsOK, [RP!Next]_RP!vars
  PROVE  ReturnsOK'
<1> USE RefundConstants DEF ReturnsOK
<1>1. RP!TypeOK /\ RP!RefundStepsConsistent
  OBVIOUS
<1>2. \A r \in Returns : RP!RefundStepOK(r)
  BY <1>1 DEF RP!RefundStepsConsistent
<1>3. RP!TypeOK'
  BY <1>1, <1>2, RP!TypeNext
<1>4. \A r \in Returns : RP!RefundStepOK(r)'
  BY <1>1, RP!StepNext
<1>5. RP!RowExclusive'
  BY <1>1, RP!RowNext
<1>6. RP!NoOverRefund'
  BY <1>1, RP!TotalNext
<1>7. RP!RefundSettledAndAudited'
  BY <1>1, RP!SettledNext
<1> QED
  BY <1>3, <1>4, <1>5, <1>6, <1>7 DEF RP!RefundStepsConsistent
-----------------------------------------------------------------------------
(* What a service's steps leave of what the other one relies on *)

\* A payment is never removed and only its status is written again; a new one
\* has an amount.
RowsGrow ==
  /\ payments' \in [Purchases -> PaymentRow]
  /\ \A p \in Rows(payments) :
       p \in Rows(payments)' /\ SameButStatus(payments'[p], payments[p])
  /\ \A p \in Rows(payments)' \ Rows(payments) : payments'[p].amount > 0

\* No payment is added.
RowsStay ==
  RowsGrow /\ \A p \in Purchases \ Rows(payments) : payments'[p] = payments[p]

\* The rows that a refund has locked are not written.
LockedStay ==
  \A r \in Returns :
    rpc[r] \in RP!LockedPcs =>
      payments'[rreq[r].payment] = payments[rreq[r].payment]

\* PaymentService relies on the rows' keys and on its own requests.
LEMMA PurchasesFrame ==
  ASSUME PurchasesOK, RowsStay, UNCHANGED ofPayments
  PROVE  PurchasesOK'
<1> USE DEF ofPayments, PP!TypeOK
<1>0. /\ DOMAIN payments = Purchases /\ DOMAIN payments' = Purchases
      /\ payments \in [Purchases -> PaymentRow]
      /\ payments' \in [Purchases -> PaymentRow]
  BY DEF PurchasesOK, RowsStay, RowsGrow, PaymentRow, PP!PaymentRow,
         PaymentStatus, PP!PaymentStatus
<1>1. \A p \in Purchases :
        /\ payments'[p].status = "absent" <=> payments[p].status = "absent"
        /\ payments'[p].key = payments[p].key
        /\ payments[p].status = "absent" => payments'[p] = payments[p]
  BY <1>0 DEF RowsStay, RowsGrow, Rows, SameButStatus
<1>2. PP!TypeOK'
  BY <1>0 DEF PurchasesOK, PaymentRow, PP!PaymentRow, PaymentStatus,
              PP!PaymentStatus
<1>3. \A r \in Purchases : PP!StepOK(r)'
  BY <1>1 DEF PurchasesOK, PP!StepOK, PP!charges, PP!Key
<1>4. \A r \in Purchases : PP!Validated(r)'
  BY DEF PurchasesOK, PP!Validated
<1>5. PP!KeyUnique' /\ PP!OpenKeyUnique'
  BY <1>1 DEF PurchasesOK, PP!KeyUnique, PP!OpenKeyUnique
<1>6. \A key : PP!GetPaymentByIdempotencyKey(key)'
                 = PP!GetPaymentByIdempotencyKey(key)
  BY <1>0, <1>1 DEF PP!GetPaymentByIdempotencyKey, PP!Rows
<1>7. \A r \in Purchases : PP!SeenStops(r)'
  BY <1>6 DEF PurchasesOK, PP!SeenStops, PP!CleanKey, PP!Key, PP!charges
<1> QED
  BY <1>2, <1>3, <1>4, <1>5, <1>7 DEF PurchasesOK

\* RefundService relies on the rows it has locked, on the amounts, and on every
\* refund having its payment.
LEMMA ReturnsFrame ==
  ASSUME ReturnsOK, RowsGrow, LockedStay, UNCHANGED ofRefunds
  PROVE  ReturnsOK'
<1> USE DEF ofRefunds
<1>0. /\ payments \in [Purchases -> PaymentRow]
      /\ payments' \in [Purchases -> PaymentRow]
      /\ DOMAIN payments = Purchases /\ DOMAIN payments' = Purchases
  BY DEF ReturnsOK, RowsGrow, RP!TypeOK, PaymentRow, RP!PaymentRow,
         PaymentStatus, RP!PaymentStatus
<1>1. \A p : /\ RP!GetTotalRefunded(p)' = RP!GetTotalRefunded(p)
             /\ RP!CompletedRefunds(p)' = RP!CompletedRefunds(p)
  BY RP!TotalStays, RefundConstants
<1>2. RP!TypeOK'
  BY <1>0 DEF ReturnsOK, RP!TypeOK, PaymentRow, RP!PaymentRow, PaymentStatus,
              RP!PaymentStatus
<1>3. RP!RefundStepsConsistent'
  <2>1. ASSUME NEW r \in Returns PROVE RP!RefundStepOK(r)'
    <3>1. RP!RefundStepOK(r)
      BY DEF ReturnsOK, RP!RefundStepsConsistent
    <3>2. rpc[r] \in RP!LockedPcs =>
            payments'[rreq[r].payment] = payments[rreq[r].payment]
      BY DEF LockedStay
    <3>3. RP!GetTotalRefunded(rreq[r].payment)'
            = RP!GetTotalRefunded(rreq[r].payment)
      BY <1>1
    <3> QED
      BY <3>1, <3>2, <3>3
         DEF RP!RefundStepOK, RP!InFlight, RP!SettledStatus, RP!LockedPcs,
             RP!CalledPcs
  <2> QED
    BY <2>1 DEF ReturnsOK, RP!RefundStepsConsistent, RP!RowExclusive
<1>4. RP!NoOverRefund'
  <2> SUFFICES ASSUME NEW p \in Rows(payments)'
               PROVE  RP!GetTotalRefunded(p)' <= payments'[p].amount
    BY DEF RP!NoOverRefund, Rows, RP!Rows
  <2>1. CASE p \in Rows(payments)
    BY <1>1, <2>1 DEF ReturnsOK, RP!NoOverRefund, Rows, RP!Rows, RowsGrow,
                      SameButStatus
  <2>2. CASE p \notin Rows(payments)
    <3>1. RP!CompletedRefunds(p) = {}
      BY <2>2 DEF ReturnsOK, RP!RefundSettledAndAudited, RP!CompletedRefunds,
                  Rows, RP!Rows
    <3>2. RP!GetTotalRefunded(p) = 0
      BY <3>1, RP!TotalEmpty, RefundConstants DEF RP!GetTotalRefunded
    <3> QED
      BY <1>0, <1>1, <2>2, <3>2 DEF RowsGrow, PaymentRow, Rows
  <2> QED
    BY <2>1, <2>2
<1>5. RP!RefundSettledAndAudited'
  BY DEF ReturnsOK, RP!RefundSettledAndAudited, RowsGrow, Rows, RP!Rows
<1> QED
  BY <1>2, <1>3, <1>4, <1>5 DEF ReturnsOK

-----------------------------------------------------------------------------
(* Whose step it is *)

PurchaseStep == [PP!Next]_PP!vars /\ UNCHANGED <<ofRefunds, others>>
ReturnStep == [RP!Next]_RP!vars /\ UNCHANGED <<ofPayments, others>>

\* A crash is a step of both services that leaves the tables alone, and the
\* end of the updates that have not written.
CrashStep ==
  /\ [PP!Next]_PP!vars
  /\ [RP!Next]_RP!vars
  /\ UNCHANGED <<payments, chargeLog, refunds, refundLog, report>>
  /\ update' = [p \in Updates |->
       IF update[p].pc = "write" THEN [update[p] EXCEPT !.pc = "done"]
                                 ELSE update[p]]

\* A client is shown a committed payment, or asks for the refunds of the one it
\* was shown.
ReadStep(c) ==
  /\ UNCHANGED <<payments, ofPayments, ofRefunds, update>>
  /\ \/ /\ report[c].pc = "idle"
        /\ report' = [report EXCEPT ![c].pc = "done"]
     \/ \E p \in Rows(payments) :
          report' = [report EXCEPT ![c] =
            [pc |-> "refunds", payment |-> p, row |-> payments[p],
             refunds |-> {}]]
     \/ GetRefundsByPayment(c)

\* A step of a payment request leaves the refunds and the others alone.
LEMMA PurchaseCases ==
  ASSUME NEW r \in Purchases,
         Purchase(r) \/ ServePurchase(r) \/ FailPurchase(r)
  PROVE  PurchaseStep
<1>1. PP!Receive(r) \/ PP!Serve(r) \/ PP!Fault(r)
  BY SamePurchases DEF Purchase, ServePurchase, FailPurchase
<1>2. PP!Next
  BY <1>1 DEF PP!Next
<1> QED
  BY <1>2 DEF PurchaseStep, Purchase, ServePurchase, FailPurchase

\* A step of a refund request leaves the payments' service and the others alone.
LEMMA ReturnCases ==
  ASSUME NEW r \in Returns, Return(r) \/ ServeReturn(r) \/ FailReturn(r)
  PROVE  ReturnStep
<1>1. RP!Receive(r) \/ RP!Serve(r) \/ RP!Fault(r)
  BY SameReturns DEF Return, ServeReturn, FailReturn
<1>2. RP!Next
  BY <1>1 DEF RP!Next
<1> QED
  BY <1>2 DEF ReturnStep, Return, ServeReturn, FailReturn

\* A crash is the crash of each service that has something in flight.
LEMMA CrashCases == Crash => CrashStep
<1> SUFFICES ASSUME Crash PROVE CrashStep
  OBVIOUS
<1>1. PP!Crash => PP!Next /\ UNCHANGED <<payments, chargeLog>>
  BY DEF PP!Next, PP!Crash, PP!database
<1>2. RP!Crash => RP!Next /\ UNCHANGED <<payments, refunds, refundLog>>
  BY DEF RP!Next, RP!Crash, RP!database
<1>3. CASE P!Crash /\ R!Crash
  BY <1>1, <1>2, <1>3, SamePurchases, SameReturns DEF Crash, CrashStep
<1>4. CASE P!Crash /\ UNCHANGED ofRefunds
  BY <1>1, <1>4, SamePurchases DEF Crash, CrashStep, ofRefunds, RP!vars
<1>5. CASE R!Crash /\ UNCHANGED ofPayments
  BY <1>2, <1>5, SameReturns DEF Crash, CrashStep, ofPayments, PP!vars
<1> QED
  BY <1>3, <1>4, <1>5 DEF Crash

\* What the read endpoints show is committed.
LEMMA ReadCases ==
  ASSUME NEW c \in Clients,
         GetPayment(c) \/ GetPaymentByOrderID(c) \/ GetRefundsByPayment(c)
  PROVE  ReadStep(c)
<1>1. ASSUME NEW found \in SUBSET Rows(payments), Show(c, found)
      PROVE  ReadStep(c)
  BY <1>1 DEF Show, ReadStep
<1>2. \A order : P!GetPaymentByOrderID(order) \subseteq Rows(payments)
  BY SamePurchases DEF PP!GetPaymentByOrderID, PP!Rows, Rows
<1> QED
  BY <1>1, <1>2 DEF GetPayment, GetPaymentByOrderID, ReadStep,
                    GetRefundsByPayment

\* Every step is one of a service, an update, a read or a crash.
LEMMA StepCases ==
  ASSUME [Next]_vars
  PROVE  \/ PurchaseStep
         \/ ReturnStep
         \/ \E p \in Updates : UpdateReads(p) \/ UpdateWrites(p)
         \/ \E c \in Clients : ReadStep(c)
         \/ CrashStep
         \/ UNCHANGED vars
BY PurchaseCases, ReturnCases, ReadCases, CrashCases DEF Next, Finished
-----------------------------------------------------------------------------
(* The invariant is inductive *)

\* The one thing a payment does to the tables: COMMIT adds the settled row of
\* the request, which had none, and its audit row.
PurchaseCommit(r) ==
  /\ ppc[r] = "commit" /\ r \notin Rows(payments)
  /\ payments' = [payments EXCEPT ![r] = pdraft[r]]
  /\ chargeLog' = chargeLog \cup
       {[payment |-> r, type |-> "CHARGE", amount |-> pdraft[r].amount,
         success |-> presult[r] = "ok"]}
  /\ Rows(payments)' = Rows(payments) \cup {r}
  /\ payments'[r] = pdraft[r]
  /\ \A p \in Purchases \ {r} : payments'[p] = payments[p]
  /\ pdraft[r].status = IF presult[r] = "ok" THEN "COMPLETED" ELSE "FAILED"
  /\ pdraft[r].amount > 0
  /\ pdraft[r].amount = preq[r].amount
  /\ pdraft[r].order = preq[r].order
  /\ preq[r] \in PurchaseInputs

\* Only the COMMIT of a payment writes the tables of PaymentService.
LEMMA PurchaseCommits ==
  ASSUME PurchasesOK, [PP!Next]_PP!vars
  PROVE  \/ UNCHANGED <<payments, chargeLog>>
         \/ \E r \in Purchases : PurchaseCommit(r)
<1> USE PurchaseConstants
<1>1. CASE UNCHANGED PP!database
  BY <1>1 DEF PP!database
<1>2. ASSUME NEW r \in Purchases, ppc[r] = "commit", PP!Committed(r)
      PROVE  PurchaseCommit(r)
  <2>1. PP!StepOK(r) /\ PP!Validated(r) /\ DOMAIN payments = Purchases
    BY DEF PurchasesOK, PP!TypeOK
  <2>2. /\ ptxLog[r] = {[payment |-> r, type |-> "CHARGE",
                         amount |-> pdraft[r].amount,
                         success |-> presult[r] = "ok"]}
        /\ ptxRow[r] = pdraft[r]
        /\ pdraft[r].amount = preq[r].amount /\ preq[r].amount > 0
        /\ pdraft[r].order = preq[r].order
        /\ pdraft[r].status = IF presult[r] = "ok" THEN "COMPLETED" ELSE "FAILED"
        /\ preq[r] \in PurchaseInputs
        /\ payments[r].status = "absent"
    BY <1>2, <2>1 DEF PP!StepOK, PP!Validated, PP!WrittenPcs, PP!DraftPcs,
                      PP!InTxPcs
  <2>3. /\ payments' = [payments EXCEPT ![r] = pdraft[r]]
        /\ r \notin Rows(payments)
    BY <1>2, <2>2 DEF PP!Committed, Rows
  <2>4. /\ payments'[r] = pdraft[r] /\ DOMAIN payments' = Purchases
        /\ \A p \in Purchases \ {r} : payments'[p] = payments[p]
    BY <2>1, <2>3
  <2>5. Rows(payments)' = Rows(payments) \cup {r}
    BY <2>1, <2>2, <2>4 DEF Rows
  <2> QED
    BY <1>2, <2>2, <2>3, <2>4, <2>5 DEF PurchaseCommit, PP!Committed
<1> QED
  BY <1>1, <1>2, PP!DatabaseNext

\* It writes no row that exists.
LEMMA PurchaseRows ==
  ASSUME PurchasesOK, ReturnsOK, [PP!Next]_PP!vars
  PROVE  /\ RowsGrow /\ LockedStay
         /\ \A p \in Rows(payments) : payments'[p] = payments[p]
<1>0. DOMAIN payments = Purchases /\ payments' \in [Purchases -> PaymentRow]
  <2>1. PP!TypeOK /\ PP!TypeOK'
    BY PurchaseNext DEF PurchasesOK
  <2> QED
    BY <2>1 DEF PP!TypeOK, PaymentRow, PP!PaymentRow, PaymentStatus,
                PP!PaymentStatus
<1>1. /\ \A p \in Rows(payments) : p \in Rows(payments)'
                                  /\ payments'[p] = payments[p]
      /\ \A p \in Rows(payments)' \ Rows(payments) : payments'[p].amount > 0
  BY <1>0, PurchaseCommits DEF PurchaseCommit, Rows
<1>2. RowsGrow
  BY <1>0, <1>1 DEF RowsGrow, SameButStatus
<1>3. LockedStay
  <2> SUFFICES ASSUME NEW r \in Returns, rpc[r] \in RP!LockedPcs
               PROVE  payments'[rreq[r].payment] = payments[rreq[r].payment]
    BY DEF LockedStay
  <2>1. RP!RefundStepOK(r) /\ rreq[r].payment \in Purchases
    BY DEF ReturnsOK, RP!RefundStepsConsistent, RP!TypeOK, RP!RequestType
  <2>2. payments[rreq[r].payment].status # "absent"
    BY <2>1 DEF RP!RefundStepOK, RP!Refundable
  <2> QED
    BY <1>0, <1>1, <2>1, <2>2 DEF Rows
<1> QED
  BY <1>1, <1>2, <1>3

\* A refund writes back the row it has locked, with another status.
LEMMA ReturnRows ==
  ASSUME ReturnsOK, LockedKept, [RP!Next]_RP!vars
  PROVE  RowsStay
<1>0. DOMAIN payments = Purchases /\ DOMAIN payments' = Purchases
      /\ payments \in [Purchases -> PaymentRow]
      /\ payments' \in [Purchases -> PaymentRow]
  <2>1. RP!TypeOK /\ RP!TypeOK'
    BY ReturnNext DEF ReturnsOK
  <2> QED
    BY <2>1 DEF RP!TypeOK, PaymentRow, RP!PaymentRow, PaymentStatus,
                RP!PaymentStatus
<1>1. CASE UNCHANGED <<payments, refunds, refundLog>>
  BY <1>0, <1>1 DEF RowsStay, RowsGrow, Rows, SameButStatus
<1>2. ASSUME NEW r \in Returns, RP!CommitReturn(r) PROVE RowsStay
  <2> DEFINE p == rreq[r].payment
  <2>1. RP!RefundStepOK(r) /\ rpc[r] = "commit" /\ p \in Purchases
    BY <1>2 DEF ReturnsOK, RP!RefundStepsConsistent, RP!CommitReturn, RP!TypeOK,
                RP!RequestType
  <2>2. payments' = [payments EXCEPT ![p] = rtxPayment[r]]
    BY <1>2 DEF RP!CommitReturn, RP!Committed
  <2>3. /\ rtxPayment[r] = rlocked[r]
        /\ rlocked[r].status = RP!SettledStatus(r)
        /\ payments[p].status # "absent"
        /\ rpc[r] \in RP!LockedPcs
    BY <2>1 DEF RP!RefundStepOK, RP!Refundable, RP!LockedPcs
  <2>4. SameButStatus(rlocked[r], payments[p]) /\ rlocked[r].status # "absent"
    BY <2>3 DEF LockedKept, RP!SettledStatus
  <2>5. payments'[p] = rlocked[r]
        /\ \A q \in Purchases : q # p => payments'[q] = payments[q]
    BY <1>0, <2>1, <2>2, <2>3
  <2>6. p \in Rows(payments) /\ Rows(payments)' = Rows(payments)
    BY <1>0, <2>1, <2>3, <2>4, <2>5 DEF Rows
  <2>7. \A q \in Rows(payments) : SameButStatus(payments'[q], payments[q])
    BY <1>0, <2>4, <2>5 DEF Rows, SameButStatus
  <2> QED
    BY <1>0, <2>5, <2>6, <2>7 DEF RowsStay, RowsGrow
<1> QED
  BY <1>1, <1>2, RP!TablesNext, RefundConstants

\* The row that a refund has locked is the committed one, but for the status.
LEMMA LockedNext ==
  ASSUME ReturnsOK, LockedKept, [RP!Next]_RP!vars
  PROVE  LockedKept'
<1> USE RefundConstants
<1> SUFFICES ASSUME NEW s \in Returns, rpc'[s] \in RP!LockedPcs
             PROVE  SameButStatus(rlocked'[s], payments'[rreq'[s].payment])
  BY DEF LockedKept
<1>0. RP!TypeOK /\ RP!RefundStepsConsistent
  BY DEF ReturnsOK
<1>1. ASSUME NEW r \in Returns, RP!Advance(r)
      PROVE  SameButStatus(rlocked'[s], payments'[rreq'[s].payment])
  <2>1. payments' = payments
    BY <1>1, RP!AdvanceFrame
  <2>2. CASE s # r
    <3>1. RP!Untouched(s)
      BY <1>0, <1>1, <2>2, RP!AdvanceOthers
    <3> QED
      BY <2>1, <3>1 DEF LockedKept, RP!Untouched
  <2>3. CASE s = r
    <3> USE DEF RP!Goto, RP!memory, RP!tx, RP!LockedPcs, RP!TypeOK
    <3>0. ASSUME NEW l \in RP!LockedPcs, RP!Goto(r, l)
          PROVE  \A code, x : ~RP!Return(r, code, x)
      BY <1>0, <3>0 DEF RP!Return
    <3>1. CASE \/ RP!Receive(r) \/ RP!Begin(r)
               \/ RP!FindByCorrelation(r) /\ RP!Goto(r, "find")
               \/ RP!GetPayment(r) /\ RP!Goto(r, "begin")
      <4>1. \E l : l \notin RP!LockedPcs /\ rpc' = [rpc EXCEPT ![r] = l]
        BY <3>1 DEF RP!Receive, RP!Begin
      <4> QED
        BY <1>0, <2>3, <4>1
    <3>2. CASE RP!GetPaymentForUpdate(r) /\ RP!Goto(r, "total")
      <4>1. rlocked' = [rlocked EXCEPT ![r] = payments[rreq[r].payment]]
            /\ rreq' = rreq
        BY <3>0, <3>2 DEF RP!GetPaymentForUpdate, RP!ReturnError
      <4> QED
        BY <1>0, <2>1, <2>3, <4>1 DEF SameButStatus
    <3>3. CASE \/ RP!CheckRemaining(r) /\ RP!Goto(r, "create")
               \/ RP!CreateRefund(r) \/ RP!MarkProcessing(r)
               \/ RP!CallGateway(r) \/ RP!CreateTransaction(r)
               \/ RP!SettleRefund(r)
      <4>1. rpc[r] \in RP!LockedPcs /\ UNCHANGED <<rlocked, rreq>>
        BY <3>0, <3>3 DEF RP!CheckRemaining, RP!ReturnError, RP!CreateRefund,
             RP!MarkProcessing, RP!CallGateway, RP!CreateTransaction,
             RP!SettleRefund
      <4> QED
        BY <2>1, <2>3, <4>1 DEF LockedKept
    <3>4. CASE RP!MarkRefundPending(r) \/ RP!SettlePayment(r)
      <4>1. /\ rpc[r] \in RP!LockedPcs /\ rreq' = rreq
            /\ \E status : rlocked' = [rlocked EXCEPT ![r].status = status]
        BY <3>4 DEF RP!MarkRefundPending, RP!SettlePayment
      <4>2. SameButStatus(rlocked'[r], rlocked[r])
        BY <1>0, <4>1 DEF SameButStatus, RP!PaymentRow
      <4> QED
        BY <2>1, <2>3, <4>1, <4>2 DEF LockedKept, SameButStatus
    <3> QED
      BY <1>1, <3>1, <3>2, <3>3, <3>4 DEF RP!Advance
  <2> QED
    BY <2>2, <2>3
<1>2. ASSUME NEW r \in Returns, RP!Rollback(r)
      PROVE  SameButStatus(rlocked'[s], payments'[rreq'[s].payment])
  BY <1>0, <1>2 DEF LockedKept, RP!Rollback, RP!Return, RP!Goto, RP!database,
                    RP!TypeOK, RP!LockedPcs
<1>3. ASSUME NEW r \in Returns, RP!CommitReturn(r)
      PROVE  SameButStatus(rlocked'[s], payments'[rreq'[s].payment])
  <2>1. /\ s # r /\ rpc[s] \in RP!LockedPcs /\ rlocked'[s] = rlocked[s]
        /\ rreq' = rreq /\ rpc[r] = "commit"
    BY <1>0, <1>3 DEF RP!CommitReturn, RP!Return, RP!Goto, RP!TypeOK,
                      RP!LockedPcs
  <2>2. rreq[s].payment # rreq[r].payment
    BY <1>0, <2>1 DEF RP!RefundStepsConsistent, RP!RowExclusive, RP!LockedPcs
  <2>3. payments'[rreq[s].payment] = payments[rreq[s].payment]
    BY <1>0, <1>3, <2>2 DEF RP!CommitReturn, RP!Committed, RP!TypeOK,
                            RP!RequestType
  <2> QED
    BY <2>1, <2>3 DEF LockedKept
<1>4. CASE RP!Crash
  BY <1>0, <1>4 DEF RP!Crash, RP!LockedPcs, RP!TypeOK, RP!InFlight
<1>5. CASE UNCHANGED RP!vars
  BY <1>5 DEF RP!vars, LockedKept
<1> QED
  BY <1>1, <1>2, <1>3, <1>4, <1>5, RP!NextCases

\* The row that UpdatePaymentStatus has read stays the committed one, but for
\* the status.
LEMMA UpdatesFrame ==
  ASSUME UpdatesKept, RowsGrow, UNCHANGED update
  PROVE  UpdatesKept'
BY DEF UpdatesKept, RowsGrow, Rows, SameButStatus

\* The audit row of a commit is the only one of its payment, and no other
\* payment's.
LEMMA CommitAudit ==
  ASSUME ChargesAudited, NEW r \in Purchases, PurchaseCommit(r)
  PROVE  /\ {t \in chargeLog' : t.payment = r} =
              ChargeOf(r, payments[r].status # "FAILED")'
         /\ \A q \in Rows(payments) :
              {t \in chargeLog' : t.payment = q} = {t \in chargeLog : t.payment = q}
<1> DEFINE log == [payment |-> r, type |-> "CHARGE",
                   amount |-> pdraft[r].amount, success |-> presult[r] = "ok"]
<1>1. chargeLog' = chargeLog \cup {log} /\ r \notin Rows(payments)
  BY DEF PurchaseCommit
<1>2. {t \in chargeLog' : t.payment = r} = {log}
  BY <1>1 DEF ChargesAudited
<1>3. {log} = ChargeOf(r, payments[r].status # "FAILED")'
  BY DEF ChargeOf, PurchaseCommit
<1>4. \A q \in Rows(payments) :
        {t \in chargeLog' : t.payment = q} = {t \in chargeLog : t.payment = q}
  BY <1>1
<1> QED
  BY <1>2, <1>3, <1>4

\* COMMIT of a payment adds its row and its audit row, which had neither.
LEMMA AuditNext ==
  ASSUME PurchasesOK, ChargesAudited, [PP!Next]_PP!vars
  PROVE  ChargesAudited'
<1>1. CASE UNCHANGED <<payments, chargeLog>>
  BY <1>1 DEF ChargesAudited, ChargeOf, Rows
<1>2. ASSUME NEW r \in Purchases, PurchaseCommit(r)
      PROVE  ChargesAudited'
  <2>1. /\ {t \in chargeLog' : t.payment = r} =
             ChargeOf(r, payments[r].status # "FAILED")'
        /\ \A q \in Rows(payments) :
             {t \in chargeLog' : t.payment = q} = {t \in chargeLog : t.payment = q}
    BY <1>2, CommitAudit
  <2>2. \A q \in Rows(payments), b \in BOOLEAN : ChargeOf(q, b)' = ChargeOf(q, b)
    BY <1>2 DEF PurchaseCommit, ChargeOf, Rows
  <2>3. ASSUME NEW q \in Rows(payments)'
        PROVE  /\ payments'[q].amount > 0
               /\ {t \in chargeLog' : t.payment = q}
                    \in {ChargeOf(q, b)' : b \in BOOLEAN}
    <3>1. CASE q = r
      BY <1>2, <2>1, <3>1 DEF PurchaseCommit
    <3>2. CASE q # r
      BY <1>2, <2>1, <2>2, <3>2 DEF ChargesAudited, PurchaseCommit, Rows
    <3> QED
      BY <3>1, <3>2
  <2>4. \A t \in chargeLog' : t.payment \in Rows(payments)'
    <3>1. \A t \in chargeLog' : t \in chargeLog \/ t.payment = r
      BY <1>2 DEF PurchaseCommit
    <3> QED
      BY <1>2, <3>1 DEF ChargesAudited, PurchaseCommit
  <2> QED
    BY <2>3, <2>4 DEF ChargesAudited
<1> QED
  BY <1>1, <1>2, PurchaseCommits

\* No other step touches the charges or the amounts.
LEMMA AuditFrame ==
  ASSUME ChargesAudited, RowsStay, UNCHANGED chargeLog,
         DOMAIN payments = Purchases
  PROVE  ChargesAudited'
<1>1. /\ Rows(payments)' = Rows(payments)
      /\ \A p \in Rows(payments) : payments'[p].amount = payments[p].amount
  BY DEF RowsStay, RowsGrow, Rows, SameButStatus
<1> QED
  BY <1>1 DEF ChargesAudited, ChargeOf

\* What UpdatePaymentStatus and the clients hold stays well typed.
LEMMA OthersNext ==
  ASSUME SInv, [Next]_vars
  PROVE  OthersTypeOK'
<1> USE DEF OthersTypeOK
<1>0. /\ payments \in [Purchases -> PaymentRow] /\ Updates \subseteq Purchases
      /\ OthersTypeOK /\ NoRow \in PaymentRow
      /\ refunds \in [Returns -> RP!RefundRow]
  BY CompositionAssumption, TrimAssumption
     DEF SInv, ReturnsOK, RP!TypeOK, PaymentRow, RP!PaymentRow, PaymentStatus,
         RP!PaymentStatus, NoRow
<1>1. ASSUME NEW p \in Updates, UpdateReads(p) \/ UpdateWrites(p)
      PROVE  OthersTypeOK'
  BY <1>0, <1>1 DEF UpdateReads, UpdateWrites
<1>2. ASSUME NEW c \in Clients, ReadStep(c) PROVE OthersTypeOK'
  <2>1. Rows(payments) \subseteq Purchases /\ Rows(refunds) \subseteq Returns
    BY <1>0 DEF Rows
  <2>2. CASE GetRefundsByPayment(c)
    <3>1. \E shown \in SUBSET Returns :
            report' = [report EXCEPT ![c].pc = "done", ![c].refunds = shown]
      BY <2>1, <2>2 DEF GetRefundsByPayment
    <3> QED
      BY <1>0, <1>2, <3>1 DEF ReadStep
  <2>3. CASE report' = [report EXCEPT ![c].pc = "done"]
    BY <1>0, <1>2, <2>3 DEF ReadStep
  <2>4. CASE \E p \in Rows(payments) :
               report' = [report EXCEPT ![c] =
                 [pc |-> "refunds", payment |-> p, row |-> payments[p],
                  refunds |-> {}]]
    BY <1>0, <1>2, <2>1, <2>4 DEF ReadStep
  <2> QED
    BY <1>2, <2>2, <2>3, <2>4 DEF ReadStep
<1>3. CASE CrashStep
  BY <1>0, <1>3 DEF CrashStep
<1>4. CASE PurchaseStep \/ ReturnStep
  BY <1>0, <1>4 DEF PurchaseStep, ReturnStep, others
<1>5. CASE UNCHANGED vars
  BY <1>0, <1>5 DEF vars, others
<1> QED
  BY <1>1, <1>2, <1>3, <1>4, <1>5, StepCases

\* UpdatePaymentStatus writes back the row it has read, with another status,
\* and waits for a refund that has it locked.
LEMMA UpdateRows ==
  ASSUME SInv, NEW p \in Updates, UpdateWrites(p)
  PROVE  RowsStay /\ LockedStay /\ UpdatesKept'
<1>0. /\ p \in Purchases /\ payments \in [Purchases -> PaymentRow]
      /\ update[p].row \in PaymentRow /\ NewStatuses \subseteq PaymentStatus
      /\ p \in Rows(payments) /\ SameButStatus(update[p].row, payments[p])
      /\ DOMAIN update = Updates /\ update[p].pc = "write"
  BY CompositionAssumption
     DEF SInv, ReturnsOK, RP!TypeOK, PaymentRow, RP!PaymentRow, PaymentStatus,
         RP!PaymentStatus, UpdatesKept, UpdateWrites, OthersTypeOK
<1>1. PICK s \in NewStatuses :
        payments' = [payments EXCEPT ![p] = [update[p].row EXCEPT !.status = s]]
  BY DEF UpdateWrites
<1>2. s \in PaymentStatus /\ s # "absent"
  BY <1>0 DEF PaymentStatus
<1> DEFINE row == [update[p].row EXCEPT !.status = s]
<1>3. /\ row \in PaymentRow /\ row.status = s
      /\ SameButStatus(row, payments[p])
      /\ SameButStatus(update[p].row, row)
  BY <1>0, <1>2 DEF PaymentRow, SameButStatus
<1>4. payments' = [payments EXCEPT ![p] = row]
  BY <1>1
<1> HIDE DEF row
<1>5. /\ payments'[p] = row /\ DOMAIN payments' = Purchases
      /\ \A q \in Purchases : q # p => payments'[q] = payments[q]
      /\ payments' \in [Purchases -> PaymentRow]
  BY <1>0, <1>3, <1>4
<1>6. Rows(payments)' = Rows(payments)
  BY <1>0, <1>2, <1>3, <1>5 DEF Rows
<1>7. RowsStay
  BY <1>0, <1>3, <1>5, <1>6 DEF RowsStay, RowsGrow, Rows, SameButStatus
<1>8. LockedStay
  BY <1>0, <1>5, SameReturns
     DEF LockedStay, UpdateWrites, RP!RowLocked, SInv, ReturnsOK, RP!TypeOK,
         RP!RequestType
<1>9. /\ update'[p].row = update[p].row
      /\ \A q \in Updates : q # p => update'[q] = update[q]
  BY <1>0 DEF UpdateWrites
<1>10. ASSUME NEW q \in Updates, update'[q].pc \in {"write", "written"}
       PROVE  q \in Rows(payments)'
              /\ SameButStatus(update'[q].row, payments'[q])
  <2>1. CASE q = p
    BY <1>0, <1>3, <1>5, <1>6, <1>9, <2>1
  <2>2. CASE q # p
    <3>1. q \in Rows(payments) /\ SameButStatus(update[q].row, payments[q])
      BY <1>9, <1>10, <2>2 DEF SInv, UpdatesKept
    <3> QED
      BY <1>0, <1>5, <1>6, <1>9, <2>2, <3>1 DEF Rows
  <2> QED
    BY <2>1, <2>2
<1> QED
  BY <1>7, <1>8, <1>10 DEF UpdatesKept

\* Init has no payment, no refund and nobody in the middle of anything.
LEMMA ServiceInit == Init => SInv
<1> SUFFICES ASSUME Init PROVE SInv
  OBVIOUS
<1>0. PP!Init /\ RP!Init
  BY SamePurchases, SameReturns DEF Init
<1>1. PurchasesOK
  <2>1. PP!TypeOK /\ \A r \in Purchases : PP!StepOK(r)
    BY <1>0, PP!TypeInit, PP!StepInit, PurchaseConstants
  <2>2. \A r \in Purchases : PP!Validated(r) /\ PP!SeenStops(r)
    BY <1>0 DEF PP!Init, PP!Validated, PP!SeenStops
  <2>3. PP!KeyUnique /\ PP!OpenKeyUnique
    BY <1>0 DEF PP!Init, PP!KeyUnique, PP!OpenKeyUnique, PP!NoRow
  <2> QED
    BY <2>1, <2>2, <2>3 DEF PurchasesOK
<1>2. ReturnsOK
  BY <1>0, RP!TypeInit, RP!StepInit, RP!TablesInit, RefundConstants
     DEF ReturnsOK
<1>3. OthersTypeOK
  <2>1. NoRow \in PaymentRow
    BY TrimAssumption DEF NoRow, PaymentRow
  <2> QED
    BY <2>1 DEF Init, OthersTypeOK, NoUpdate, NoReport
<1>4. LockedKept
  BY <1>0 DEF RP!Init, LockedKept, RP!LockedPcs
<1>5. UpdatesKept
  BY DEF Init, UpdatesKept, NoUpdate
<1>6. ChargesAudited
  <2>1. payments = [p \in Purchases |-> PP!NoRow] /\ chargeLog = {}
    BY <1>0 DEF PP!Init
  <2> QED
    BY <2>1 DEF ChargesAudited, Rows, PP!NoRow
<1> QED
  BY <1>1, <1>2, <1>3, <1>4, <1>5, <1>6 DEF SInv

\* Every step keeps the invariant.
LEMMA ServiceNext ==
  ASSUME SInv, [Next]_vars
  PROVE  SInv'
<1>0. /\ PurchasesOK /\ ReturnsOK /\ OthersTypeOK /\ LockedKept /\ UpdatesKept
      /\ ChargesAudited /\ DOMAIN payments = Purchases
      /\ payments \in [Purchases -> PaymentRow]
  BY DEF SInv, ReturnsOK, RP!TypeOK, PaymentRow, RP!PaymentRow, PaymentStatus,
         RP!PaymentStatus
<1>1. OthersTypeOK'
  BY OthersNext
<1>2. CASE PurchaseStep
  <2>1. RowsGrow /\ LockedStay
    BY <1>0, <1>2, PurchaseRows DEF PurchaseStep
  <2>2. PurchasesOK' /\ ReturnsOK' /\ ChargesAudited'
    BY <1>0, <1>2, <2>1, PurchaseNext, ReturnsFrame, AuditNext DEF PurchaseStep
  <2>3. LockedKept'
    BY <1>0, <1>2, <2>1 DEF PurchaseStep, ofRefunds, LockedKept, LockedStay
  <2>4. UpdatesKept'
    BY <1>0, <1>2, <2>1, UpdatesFrame DEF PurchaseStep, others
  <2> QED
    BY <1>1, <2>2, <2>3, <2>4 DEF SInv
<1>3. CASE ReturnStep
  <2>1. RowsStay /\ RowsGrow /\ LockedKept'
    BY <1>0, <1>3, ReturnRows, LockedNext DEF ReturnStep, RowsStay
  <2>2. PurchasesOK' /\ ReturnsOK' /\ ChargesAudited'
    BY <1>0, <1>3, <2>1, PurchasesFrame, ReturnNext, AuditFrame
       DEF ReturnStep, ofPayments
  <2>3. UpdatesKept'
    BY <1>0, <1>3, <2>1, UpdatesFrame DEF ReturnStep, others
  <2> QED
    BY <1>1, <2>1, <2>2, <2>3 DEF SInv
<1>4. ASSUME NEW p \in Updates, UpdateWrites(p) PROVE SInv'
  <2>1. RowsStay /\ RowsGrow /\ LockedStay /\ UpdatesKept'
    BY <1>4, UpdateRows DEF RowsStay
  <2>2. PurchasesOK' /\ ReturnsOK' /\ ChargesAudited'
    BY <1>0, <1>4, <2>1, PurchasesFrame, ReturnsFrame, AuditFrame
       DEF UpdateWrites, ofPayments
  <2>3. LockedKept'
    BY <1>0, <1>4, <2>1 DEF UpdateWrites, ofRefunds, LockedKept, LockedStay
  <2> QED
    BY <1>1, <2>1, <2>2, <2>3 DEF SInv
<1>5. ASSUME UNCHANGED <<payments, ofPayments, ofRefunds>>
      PROVE  /\ RowsStay /\ PurchasesOK' /\ ReturnsOK' /\ ChargesAudited'
             /\ LockedKept'
  <2>1. RowsStay /\ RowsGrow /\ LockedStay
    BY <1>0, <1>5 DEF RowsStay, RowsGrow, LockedStay, Rows, SameButStatus
  <2> QED
    BY <1>0, <1>5, <2>1, PurchasesFrame, ReturnsFrame, AuditFrame
       DEF LockedKept, ofPayments, ofRefunds
<1>6. ASSUME NEW p \in Updates, UpdateReads(p) PROVE SInv'
  <2>1. UpdatesKept'
    BY <1>0, <1>6 DEF UpdateReads, UpdatesKept, OthersTypeOK, Rows,
                      SameButStatus
  <2> QED
    BY <1>1, <1>5, <1>6, <2>1 DEF SInv, UpdateReads
<1>7. ASSUME NEW c \in Clients, ReadStep(c) PROVE SInv'
  BY <1>0, <1>1, <1>5, <1>7 DEF SInv, ReadStep, UpdatesKept
<1>8. CASE CrashStep
  <2>1. RowsStay /\ LockedKept'
    BY <1>0, <1>8, ReturnRows, LockedNext DEF CrashStep
  <2>2. PurchasesOK' /\ ReturnsOK' /\ ChargesAudited'
    BY <1>0, <1>8, <2>1, PurchaseNext, ReturnNext, AuditFrame DEF CrashStep
  <2>3. UpdatesKept'
    BY <1>0, <1>8 DEF CrashStep, UpdatesKept, OthersTypeOK
  <2> QED
    BY <1>1, <2>1, <2>2, <2>3 DEF SInv
<1>9. CASE UNCHANGED vars
  BY <1>0, <1>1, <1>5, <1>9 DEF SInv, vars, others, UpdatesKept
<1> QED
  BY <1>2, <1>3, <1>4, <1>6, <1>7, <1>8, <1>9, StepCases

\* Whatever payments, refunds, UpdatePaymentStatus and crashes do to the common
\* tables, each service keeps what it relies on; in particular a row that is
\* written back whole, by a refund or by UpdatePaymentStatus, is the committed
\* one but for its status.
THEOREM ServiceInductive == Spec => []SInv
BY ServiceInit, ServiceNext, PTL DEF Spec

\* The COMPLETED refunds of a payment never add up to more than it, although
\* UpdatePaymentStatus may reopen a payment that was refunded meanwhile.
THEOREM NoOverRefundHolds == Spec => []NoOverRefund
<1>1. SInv => NoOverRefund
  BY SameReturns DEF SInv, ReturnsOK, RP!NoOverRefund, NoOverRefund, Rows,
                     RP!Rows
<1> QED
  BY <1>1, ServiceInductive, PTL
-----------------------------------------------------------------------------
(* The audit log tells the account *)

\* What others write leaves the status of payment p true.
LEMMA ToldFrame ==
  ASSUME NEW p, Told(p), payments'[p] = payments[p], UNCHANGED refunds,
         {t \in chargeLog' : t.payment = p} = {t \in chargeLog : t.payment = p}
  PROVE  Told(p)'
<1>1. /\ RP!GetTotalRefunded(p)' = RP!GetTotalRefunded(p)
      /\ RP!FailedRefunds(p)' = RP!FailedRefunds(p)
  BY RP!TotalStays, RefundConstants DEF RP!FailedRefunds
<1> QED
  BY <1>1 DEF Told, RP!StatusMatches, ChargeOf

\* A payment without refunds.
LEMMA NoRefunds ==
  ASSUME ReturnsOK, NEW p, p \notin Rows(payments)
  PROVE  /\ RP!CompletedRefunds(p) = {} /\ RP!FailedRefunds(p) = {}
         /\ RP!GetTotalRefunded(p) = 0
<1>1. RP!CompletedRefunds(p) = {} /\ RP!FailedRefunds(p) = {}
  BY DEF ReturnsOK, RP!RefundSettledAndAudited, RP!CompletedRefunds,
         RP!FailedRefunds, Rows, RP!Rows
<1> QED
  BY <1>1, RP!TotalEmpty, RefundConstants DEF RP!GetTotalRefunded

\* The payment that COMMIT adds has no refunds, and its audit row agrees.
LEMMA ToldCommit ==
  ASSUME SInv, NEW r \in Purchases, PurchaseCommit(r), UNCHANGED refunds
  PROVE  Told(r)'
<1>1. RP!CompletedRefunds(r) = {} /\ RP!FailedRefunds(r) = {}
      /\ RP!GetTotalRefunded(r) = 0
  BY NoRefunds DEF SInv, PurchaseCommit
<1>2. RP!GetTotalRefunded(r)' = 0 /\ RP!FailedRefunds(r)' = {}
  BY <1>1, RP!TotalStays, RefundConstants DEF RP!FailedRefunds
<1>3. {t \in chargeLog' : t.payment = r} =
        ChargeOf(r, payments[r].status # "FAILED")'
  BY CommitAudit DEF SInv
<1>4. payments'[r].status \in {"COMPLETED", "FAILED"} /\ payments'[r].amount > 0
  BY DEF PurchaseCommit
<1> QED
  BY <1>2, <1>3, <1>4 DEF Told, RP!StatusMatches

\* A refund neither starts from nor leads to FAILED.
LEMMA ReturnStatus ==
  ASSUME ReturnsOK, LockedKept, [RP!Next]_RP!vars, NEW p \in Purchases
  PROVE  \/ payments'[p] = payments[p]
         \/ /\ payments[p].status \in {"COMPLETED", "REFUND_PENDING"}
            /\ payments'[p].status \in {"COMPLETED", "REFUNDED", "REFUND_FAILED"}
<1>1. CASE UNCHANGED <<payments, refunds, refundLog>>
  BY <1>1
<1>2. ASSUME NEW r \in Returns, RP!CommitReturn(r)
      PROVE  \/ payments'[p] = payments[p]
             \/ /\ payments[p].status \in {"COMPLETED", "REFUND_PENDING"}
                /\ payments'[p].status \in {"COMPLETED", "REFUNDED", "REFUND_FAILED"}
  <2>1. rpc[r] = "commit" /\ RP!Committed(r)
    BY <1>2 DEF RP!CommitReturn
  <2>2. RP!TypeOK /\ \A s \in Returns : RP!RefundStepOK(s)
    BY DEF ReturnsOK, RP!RefundStepsConsistent
  <2>3. LET q == rreq[r].payment IN
        /\ \A s \in Purchases : s # q => payments'[s] = payments[s]
        /\ payments'[q].status = RP!SettledStatus(r)
        /\ RP!Refundable(payments[q].status)
    BY <2>1, <2>2, RP!CommitRows, RefundConstants
  <2> QED
    BY <2>3 DEF RP!SettledStatus, RP!Refundable
<1> QED
  BY <1>1, <1>2, RP!TablesNext, RefundConstants

\* Every step keeps the status of a payment in accord with its charge and
\* its refunds, until UpdatePaymentStatus writes it.
LEMMA ToldNext ==
  ASSUME SInv, StatusTold, [Next]_vars
  PROVE  StatusTold'
<1>0. /\ PurchasesOK /\ ReturnsOK /\ OthersTypeOK /\ LockedKept /\ UpdatesKept
      /\ ChargesAudited /\ DOMAIN payments = Purchases
  BY DEF SInv, ReturnsOK, RP!TypeOK
<1> SUFFICES ASSUME NEW p \in Rows(payments)', ~Updated(p)'
             PROVE  Told(p)'
  BY DEF StatusTold
<1>1. ASSUME UNCHANGED <<payments, chargeLog, refunds>>,
             Updated(p) => Updated(p)'
      PROVE  Told(p)'
  BY <1>1, ToldFrame DEF StatusTold, Rows
<1>2. CASE PurchaseStep
  <2>0. ~Updated(p) /\ UNCHANGED refunds
    BY <1>2 DEF PurchaseStep, ofRefunds, others, Updated
  <2>1. CASE UNCHANGED <<payments, chargeLog>>
    BY <1>1, <2>0, <2>1
  <2>2. ASSUME NEW r \in Purchases, PurchaseCommit(r) PROVE Told(p)'
    <3>1. CASE p = r
      BY <2>0, <2>2, <3>1, ToldCommit
    <3>2. CASE p # r
      <4>1. p \in Rows(payments) /\ payments'[p] = payments[p]
        BY <1>0, <2>2, <3>2 DEF PurchaseCommit, Rows
      <4>2. {t \in chargeLog' : t.payment = p} = {t \in chargeLog : t.payment = p}
        BY <1>0, <2>2, <4>1, CommitAudit
      <4> QED
        BY <2>0, <4>1, <4>2, ToldFrame DEF StatusTold
    <3> QED
      BY <3>1, <3>2
  <2> QED
    BY <1>0, <1>2, <2>1, <2>2, PurchaseCommits DEF PurchaseStep
<1>3. CASE ReturnStep
  <2>1. /\ RowsStay /\ RowsGrow /\ p \in Rows(payments) /\ p \in Purchases
        /\ ~Updated(p) /\ chargeLog' = chargeLog
    BY <1>0, <1>3, ReturnRows
       DEF ReturnStep, RowsStay, RowsGrow, Rows, others, ofPayments, Updated
  <2>2. Told(p)
    BY <2>1 DEF StatusTold
  <2>3. RP!StatusMatches(p)'
    BY <1>0, <1>3, <2>1, <2>2, RP!StatusStep, RefundConstants
       DEF ReturnStep, ReturnsOK, Told, Rows, RP!Rows
  <2>4. /\ payments'[p].amount = payments[p].amount
        /\ payments'[p].status = "FAILED" <=> payments[p].status = "FAILED"
    BY <1>0, <1>3, <2>1, ReturnStatus DEF ReturnStep, RowsGrow, SameButStatus
  <2> QED
    BY <2>1, <2>2, <2>3, <2>4 DEF Told, ChargeOf
<1>4. ASSUME NEW q \in Updates, UpdateWrites(q) PROVE Told(p)'
  <2>1. p # q
    BY <1>0, <1>4 DEF UpdateWrites, Updated, OthersTypeOK
  <2>2. /\ payments'[p] = payments[p] /\ p \in Rows(payments) /\ ~Updated(p)
        /\ UNCHANGED <<refunds, chargeLog>>
    BY <1>0, <1>4, <2>1
       DEF UpdateWrites, Updated, OthersTypeOK, ofRefunds, ofPayments, Rows
  <2> QED
    BY <2>2, ToldFrame DEF StatusTold
<1>5. ASSUME NEW q \in Updates, UpdateReads(q) PROVE Told(p)'
  BY <1>0, <1>1, <1>5 DEF UpdateReads, Updated, OthersTypeOK, ofRefunds,
                          ofPayments
<1>6. ASSUME NEW c \in Clients, ReadStep(c) PROVE Told(p)'
  BY <1>1, <1>6 DEF ReadStep, Updated, ofRefunds, ofPayments
<1>7. CASE CrashStep
  BY <1>0, <1>1, <1>7 DEF CrashStep, Updated, OthersTypeOK
<1>8. CASE UNCHANGED vars
  BY <1>1, <1>8 DEF vars, ofPayments, ofRefunds, others, Updated
<1> QED
  BY <1>2, <1>3, <1>4, <1>5, <1>6, <1>7, <1>8, StepCases

\* The audit log, written by two services in separate transactions, and the
\* refunds tell the same account, and the status of a payment that
\* UpdatePaymentStatus has not written agrees with both.
THEOREM AuditTellsAccountHolds == Spec => []AuditTellsAccount
<1>1. Init => StatusTold
  <2>1. Init => payments = [p \in Purchases |-> PP!NoRow]
    BY SamePurchases DEF Init, PP!Init
  <2> QED
    BY <2>1 DEF StatusTold, Rows, PP!NoRow
<1>2. SInv /\ SInv' /\ StatusTold /\ [Next]_vars => StatusTold'
  BY ToldNext
<1>3. ASSUME SInv, StatusTold PROVE AuditTellsAccount
  <2> SUFFICES ASSUME NEW p \in Rows(payments) \ {q \in Purchases : Updated(q)}
               PROVE
    LET refundRows == {t \in refundLog : t.payment = p}
        returned == {t.refund : t \in {u \in refundRows : u.success}}
    IN /\ {t \in chargeLog : t.payment = p} =
            {[payment |-> p, type |-> "CHARGE", amount |-> payments[p].amount,
              success |-> payments[p].status # "FAILED"]}
       /\ (payments[p].status = "REFUNDED") <=>
            (payments[p].amount =
               Total(returned, [q \in Returns |-> refunds[q].amount]))
       /\ (payments[p].status = "REFUND_FAILED") <=>
            (\E t \in refundRows : ~t.success)
    BY DEF AuditTellsAccount
  <2> DEFINE refundRows == {t \in refundLog : t.payment = p}
             returned == {t.refund : t \in {u \in refundRows : u.success}}
             Log(q) == [refund |-> q, payment |-> refunds[q].payment,
                        type |-> "REFUND", amount |-> refunds[q].amount,
                        success |-> refunds[q].status = "COMPLETED"]
  <2>0. Told(p) /\ RP!RefundSettledAndAudited
    BY <1>3 DEF StatusTold, SInv, ReturnsOK, RP!TypeOK, Rows
  <2>1. /\ \A q \in Rows(refunds) :
             /\ refunds[q].status \in {"COMPLETED", "FAILED"}
             /\ {t \in refundLog : t.refund = q} = {Log(q)}
        /\ \A t \in refundLog : t.refund \in Rows(refunds)
    BY <2>0 DEF RP!RefundSettledAndAudited, Rows, RP!Rows
  <2>2. \A t \in refundLog : t = Log(t.refund)
    BY <2>1
  <2>7. ASSUME NEW t \in refundLog
        PROVE  /\ t.refund \in Rows(refunds)
               /\ t.payment = refunds[t.refund].payment
               /\ t.success = (refunds[t.refund].status = "COMPLETED")
    <3>1. t = Log(t.refund)
      BY <2>2
    <3>2. \A q : /\ Log(q).payment = refunds[q].payment
                 /\ Log(q).success = (refunds[q].status = "COMPLETED")
      OBVIOUS
    <3> HIDE DEF Log
    <3> QED
      BY <2>1, <3>1, <3>2
  <2>8. ASSUME NEW q \in Rows(refunds) PROVE \E t \in refundLog : t.refund = q
    <3>1. Log(q) \in {t \in refundLog : t.refund = q}
      BY <2>1
    <3> QED
      BY <3>1
  <2> HIDE DEF Log
  <2>4. returned = RP!CompletedRefunds(p)
    <3>1. \A q : q \in returned <=>
                  \E t \in refundLog : t.payment = p /\ t.success /\ q = t.refund
      OBVIOUS
    <3>2. ASSUME NEW q \in returned PROVE q \in RP!CompletedRefunds(p)
      BY <2>7, <3>1, <3>2 DEF RP!CompletedRefunds, Rows, RP!Rows
    <3>3. ASSUME NEW q \in RP!CompletedRefunds(p) PROVE q \in returned
      <4>1. q \in Rows(refunds) /\ refunds[q].status = "COMPLETED"
            /\ refunds[q].payment = p
        BY DEF RP!CompletedRefunds, Rows, RP!Rows
      <4>2. PICK t \in refundLog : t.refund = q
        BY <2>8, <4>1
      <4>3. t.payment = p /\ t.success
        BY <2>7, <4>1, <4>2
      <4> QED
        BY <3>1, <4>2, <4>3
    <3> QED
      BY <3>2, <3>3
  <2>5. (\E t \in refundRows : ~t.success) <=> RP!FailedRefunds(p) # {}
    <3>1. ASSUME NEW t \in refundRows, ~t.success
          PROVE  t.refund \in RP!FailedRefunds(p)
      BY <2>1, <2>7, <3>1 DEF RP!FailedRefunds, Rows, RP!Rows
    <3>2. ASSUME NEW q \in RP!FailedRefunds(p)
          PROVE  \E t \in refundRows : ~t.success
      <4>1. q \in Rows(refunds) /\ refunds[q].status = "FAILED"
            /\ refunds[q].payment = p
        BY DEF RP!FailedRefunds, Rows, RP!Rows
      <4>2. PICK t \in refundLog : t.refund = q
        BY <2>8, <4>1
      <4>3. t.payment = p /\ ~t.success
        BY <2>7, <4>1, <4>2
      <4> QED
        BY <4>2, <4>3
    <3> QED
      BY <3>1, <3>2
  <2>6. RP!GetTotalRefunded(p)
          = Total(returned, [q \in Returns |-> refunds[q].amount])
    BY <2>4 DEF RP!GetTotalRefunded, RP!Amounts, RP!Total, Total, RP!UnitsOf,
                UnitsOf, RP!Cardinality, Cardinality
  <2> QED
    BY <2>0, <2>5, <2>6 DEF Told, ChargeOf, RP!StatusMatches
<1> QED
  BY <1>1, <1>2, <1>3, ServiceInductive, PTL DEF Spec
-----------------------------------------------------------------------------
(* A retry of a payment that was refunded meanwhile *)

\* What a payment's own step does to the answers: none, or the request is done;
\* from the first lookup only with the payment that was found.
LEMMA ServeReplies ==
  ASSUME PP!TypeOK, NEW r \in Purchases, PP!Serve(r) \/ PP!Fault(r)
  PROVE  /\ ppc[r] \notin {"idle", "done"}
         /\ UNCHANGED <<preq, pseen>>
         /\ \A s \in Purchases \ {r} : ppc'[s] = ppc[s]
         /\ \/ UNCHANGED preply
            \/ /\ ppc'[r] = "done"
               /\ \E x : preply' = [preply EXCEPT ![r] = x]
               /\ ppc[r] = "key" =>
                    \/ preply'[r].code = "500"
                    \/ preply'[r].payment
                         \in PP!GetPaymentByIdempotencyKey(PP!Key(r))
<1> USE DEF PP!TypeOK, PP!Goto
<1>1. ASSUME NEW code, NEW p, PP!Return(r, code, p)
      PROVE  /\ ppc'[r] = "done"
             /\ preply' = [preply EXCEPT ![r] = [code |-> code, payment |-> p]]
             /\ preply'[r].code = code /\ preply'[r].payment = p
             /\ \A s \in Purchases \ {r} : ppc'[s] = ppc[s]
  BY <1>1 DEF PP!Return
<1>2. PP!APIErrorFromErr("Other") = "500"
  BY DEF PP!APIErrorFromErr
<1> HIDE DEF PP!TypeOK
<1>3. CASE PP!FindByKey(r)
  <2>1. CASE \E p \in PP!GetPaymentByIdempotencyKey(PP!Key(r)) :
               PP!ReturnPayment(r, p, payments[p])
    BY <1>1, <1>3, <2>1 DEF PP!FindByKey, PP!ReturnPayment
  <2>2. CASE PP!Goto(r, "order") /\ UNCHANGED preply
    BY <1>3, <2>2 DEF PP!FindByKey, PP!TypeOK
  <2> QED
    BY <1>3, <2>1, <2>2 DEF PP!FindByKey
<1>4. CASE PP!StatementFails(r)
  BY <1>1, <1>2, <1>4 DEF PP!StatementFails, PP!ReturnError, PP!DbPcs, PP!InTxPcs
<1>5. CASE PP!CommitAnswerLost(r)
  BY <1>1, <1>2, <1>5 DEF PP!CommitAnswerLost, PP!ReturnError
<1>6. CASE \/ PP!Charge(r) \/ PP!Begin(r) \/ PP!CreatePayment(r)
           \/ PP!CreatePaymentConflict(r) \/ PP!MarkProcessing(r)
           \/ PP!CreateTransaction(r) \/ PP!Settle(r)
  BY <1>6 DEF PP!TypeOK, PP!Charge, PP!Begin, PP!CreatePayment,
       PP!CreatePaymentConflict, PP!MarkProcessing, PP!CreateTransaction,
       PP!Settle, PP!memory
<1>7. CASE PP!FindByOrder(r)
  <2>1. CASE \E p : PP!ReturnPayment(r, p, payments[p])
    BY <1>1, <1>7, <2>1 DEF PP!FindByOrder, PP!ReturnPayment
  <2>2. CASE PP!Goto(r, "route") /\ UNCHANGED preply
    BY <1>7, <2>2 DEF PP!FindByOrder, PP!TypeOK
  <2> QED
    BY <1>7, <2>1, <2>2 DEF PP!FindByOrder
<1>8. CASE PP!Route(r)
  <2>1. CASE PP!ReturnError(r, "GatewayUnavailable")
    BY <1>1, <1>8, <2>1 DEF PP!Route, PP!ReturnError
  <2>2. CASE PP!Goto(r, "charge") /\ UNCHANGED preply
    BY <1>8, <2>2 DEF PP!Route, PP!TypeOK
  <2> QED
    BY <1>8, <2>1, <2>2 DEF PP!Route
<1>9. CASE PP!CreatePaymentTooLong(r) \/ PP!Commit(r)
  BY <1>1, <1>9 DEF PP!CreatePaymentTooLong, PP!Commit, PP!ReturnError,
                    PP!ReturnPayment
<1>10. CASE PP!Recover(r)
  <2>1. CASE \E p : PP!ReturnPayment(r, p, payments[p])
    BY <1>1, <1>10, <2>1 DEF PP!Recover, PP!ReturnPayment
  <2>2. CASE PP!ReturnError(r, "Other")
    BY <1>1, <1>10, <2>2 DEF PP!Recover, PP!ReturnError
  <2> QED
    BY <1>10, <2>1, <2>2 DEF PP!Recover
<1> QED
  BY <1>3, <1>4, <1>5, <1>6, <1>7, <1>8, <1>9, <1>10 DEF PP!Serve, PP!Fault

\* A known duplicate goes on being answered with the payment of its key.
LEMMA RepliesNext ==
  ASSUME SInv, RepliesToSeen, [PP!Next]_PP!vars
  PROVE  RepliesToSeen'
<1>0. PP!TypeOK /\ PurchasesOK /\ ReturnsOK /\ DOMAIN payments = Purchases
  BY DEF SInv, PurchasesOK, PP!TypeOK
<1> SUFFICES ASSUME NEW s \in Purchases
             PROVE  /\ ppc'[s] # "done" => ~PP!Answered(s)'
                    /\ pseen'[s].key /\ PP!CleanKey(s)' /\ PP!Answered(s)' =>
                         /\ preply'[s].payment \in Rows(payments)' \ {s}
                         /\ payments'[preply'[s].payment].key = Trim[PP!Key(s)']
  BY DEF RepliesToSeen
<1>1. RowsGrow
  BY <1>0, PurchaseRows
<1>2. ASSUME UNCHANGED <<preq[s], pseen[s], preply[s]>>,
             ppc'[s] = ppc[s] \/ ppc'[s] = "done"
      PROVE  /\ ppc'[s] # "done" => ~PP!Answered(s)'
             /\ pseen'[s].key /\ PP!CleanKey(s)' /\ PP!Answered(s)' =>
                  /\ preply'[s].payment \in Rows(payments)' \ {s}
                  /\ payments'[preply'[s].payment].key = Trim[PP!Key(s)']
  BY <1>1, <1>2 DEF RepliesToSeen, PP!Answered, PP!CleanKey, PP!Key, RowsGrow,
                    SameButStatus
<1>3. ASSUME NEW r \in Purchases, PP!Serve(r) \/ PP!Fault(r)
      PROVE  /\ ppc'[s] # "done" => ~PP!Answered(s)'
             /\ pseen'[s].key /\ PP!CleanKey(s)' /\ PP!Answered(s)' =>
                  /\ preply'[s].payment \in Rows(payments)' \ {s}
                  /\ payments'[preply'[s].payment].key = Trim[PP!Key(s)']
  <2>0. /\ ppc[r] \notin {"idle", "done"} /\ UNCHANGED <<preq, pseen>>
        /\ \A q \in Purchases \ {r} : ppc'[q] = ppc[q]
        /\ \/ UNCHANGED preply
           \/ /\ ppc'[r] = "done"
              /\ \E x : preply' = [preply EXCEPT ![r] = x]
              /\ ppc[r] = "key" =>
                   \/ preply'[r].code = "500"
                   \/ preply'[r].payment
                        \in PP!GetPaymentByIdempotencyKey(PP!Key(r))
    BY <1>0, <1>3, ServeReplies
  <2>1. ~PP!Answered(r)
    BY <2>0 DEF RepliesToSeen
  <2>2. CASE s # r
    BY <1>0, <1>2, <2>0, <2>2 DEF PP!TypeOK
  <2>3. CASE s = r /\ UNCHANGED preply
    BY <2>1, <2>3 DEF PP!Answered
  <2>4. CASE s = r /\ preply' # preply
    <3>1. CASE pseen[s].key /\ PP!CleanKey(s)
      <4>1. ppc[s] = "key"
        BY <1>0, <2>0, <2>4, <3>1 DEF PurchasesOK, PP!SeenStops
      <4>2. \/ preply'[s].code = "500"
            \/ /\ preply'[s].payment \in Rows(payments)
               /\ payments[preply'[s].payment].key = PP!Key(s)
        BY <2>0, <2>4, <4>1 DEF PP!GetPaymentByIdempotencyKey, PP!Rows, Rows
      <4>3. s \notin Rows(payments)
        BY <1>0, <4>1 DEF PurchasesOK, PP!StepOK, Rows
      <4>4. PP!Key(s)' = PP!Key(s) /\ PP!Key(s) = Trim[PP!Key(s)]
        BY <2>0, <3>1 DEF PP!Key, PP!CleanKey
      <4> QED
        BY <1>1, <2>0, <2>4, <4>2, <4>3, <4>4
           DEF PP!Answered, RowsGrow, SameButStatus
    <3>2. CASE ~(pseen[s].key /\ PP!CleanKey(s))
      BY <2>0, <2>4, <3>2 DEF PP!CleanKey, PP!Key
    <3> QED
      BY <3>1, <3>2
  <2> QED
    BY <2>2, <2>3, <2>4
<1>4. ASSUME NEW r \in Purchases, PP!Receive(r)
      PROVE  /\ ppc'[s] # "done" => ~PP!Answered(s)'
             /\ pseen'[s].key /\ PP!CleanKey(s)' /\ PP!Answered(s)' =>
                  /\ preply'[s].payment \in Rows(payments)' \ {s}
                  /\ payments'[preply'[s].payment].key = Trim[PP!Key(s)']
  <2>1. /\ ppc[r] = "idle"
        /\ \E l : ppc' = [ppc EXCEPT ![r] = l]
        /\ \E q : preq' = [preq EXCEPT ![r] = q]
        /\ \E x : pseen' = [pseen EXCEPT ![r] = x]
        /\ \/ UNCHANGED preply
           \/ preply' = [preply EXCEPT ![r] = [code |-> "400", payment |-> None]]
    BY <1>4 DEF PP!Receive, PP!Goto, PP!APIErrorFromErr
  <2>2. CASE s # r
    BY <1>0, <1>2, <2>1, <2>2 DEF PP!TypeOK
  <2>3. CASE s = r
    <3>1. ~PP!Answered(s)
      BY <2>1, <2>3 DEF RepliesToSeen
    <3>2. ~PP!Answered(s)'
      BY <1>0, <2>1, <2>3, <3>1 DEF PP!Answered, PP!TypeOK
    <3> QED
      BY <3>2
  <2> QED
    BY <2>2, <2>3
<1>5. CASE PP!Crash
  <2>1. /\ UNCHANGED <<preq, pseen>>
        /\ \/ ppc'[s] = "done" /\ preply'[s].code = "dropped"
           \/ ppc'[s] = ppc[s] /\ preply'[s] = preply[s]
    BY <1>0, <1>5 DEF PP!Crash, PP!TypeOK
  <2>2. CASE preply'[s].code = "dropped" /\ ppc'[s] = "done"
    BY <2>2 DEF PP!Answered
  <2> QED
    BY <1>2, <2>1, <2>2
<1>6. CASE UNCHANGED PP!vars
  BY <1>2, <1>6 DEF PP!vars
<1> QED
  BY <1>3, <1>4, <1>5, <1>6 DEF PP!Next, PP!Finished

\* A retry with the key of a payment that was committed before, whatever was
\* refunded and whatever UpdatePaymentStatus made of it, moves no money and is
\* given that payment.
THEOREM RetryNeverCharges == Spec => []RetryAfterRefundNeverCharges
<1>1. Init => RepliesToSeen
  <2>1. Init => /\ pseen = [r \in Purchases |-> [key |-> FALSE, paid |-> FALSE]]
                /\ preply = [r \in Purchases |-> PP!NoReply]
    BY SamePurchases DEF Init, PP!Init
  <2> QED
    BY <2>1 DEF RepliesToSeen, PP!Answered, PP!NoReply
<1>2. SInv /\ RepliesToSeen /\ [Next]_vars => RepliesToSeen'
  <2> SUFFICES ASSUME SInv, RepliesToSeen, [Next]_vars PROVE RepliesToSeen'
    OBVIOUS
  <2>1. ASSUME RowsGrow, UNCHANGED ofPayments PROVE RepliesToSeen'
    BY <2>1 DEF RepliesToSeen, ofPayments, PP!Answered, PP!CleanKey, PP!Key,
                RowsGrow, SameButStatus
  <2>2. CASE PurchaseStep \/ CrashStep
    BY <2>2, RepliesNext DEF PurchaseStep, CrashStep
  <2>3. CASE ReturnStep
    BY <2>1, <2>3, ReturnRows DEF ReturnStep, SInv, RowsStay
  <2>4. ASSUME NEW p \in Updates, UpdateWrites(p) PROVE RepliesToSeen'
    BY <2>1, <2>4, UpdateRows DEF UpdateWrites, RowsStay
  <2>5. ASSUME UNCHANGED <<payments, ofPayments>> PROVE RepliesToSeen'
    BY <2>5 DEF RepliesToSeen, ofPayments, PP!Answered, PP!CleanKey, PP!Key,
                Rows
  <2>6. ASSUME NEW p \in Updates, UpdateReads(p) PROVE RepliesToSeen'
    BY <2>5, <2>6 DEF UpdateReads
  <2>7. ASSUME NEW c \in Clients, ReadStep(c) PROVE RepliesToSeen'
    BY <2>5, <2>7 DEF ReadStep
  <2>8. CASE UNCHANGED vars
    BY <2>5, <2>8 DEF vars
  <2> QED
    BY <2>2, <2>3, <2>4, <2>6, <2>7, <2>8, StepCases
<1>3. SInv /\ RepliesToSeen => RetryAfterRefundNeverCharges
  BY SamePurchases
     DEF SInv, PurchasesOK, PP!SeenStops, RepliesToSeen,
         RetryAfterRefundNeverCharges
<1> QED
  BY <1>1, <1>2, <1>3, ServiceInductive, PTL DEF Spec
-----------------------------------------------------------------------------
(* What clients are shown *)

\* A committed refund stays as it is, and totals never shrink.
RefundsKept ==
  /\ \A q \in Rows(refunds) : q \in Rows(refunds)' /\ refunds'[q] = refunds[q]
  /\ \A p : /\ RP!GetTotalRefunded(p) \in Nat
            /\ RP!GetTotalRefunded(p)' \in Nat
            /\ RP!GetTotalRefunded(p) <= RP!GetTotalRefunded(p)'

\* What the COMMIT of a refund does to the tables.
LEMMA ReturnCommit ==
  ASSUME ReturnsOK, NEW r \in Returns, RP!CommitReturn(r)
  PROVE  LET p == rreq[r].payment IN
         /\ p \in Purchases /\ rreq[r].amount \in Nat \ {0}
         /\ r \notin Rows(refunds)
         /\ Rows(refunds)' = Rows(refunds) \cup {r}
         /\ \A q \in Returns : q # r => refunds'[q] = refunds[q]
         /\ refunds'[r].payment = p /\ refunds'[r].amount = rreq[r].amount
         /\ refunds'[r].status =
              IF rresult[r] = "ok" THEN "COMPLETED" ELSE "FAILED"
         /\ \A q \in Purchases : q # p => payments'[q] = payments[q]
         /\ payments'[p].status = RP!SettledStatus(r)
         /\ payments'[p].amount = payments[p].amount
         /\ RP!Refundable(payments[p].status)
         /\ rremaining[r] = payments[p].amount - RP!GetTotalRefunded(p)
         /\ rreq[r].amount <= rremaining[r]
         /\ \A q : RP!GetTotalRefunded(q)' =
              IF q = p /\ rresult[r] = "ok"
              THEN RP!GetTotalRefunded(q) + rreq[r].amount
              ELSE RP!GetTotalRefunded(q)
<1> USE RefundConstants
<1>1. rpc[r] = "commit" /\ RP!Committed(r)
  BY DEF RP!CommitReturn
<1>2. RP!TypeOK /\ \A s \in Returns : RP!RefundStepOK(s)
  BY DEF ReturnsOK, RP!RefundStepsConsistent
<1>3. LET p == rreq[r].payment IN
      /\ p \in Purchases /\ rreq[r].amount \in Nat \ {0}
      /\ refunds[r].status = "absent"
      /\ \A q \in Returns : q # r => refunds'[q] = refunds[q]
      /\ refunds'[r].payment = p /\ refunds'[r].amount = rreq[r].amount
      /\ refunds'[r].status =
           IF rresult[r] = "ok" THEN "COMPLETED" ELSE "FAILED"
      /\ \A q \in Purchases : q # p => payments'[q] = payments[q]
      /\ payments'[p].status = RP!SettledStatus(r)
      /\ payments'[p].amount = payments[p].amount
      /\ RP!Refundable(payments[p].status)
      /\ rremaining[r] = payments[p].amount - RP!GetTotalRefunded(p)
      /\ rreq[r].amount <= rremaining[r]
      /\ DOMAIN refunds' = Returns
  BY <1>1, <1>2, RP!CommitRows
<1>4. \A q : RP!GetTotalRefunded(q)' =
        IF q = rreq[r].payment /\ rresult[r] = "ok"
        THEN RP!GetTotalRefunded(q) + rreq[r].amount
        ELSE RP!GetTotalRefunded(q)
  BY <1>1, <1>2, RP!CommitTotals
<1>5. r \notin Rows(refunds) /\ Rows(refunds)' = Rows(refunds) \cup {r}
  BY <1>2, <1>3 DEF Rows, RP!TypeOK
<1> QED
  BY <1>3, <1>4, <1>5

\* Committed refunds stay as they are.
LEMMA RefundsKeep ==
  ASSUME ReturnsOK, [RP!Next]_RP!vars
  PROVE  RefundsKept
<1>1. \A p : RP!GetTotalRefunded(p) \in Nat
  BY RP!TotalRefundedType, RefundConstants DEF ReturnsOK
<1>2. CASE UNCHANGED <<payments, refunds, refundLog>>
  <2>1. \A p : RP!GetTotalRefunded(p)' = RP!GetTotalRefunded(p)
    BY <1>2, RP!TotalStays, RefundConstants
  <2> QED
    BY <1>1, <1>2, <2>1 DEF RefundsKept, Rows
<1>3. ASSUME NEW r \in Returns, RP!CommitReturn(r) PROVE RefundsKept
  <2>1. \A q \in Rows(refunds) : q \in Rows(refunds)' /\ refunds'[q] = refunds[q]
    BY <1>3, ReturnCommit DEF Rows, ReturnsOK, RP!TypeOK
  <2>2. rreq[r].amount \in Nat
        /\ \A q : RP!GetTotalRefunded(q)'
                    \in {RP!GetTotalRefunded(q),
                         RP!GetTotalRefunded(q) + rreq[r].amount}
    BY <1>3, ReturnCommit
  <2> QED
    BY <1>1, <2>1, <2>2 DEF RefundsKept
<1> QED
  BY <1>2, <1>3, RP!TablesNext, RefundConstants

\* Every step of the service lets the tables grow only.
LEMMA TablesGrow ==
  ASSUME SInv, [Next]_vars
  PROVE  RowsGrow /\ RefundsKept
<1>0. /\ PurchasesOK /\ ReturnsOK /\ LockedKept
      /\ payments \in [Purchases -> PaymentRow]
  BY DEF SInv, ReturnsOK, RP!TypeOK, PaymentRow, RP!PaymentRow, PaymentStatus,
         RP!PaymentStatus
<1>1. ASSUME UNCHANGED payments PROVE RowsGrow
  BY <1>0, <1>1 DEF RowsGrow, Rows, SameButStatus
<1>2. ASSUME UNCHANGED refunds PROVE RefundsKept
  <2>1. \A p : RP!GetTotalRefunded(p)' = RP!GetTotalRefunded(p)
    BY <1>2, RP!TotalStays, RefundConstants
  <2>2. \A p : RP!GetTotalRefunded(p) \in Nat
    BY <1>0, RP!TotalRefundedType, RefundConstants DEF ReturnsOK
  <2> QED
    BY <1>2, <2>1, <2>2 DEF RefundsKept, Rows
<1>3. CASE PurchaseStep
  BY <1>0, <1>2, <1>3, PurchaseRows DEF PurchaseStep, ofRefunds
<1>4. CASE ReturnStep
  BY <1>0, <1>4, ReturnRows, RefundsKeep DEF ReturnStep, RowsStay
<1>5. ASSUME NEW p \in Updates, UpdateWrites(p) PROVE RowsGrow /\ RefundsKept
  BY <1>2, <1>5, UpdateRows DEF UpdateWrites, ofRefunds, RowsStay
<1>6. ASSUME NEW p \in Updates, UpdateReads(p) PROVE RowsGrow /\ RefundsKept
  BY <1>1, <1>2, <1>6 DEF UpdateReads, ofRefunds
<1>7. ASSUME NEW c \in Clients, ReadStep(c) PROVE RowsGrow /\ RefundsKept
  BY <1>1, <1>2, <1>7 DEF ReadStep, ofRefunds
<1>8. CASE CrashStep
  BY <1>1, <1>2, <1>8 DEF CrashStep
<1>9. CASE UNCHANGED vars
  BY <1>1, <1>2, <1>9 DEF vars, ofRefunds
<1> QED
  BY <1>3, <1>4, <1>5, <1>6, <1>7, <1>8, <1>9, StepCases

\* A failed refund stays, and a payment that was refunded in full stays so.
LEMMA BackedStays ==
  ASSUME SInv, SInv', RowsGrow, RefundsKept, NEW p \in Rows(payments)
  PROVE  /\ RP!FailedRefunds(p) # {} => RP!FailedRefunds(p)' # {}
         /\ RP!GetTotalRefunded(p) = payments[p].amount =>
              RP!GetTotalRefunded(p)' = payments[p].amount
<1>1. RP!FailedRefunds(p) \subseteq RP!FailedRefunds(p)'
  BY DEF RP!FailedRefunds, RefundsKept, Rows, RP!Rows
<1>2. RP!GetTotalRefunded(p)' <= payments'[p].amount
      /\ payments'[p].amount = payments[p].amount
  BY DEF SInv, ReturnsOK, RP!NoOverRefund, RowsGrow, SameButStatus, Rows, RP!Rows
<1>3. RP!GetTotalRefunded(p) <= RP!GetTotalRefunded(p)'
      /\ RP!GetTotalRefunded(p) \in Nat /\ RP!GetTotalRefunded(p)' \in Nat
  BY DEF RefundsKept
<1> QED
  BY <1>1, <1>2, <1>3

\* A refund sets the status that its commit makes true.
LEMMA BackedNext ==
  ASSUME NewStatuses \cap {"REFUNDED", "REFUND_FAILED"} = {},
         SInv, SInv', StatusesBacked, [Next]_vars
  PROVE  StatusesBacked'
<1>0. /\ PurchasesOK /\ ReturnsOK /\ LockedKept /\ RowsGrow /\ RefundsKept
      /\ DOMAIN payments = Purchases /\ DOMAIN payments' = Purchases
  BY TablesGrow DEF SInv, ReturnsOK, RP!TypeOK
<1> SUFFICES ASSUME NEW p \in Rows(payments)'
             PROVE  StatusBacked(payments[p], p)'
  BY DEF StatusesBacked
<1>1. ASSUME p \in Rows(payments), payments'[p] = payments[p]
      PROVE  StatusBacked(payments[p], p)'
  BY <1>0, <1>1, BackedStays DEF StatusesBacked, StatusBacked
<1>2. CASE PurchaseStep
  <2>1. ASSUME NEW r \in Purchases, PurchaseCommit(r)
        PROVE  StatusBacked(payments[p], p)'
    BY <1>0, <1>1, <2>1 DEF PurchaseCommit, StatusBacked, Rows
  <2> QED
    BY <1>0, <1>1, <1>2, <2>1, PurchaseCommits DEF PurchaseStep, Rows
<1>3. CASE ReturnStep
  <2>1. ASSUME NEW r \in Returns, RP!CommitReturn(r)
        PROVE  StatusBacked(payments[p], p)'
    <3>1. CASE p = rreq[r].payment
      <4>1. CASE rresult[r] # "ok"
        <5>1. payments'[p].status = "REFUND_FAILED"
          BY <1>0, <2>1, <3>1, <4>1, ReturnCommit DEF RP!SettledStatus
        <5>2. r \in RP!FailedRefunds(p)'
          BY <1>0, <2>1, <3>1, <4>1, ReturnCommit DEF RP!FailedRefunds, Rows,
             RP!Rows
        <5> QED
          BY <5>1, <5>2 DEF StatusBacked
      <4>2. CASE rresult[r] = "ok"
        <5>1. /\ payments'[p].status =
                   IF rreq[r].amount >= rremaining[r] THEN "REFUNDED"
                                                      ELSE "COMPLETED"
              /\ payments'[p].amount = payments[p].amount
              /\ rremaining[r] = payments[p].amount - RP!GetTotalRefunded(p)
              /\ rreq[r].amount <= rremaining[r]
              /\ RP!GetTotalRefunded(p)' =
                   RP!GetTotalRefunded(p) + rreq[r].amount
              /\ rreq[r].amount \in Nat /\ RP!GetTotalRefunded(p) \in Nat
          BY <1>0, <2>1, <3>1, <4>2, ReturnCommit
             DEF RP!SettledStatus, RefundsKept
        <5>2. payments[p].amount \in Int /\ rremaining[r] \in Int
          BY <1>0, <3>1, <2>1, ReturnCommit
             DEF ReturnsOK, RP!TypeOK, RP!PaymentRow
        <5> QED
          BY <5>1, <5>2 DEF StatusBacked
      <4> QED
        BY <4>1, <4>2
    <3>2. CASE p # rreq[r].payment
      BY <1>0, <1>1, <2>1, <3>2, ReturnCommit DEF Rows
    <3> QED
      BY <3>1, <3>2
  <2> QED
    BY <1>0, <1>1, <1>3, <2>1, RP!TablesNext, RefundConstants
       DEF ReturnStep, Rows
<1>4. ASSUME NEW q \in Updates, UpdateWrites(q)
      PROVE  StatusBacked(payments[p], p)'
  <2>1. CASE p = q
    <3>1. q \in Purchases
      BY CompositionAssumption
    <3>2. payments'[p].status \in NewStatuses
      BY <1>0, <1>4, <2>1, <3>1
         DEF UpdateWrites, SInv, OthersTypeOK, PaymentRow
    <3> QED
      BY <3>2 DEF StatusBacked
  <2>2. CASE p # q
    BY <1>0, <1>1, <1>4, <2>2 DEF UpdateWrites, Rows
  <2> QED
    BY <2>1, <2>2
<1>5. ASSUME UNCHANGED payments PROVE StatusBacked(payments[p], p)'
  BY <1>1, <1>5 DEF Rows
<1>6. ASSUME NEW q \in Updates, UpdateReads(q)
      PROVE  StatusBacked(payments[p], p)'
  BY <1>5, <1>6 DEF UpdateReads
<1>7. ASSUME NEW c \in Clients, ReadStep(c) PROVE StatusBacked(payments[p], p)'
  BY <1>5, <1>7 DEF ReadStep
<1>8. CASE CrashStep \/ UNCHANGED vars
  BY <1>5, <1>8 DEF CrashStep, vars
<1> QED
  BY <1>2, <1>3, <1>4, <1>6, <1>7, <1>8, StepCases

\* The refunds that a client has been shown still add up to the same.
LEMMA ShownStays ==
  ASSUME RefundsKept, NEW S \in SUBSET Rows(refunds), NEW p,
         DOMAIN refunds = Returns
  PROVE  /\ \A status : (S \cap RefundsOf(p, status))'
                           = S \cap RefundsOf(p, status)
         /\ Total(S \cap RefundsOf(p, "COMPLETED"),
                  [q \in Returns |-> refunds[q].amount])'
              = Total(S \cap RefundsOf(p, "COMPLETED"),
                      [q \in Returns |-> refunds[q].amount])
<1>1. \A status : (S \cap RefundsOf(p, status))' = S \cap RefundsOf(p, status)
  BY DEF RefundsKept, RefundsOf
<1> DEFINE T == S \cap RefundsOf(p, "COMPLETED")
           old == [q \in Returns |-> refunds[q].amount]
           new == [q \in Returns |-> refunds'[q].amount]
<1>2. \A q \in T : old[q] = new[q]
  BY DEF RefundsKept, Rows
<1>3. RP!Total(T, old) = RP!Total(T, new)
  <2> HIDE DEF T, old, new
  <2> QED
    BY <1>2, RP!TotalSame, RefundConstants
<1>4. Total(T, old) = Total(T, new)
  BY <1>3 DEF RP!Total, Total, RP!UnitsOf, UnitsOf, RP!Cardinality, Cardinality
<1>5. Total(T, old)' = Total(T, new)
  BY <1>1
<1> QED
  BY <1>1, <1>4, <1>5

\* What a client holds stays true, and what it is shown next is true.
LEMMA ReportsNext ==
  ASSUME SInv, SInv', StatusesBacked, ReportsOK, [Next]_vars
  PROVE  ReportsOK'
<1>0. /\ RowsGrow /\ RefundsKept /\ OthersTypeOK
      /\ DOMAIN payments = Purchases /\ DOMAIN refunds = Returns
  BY TablesGrow DEF SInv, ReturnsOK, RP!TypeOK
<1> SUFFICES ASSUME NEW c \in Clients PROVE ReportOK(c)'
  BY DEF ReportsOK
<1>p. PICK p, row, S :
        p = report[c].payment /\ row = report[c].row /\ S = report[c].refunds
  OBVIOUS
<1>1. ReportOK(c)
  BY DEF ReportsOK
<1>2. ASSUME report'[c] = report[c] PROVE ReportOK(c)'
  <2>1. CASE report[c].pc = "refunds"
    <3>1. /\ p \in Rows(payments) /\ row.amount = payments[p].amount
          /\ StatusBacked(row, p)
      BY <1>p, <1>1, <2>1 DEF ReportOK
    <3>2. /\ p \in Rows(payments)' /\ payments'[p].amount = payments[p].amount
          /\ RP!FailedRefunds(p) # {} => RP!FailedRefunds(p)' # {}
          /\ RP!GetTotalRefunded(p) = payments[p].amount =>
               RP!GetTotalRefunded(p)' = payments[p].amount
      BY <1>0, <3>1, BackedStays DEF RowsGrow, SameButStatus
    <3> QED
      BY <1>p, <1>2, <2>1, <3>1, <3>2 DEF ReportOK, StatusBacked
  <2>2. CASE report[c].pc = "done"
    <3>1. S \in SUBSET Rows(refunds)
      BY <1>p, <1>1, <2>2 DEF ReportOK
    <3>2. /\ S \subseteq Rows(refunds)'
          /\ S \cap RefundsOf(p, "FAILED")' = S \cap RefundsOf(p, "FAILED")
          /\ Total(S \cap RefundsOf(p, "COMPLETED")',
                   [q \in Returns |-> refunds'[q].amount])
               = Total(S \cap RefundsOf(p, "COMPLETED"),
                       [q \in Returns |-> refunds[q].amount])
      BY <1>0, <3>1, ShownStays DEF RefundsKept
    <3> QED
      BY <1>p, <1>1, <1>2, <2>2, <3>2 DEF ReportOK
  <2>3. CASE report[c].pc = "idle"
    BY <1>1, <1>2, <2>3 DEF ReportOK
  <2> QED
    BY <1>0, <2>1, <2>2, <2>3 DEF OthersTypeOK
<1>3. ASSUME NEW d \in Clients, ReadStep(d) PROVE ReportOK(c)'
  <2>0. UNCHANGED <<payments, refunds>>
    BY <1>3 DEF ReadStep, ofRefunds
  <2>1. CASE c # d
    BY <1>0, <1>2, <1>3, <2>1 DEF ReadStep, GetRefundsByPayment, OthersTypeOK
  <2>2. CASE /\ c = d /\ report[c].pc = "idle"
             /\ report' = [report EXCEPT ![c].pc = "done"]
    <3>1. /\ report'[c].row = row /\ report'[c].refunds = {}
          /\ row.status = "absent" /\ report'[c].pc = "done"
      BY <1>p, <1>0, <1>1, <2>2 DEF ReportOK, OthersTypeOK
    <3> QED
      BY <3>1 DEF ReportOK
  <2>3. ASSUME c = d, NEW q \in Rows(payments),
               report' = [report EXCEPT ![c] =
                 [pc |-> "refunds", payment |-> q, row |-> payments[q],
                  refunds |-> {}]]
        PROVE  ReportOK(c)'
    <3>1. /\ report'[c].pc = "refunds" /\ report'[c].payment = q
          /\ report'[c].row = payments[q]
      BY <1>0, <2>3 DEF OthersTypeOK
    <3>2. StatusBacked(payments[q], q)
      BY DEF StatusesBacked
    <3>3. /\ RP!FailedRefunds(q)' = RP!FailedRefunds(q)
          /\ RP!GetTotalRefunded(q)' = RP!GetTotalRefunded(q)
      BY <2>0, RP!TotalStays, RefundConstants DEF RP!FailedRefunds
    <3> QED
      BY <2>0, <3>1, <3>2, <3>3 DEF ReportOK, StatusBacked, Rows
  <2>4. CASE c = d /\ GetRefundsByPayment(c)
    <3>1. /\ report[c].pc = "refunds" /\ report'[c].pc = "done"
          /\ report'[c].payment = p /\ report'[c].row = row
          /\ report'[c].refunds = {q \in Rows(refunds) : refunds[q].payment = p}
      BY <1>p, <1>0, <2>4 DEF GetRefundsByPayment, OthersTypeOK
    <3> DEFINE shown == {q \in Rows(refunds) : refunds[q].payment = p}
    <3>2. StatusBacked(row, p)
      BY <1>p, <1>1, <3>1 DEF ReportOK
    <3>3. /\ shown \subseteq Rows(refunds)
          /\ shown \cap RefundsOf(p, "COMPLETED") = RP!CompletedRefunds(p)
          /\ shown \cap RefundsOf(p, "FAILED") = RP!FailedRefunds(p)
      BY DEF RefundsOf, RP!CompletedRefunds, RP!FailedRefunds, Rows, RP!Rows
    <3>4. RP!GetTotalRefunded(p)
            = Total(shown \cap RefundsOf(p, "COMPLETED"),
                    [q \in Returns |-> refunds[q].amount])
      BY <3>3 DEF RP!GetTotalRefunded, RP!Amounts, RP!Total, Total, RP!UnitsOf,
                  UnitsOf, RP!Cardinality, Cardinality
    <3>5. /\ Rows(refunds)' = Rows(refunds)
          /\ \A status : RefundsOf(p, status)' = RefundsOf(p, status)
          /\ [q \in Returns |-> refunds'[q].amount]
               = [q \in Returns |-> refunds[q].amount]
      BY <2>0 DEF Rows, RefundsOf
    <3>6. /\ row.status = "REFUNDED" =>
               Total(shown \cap RefundsOf(p, "COMPLETED"),
                     [q \in Returns |-> refunds[q].amount]) = row.amount
          /\ row.status = "REFUND_FAILED" => shown \cap RefundsOf(p, "FAILED") # {}
      BY <3>2, <3>3, <3>4 DEF StatusBacked
    <3> HIDE DEF shown
    <3> QED
      BY <3>1, <3>3, <3>5, <3>6 DEF ReportOK, shown
  <2> QED
    BY <1>3, <2>1, <2>2, <2>3, <2>4 DEF ReadStep
<1>4. ASSUME UNCHANGED report PROVE ReportOK(c)'
  BY <1>2, <1>4
<1>5. CASE PurchaseStep \/ ReturnStep \/ CrashStep \/ UNCHANGED vars
  BY <1>4, <1>5 DEF PurchaseStep, ReturnStep, CrashStep, vars, others
<1>6. ASSUME NEW q \in Updates, UpdateReads(q) \/ UpdateWrites(q)
      PROVE  ReportOK(c)'
  BY <1>4, <1>6 DEF UpdateReads, UpdateWrites
<1> QED
  BY <1>3, <1>5, <1>6, StepCases

\* A client that is shown a REFUNDED or REFUND_FAILED payment and then asks for
\* its refunds finds what the status claims, if UpdatePaymentStatus never sets
\* these two statuses itself.
THEOREM ReportsAgreeHolds ==
  ASSUME NewStatuses \cap {"REFUNDED", "REFUND_FAILED"} = {}
  PROVE  Spec => []ReportsAgree
<1>1. Init => StatusesBacked /\ ReportsOK
  <2> SUFFICES ASSUME Init PROVE StatusesBacked /\ ReportsOK
    OBVIOUS
  <2>1. payments = [x \in Purchases |-> PP!NoRow]
    BY SamePurchases DEF Init, PP!Init
  <2> QED
    BY <2>1 DEF Init, StatusesBacked, ReportsOK, ReportOK, NoReport, NoRow,
                Rows, PP!NoRow
<1>2. SInv /\ SInv' /\ StatusesBacked /\ ReportsOK /\ [Next]_vars
        => StatusesBacked' /\ ReportsOK'
  BY BackedNext, ReportsNext
<1>3. ReportsOK => ReportsAgree
  <2> SUFFICES ASSUME ReportsOK, NEW c \in Clients, report[c].pc = "done"
               PROVE
      /\ report[c].row.status = "REFUNDED" =>
           report[c].row.amount =
             Total(report[c].refunds \cap RefundsOf(report[c].payment, "COMPLETED"),
                   [q \in Returns |-> refunds[q].amount])
      /\ report[c].row.status = "REFUND_FAILED" =>
           report[c].refunds \cap RefundsOf(report[c].payment, "FAILED") # {}
    BY DEF ReportsAgree
  <2> QED
    BY DEF ReportsOK, ReportOK
<1> QED
  BY <1>1, <1>2, <1>3, ServiceInductive, PTL DEF Spec
-----------------------------------------------------------------------------
(* Both services together implement Ledger *)

\* The account of a payment, in either instance, before and after a step.
LEMMA SameAccounts ==
  /\ \A p : R!Account(p) = RP!Account(p)
  /\ \A p : R!Account(p)' = RP!Account(p)'
<1> USE DEF R!Account, RP!Account, R!GetTotalRefunded, RP!GetTotalRefunded,
            R!CompletedRefunds, RP!CompletedRefunds, R!Amounts, RP!Amounts,
            R!Total, RP!Total, R!UnitsOf, RP!UnitsOf, R!Rows, RP!Rows,
            R!Cardinality, RP!Cardinality
<1>1. \A p : R!Account(p) = RP!Account(p)
  OBVIOUS
<1>2. \A p : R!Account(p)' = RP!Account(p)'
  OBVIOUS
<1> QED
  BY <1>1, <1>2

\* What a refund that goes to the ledger relies on: a client sent it, and no
\* commit leaves REFUND_PENDING behind.
NoPending ==
  /\ rreq \in [Returns -> ReturnInputs]
  /\ \A p \in Purchases : payments[p].status # "REFUND_PENDING"

\* No step leaves REFUND_PENDING behind in the committed table.
LEMMA NoPendingNext ==
  ASSUME "REFUND_PENDING" \notin NewStatuses, SInv, NoPending, [Next]_vars
  PROVE  NoPending'
<1>0. /\ PurchasesOK /\ ReturnsOK /\ LockedKept /\ RP!TypeOK
      /\ payments \in [Purchases -> PaymentRow]
  BY DEF SInv, ReturnsOK, RP!TypeOK, PaymentRow, RP!PaymentRow, PaymentStatus,
         RP!PaymentStatus
<1>1. ASSUME [RP!Next]_RP!vars PROVE NoPending'
  <2>1. rreq' \in [Returns -> ReturnInputs]
    BY <1>0, <1>1, RP!InputsNext, RefundConstants DEF NoPending
  <2>2. \A p \in Purchases : payments'[p].status # "REFUND_PENDING"
    BY <1>0, <1>1, ReturnStatus DEF NoPending
  <2> QED
    BY <2>1, <2>2 DEF NoPending
<1>2. CASE PurchaseStep
  <2>1. ASSUME NEW r \in Purchases, PurchaseCommit(r)
        PROVE  \A p \in Purchases : payments'[p].status # "REFUND_PENDING"
    BY <2>1 DEF PurchaseCommit, NoPending
  <2> QED
    BY <1>0, <1>2, <2>1, PurchaseCommits DEF PurchaseStep, ofRefunds, NoPending
<1>3. ASSUME NEW p \in Updates, UpdateWrites(p) PROVE NoPending'
  <2>1. p \in Purchases /\ update[p].row \in PaymentRow
    BY CompositionAssumption DEF SInv, OthersTypeOK
  <2>2. payments'[p].status \in NewStatuses
        /\ \A q \in Purchases : q # p => payments'[q] = payments[q]
    BY <1>0, <1>3, <2>1 DEF UpdateWrites, PaymentRow
  <2> QED
    BY <1>3, <2>2 DEF UpdateWrites, ofRefunds, NoPending
<1>4. ASSUME UNCHANGED <<payments, ofRefunds>> PROVE NoPending'
  BY <1>4 DEF ofRefunds, NoPending
<1>5. ASSUME NEW p \in Updates, UpdateReads(p) PROVE NoPending'
  BY <1>4, <1>5 DEF UpdateReads
<1>6. ASSUME NEW c \in Clients, ReadStep(c) PROVE NoPending'
  BY <1>4, <1>6 DEF ReadStep
<1>7. CASE ReturnStep \/ CrashStep
  BY <1>1, <1>7 DEF ReturnStep, CrashStep
<1>8. CASE UNCHANGED vars
  BY <1>4, <1>8 DEF vars
<1> QED
  BY <1>2, <1>3, <1>5, <1>6, <1>7, <1>8, StepCases

\* COMMIT of a payment opens its account.
LEMMA PayStep ==
  ASSUME SInv, NEW r \in Purchases, PurchaseCommit(r), UNCHANGED refunds
  PROVE  Book!Next
<1> DEFINE book == [p \in Purchases |-> R!Account(p)]
<1>0. PICK amount, status : amount = preq[r].amount /\ status = pdraft[r].status
  OBVIOUS
<1>1. /\ payments[r] = NoRow /\ amount > 0 /\ status \in Book!PaidOrFailed
      /\ amount \in {q.amount : q \in PurchaseInputs \cup ReturnInputs}
  <2>1. payments[r].status = "absent" /\ PP!StepOK(r)
    BY DEF PurchaseCommit, Rows, SInv, PurchasesOK, PP!TypeOK
  <2>2. payments[r] = NoRow
    BY <2>1 DEF PP!StepOK, NoRow, PP!NoRow
  <2> QED
    BY <1>0, <2>2 DEF PurchaseCommit, Book!PaidOrFailed
<1>2. \A p : RP!GetTotalRefunded(p)' = RP!GetTotalRefunded(p)
  BY RP!TotalStays, RefundConstants
<1>3. RP!GetTotalRefunded(r) = 0
  BY NoRefunds DEF SInv, PurchaseCommit
<1>4. book[r] = Book!NoAccount
  BY <1>1, <1>3, SameAccounts DEF RP!Account, Book!NoAccount, NoRow
<1>5. R!Account(r)' = Book!Settled(status, amount)
  <2>1. RP!Account(r)' = [status |-> status, amount |-> amount, refunded |-> 0]
    BY <1>0, <1>2, <1>3 DEF RP!Account, PurchaseCommit
  <2> QED
    BY <2>1, SameAccounts DEF Book!Settled
<1>6. \A p \in Purchases : p # r => R!Account(p)' = R!Account(p)
  <2>1. \A p \in Purchases : p # r => RP!Account(p)' = RP!Account(p)
    BY <1>2 DEF RP!Account, PurchaseCommit
  <2> QED
    BY <2>1, SameAccounts
<1>7. book' = [book EXCEPT ![r] = Book!Settled(status, amount)]
  BY <1>5, <1>6
<1>8. Book!Pay(r, amount)
  BY <1>1, <1>4, <1>7 DEF Book!Pay
<1> QED
  BY <1>1, <1>8 DEF Book!Next

\* COMMIT of a refund is a refund of an amount that was left, or fails for good.
LEMMA RefundStep ==
  ASSUME SInv, NoPending, NEW r \in Returns, RP!CommitReturn(r)
  PROVE  Book!Next
<1>1. RP!Book!Next
  BY RP!LedgerCommit, RefundConstants DEF SInv, ReturnsOK, NoPending
<1>2. [p \in Purchases |-> R!Account(p)] = [p \in Purchases |-> RP!Account(p)]
      /\ [p \in Purchases |-> R!Account(p)'] = [p \in Purchases |-> RP!Account(p)']
  BY SameAccounts
<1>3. \A a : RP!Book!RefundFails(a) => Book!RefundFails(a)
  BY <1>2, Zenon DEF Book!RefundFails, RP!Book!RefundFails
<1>4. \A a, amount : RP!Book!Refund(a, amount) => Book!Refund(a, amount)
  BY <1>2, Zenon DEF Book!Refund, RP!Book!Refund, Book!Left, RP!Book!Left
<1>5. \A a, amount : RP!Book!Pay(a, amount) => Book!Pay(a, amount)
  BY <1>2, Zenon DEF Book!Pay, RP!Book!Pay, Book!Settled, RP!Book!Settled,
     Book!NoAccount, RP!Book!NoAccount, Book!PaidOrFailed, RP!Book!PaidOrFailed
<1>6. {q.amount : q \in ReturnInputs}
        \subseteq {q.amount : q \in PurchaseInputs \cup ReturnInputs}
  OBVIOUS
<1> QED
  BY <1>1, <1>3, <1>4, <1>5, <1>6 DEF Book!Next, RP!Book!Next

\* No account is open at first.
LEMMA BookInit == Init => Book!Init
<1> SUFFICES ASSUME Init PROVE Book!Init
  OBVIOUS
<1>1. payments = [p \in Purchases |-> PP!NoRow]
  BY SamePurchases DEF Init, PP!Init
<1>2. \A p : RP!GetTotalRefunded(p) = 0
  BY <1>1, ServiceInit, NoRefunds DEF SInv, Rows, PP!NoRow
<1>3. \A p \in Purchases : R!Account(p) = Book!NoAccount
  BY <1>1, <1>2, SameAccounts DEF RP!Account, Book!NoAccount, PP!NoRow
<1> QED
  BY <1>3 DEF Book!Init

\* For whoever reads the tables both services together are one ledger, for any
\* number of racing payments and refunds, failing statements, lost answers and
\* crashes, apart from the writes of UpdatePaymentStatus, if these do not leave
\* REFUND_PENDING behind, from which a refund would start a second time.
THEOREM ServiceKeepsLedger ==
  ASSUME "REFUND_PENDING" \notin NewStatuses
  PROVE  Spec => LedgerKept
<1>1. Init => NoPending
  <2> SUFFICES ASSUME Init PROVE NoPending
    OBVIOUS
  <2>1. payments = [p \in Purchases |-> PP!NoRow] /\ RP!Init
    BY SamePurchases, SameReturns DEF Init, PP!Init
  <2> QED
    BY <2>1, CompositionAssumption DEF NoPending, PP!NoRow, RP!Init
<1>2. SInv /\ NoPending /\ [Next]_vars => NoPending'
  BY NoPendingNext
<1>3. SInv /\ NoPending /\ [Next]_vars
        => [Book!Next \/ \E p \in Updates : UpdateWrites(p)]_<<payments, refunds>>
  <2> SUFFICES ASSUME SInv, NoPending, [Next]_vars
               PROVE  \/ Book!Next
                      \/ \E p \in Updates : UpdateWrites(p)
                      \/ UNCHANGED <<payments, refunds>>
    OBVIOUS
  <2>1. CASE PurchaseStep
    BY <2>1, PurchaseCommits, PayStep DEF PurchaseStep, SInv, ofRefunds
  <2>2. CASE ReturnStep
    BY <2>2, RP!TablesNext, RefundConstants, RefundStep DEF ReturnStep
  <2>3. ASSUME NEW p \in Updates, UpdateReads(p)
        PROVE  UNCHANGED <<payments, refunds>>
    BY <2>3 DEF UpdateReads, ofRefunds
  <2>4. ASSUME NEW c \in Clients, ReadStep(c)
        PROVE  UNCHANGED <<payments, refunds>>
    BY <2>4 DEF ReadStep, ofRefunds
  <2>5. CASE CrashStep \/ UNCHANGED vars
    BY <2>5 DEF CrashStep, vars, ofRefunds
  <2> QED
    BY <2>1, <2>2, <2>3, <2>4, <2>5, StepCases
<1> QED
  BY <1>1, <1>2, <1>3, BookInit, ServiceInductive, PTL DEF Spec, LedgerKept
-----------------------------------------------------------------------------
(* Payments served one after the other *)

\* Whatever happens, what is known of a committed payment stays known.
LEMMA MarksStay ==
  ASSUME SInv, SInv', [Next]_vars, NEW p \in Rows(payments)
  PROVE  /\ p \in Rows(payments)' /\ SameButStatus(payments'[p], payments[p])
         /\ {t \in chargeLog' : t.payment = p} = {t \in chargeLog : t.payment = p}
         /\ ChargeSucceeded(p)' <=> ChargeSucceeded(p)
         /\ Over(p) => Over(p)'
         /\ DeclaredPaid(p) => DeclaredPaid(p)'
<1>0. RowsGrow /\ RefundsKept
  BY TablesGrow
<1>1. p \in Rows(payments)' /\ SameButStatus(payments'[p], payments[p])
  BY <1>0 DEF RowsGrow
<1>2. {t \in chargeLog' : t.payment = p} = {t \in chargeLog : t.payment = p}
  <2>1. CASE PurchaseStep
    <3>1. ASSUME NEW r \in Purchases, PurchaseCommit(r)
          PROVE  {t \in chargeLog' : t.payment = p}
                   = {t \in chargeLog : t.payment = p}
      BY <3>1, CommitAudit DEF SInv
    <3> QED
      BY <2>1, <3>1, PurchaseCommits DEF PurchaseStep, SInv
  <2>2. ASSUME NEW q \in Updates, UpdateReads(q) \/ UpdateWrites(q)
        PROVE  chargeLog' = chargeLog
    BY <2>2 DEF UpdateReads, UpdateWrites, ofPayments
  <2>3. ASSUME NEW c \in Clients, ReadStep(c) PROVE chargeLog' = chargeLog
    BY <2>3 DEF ReadStep, ofPayments
  <2>4. CASE ReturnStep \/ CrashStep \/ UNCHANGED vars
    BY <2>4 DEF ReturnStep, CrashStep, vars, ofPayments
  <2> QED
    BY <2>1, <2>2, <2>3, <2>4, StepCases
<1>3. Updated(p) => Updated(p)'
  <2>0. OthersTypeOK
    BY DEF SInv
  <2>1. ASSUME NEW q \in Updates, UpdateReads(q) \/ UpdateWrites(q)
        PROVE  Updated(p) => Updated(p)'
    BY <2>0, <2>1 DEF UpdateReads, UpdateWrites, Updated, OthersTypeOK
  <2>2. CASE CrashStep
    BY <2>0, <2>2 DEF CrashStep, Updated, OthersTypeOK
  <2>3. ASSUME UNCHANGED update PROVE Updated(p) => Updated(p)'
    BY <2>3 DEF Updated
  <2>4. ASSUME NEW c \in Clients, ReadStep(c) PROVE Updated(p) => Updated(p)'
    BY <2>3, <2>4 DEF ReadStep
  <2>5. CASE PurchaseStep \/ ReturnStep \/ UNCHANGED vars
    BY <2>3, <2>5 DEF PurchaseStep, ReturnStep, vars, others
  <2> QED
    BY <2>1, <2>2, <2>4, <2>5, StepCases
<1>4. Over(p) => Over(p)'
  BY <1>0, <1>1, BackedStays DEF Over, SameButStatus
<1>5. /\ ChargeSucceeded(p)' <=> ChargeSucceeded(p)
      /\ (\E t \in chargeLog : t.payment = p /\ ~t.success)
           => \E t \in chargeLog' : t.payment = p /\ ~t.success
  <2>1. \A t : t \in chargeLog' /\ t.payment = p <=> t \in chargeLog /\ t.payment = p
    BY <1>2
  <2> QED
    BY <2>1 DEF ChargeSucceeded
<1> QED
  BY <1>1, <1>2, <1>3, <1>4, <1>5 DEF DeclaredPaid

\* A request is where it was, or further on without a lookup or a new draft, or
\* done.
Calm(r) ==
  \/ ppc'[r] = "done"
  \/ /\ ppc[r] \notin {"idle", "done"} <=> ppc'[r] \notin {"idle", "done"}
     /\ ppc'[r] \in PastLookups => ppc[r] \in PastLookups
     /\ ppc'[r] \in PP!DraftPcs =>
          ppc[r] \in PP!DraftPcs /\ pdraft'[r].created = pdraft[r].created
     /\ preq'[r] = preq[r] /\ pseen'[r] = pseen[r]

\* The steps that matter: a request arrives, passes its last lookup, or gets its
\* draft.
Arrives(r) ==
  /\ ppc[r] = "idle" /\ ppc'[r] \in {"done", "key", "order"}
  /\ PP!Cardinality(PP!InFlight) < MaxInFlight
  /\ pseen'[r].paid <=> \E p \in Rows(payments) :
                          /\ payments[p].order = preq'[r].order
                          /\ payments[p].status = "COMPLETED"
PassesLookup(r) ==
  /\ ppc[r] = "order" /\ ppc'[r] = "route"
  /\ preq'[r] = preq[r] /\ pseen'[r] = pseen[r]
  /\ \A p \in PP!GetPaymentByOrderID(preq[r].order) :
       payments[p].status # "COMPLETED"
Drafts(r) ==
  /\ ppc[r] = "route" /\ ppc'[r] = "charge"
  /\ preq'[r] = preq[r] /\ pseen'[r] = pseen[r]
  /\ pdraft'[r].created = pclock + 1

\* How far one step of a payment's handler moves it.
LEMMA ServeMoves ==
  ASSUME PP!TypeOK, NEW r \in Purchases, PP!Serve(r) \/ PP!Fault(r)
  PROVE  /\ \A s \in Purchases \ {r} :
              ppc'[s] = ppc[s] /\ preq'[s] = preq[s] /\ pseen'[s] = pseen[s]
              /\ pdraft'[s] = pdraft[s]
         /\ \/ Calm(r) /\ pclock' = pclock
            \/ PassesLookup(r) /\ pclock' = pclock /\ UNCHANGED payments
            \/ Drafts(r) /\ pclock' = pclock + 1 /\ UNCHANGED payments
<1> USE DEF PP!TypeOK, PP!Goto
<1> DEFINE Frame == \A s \in Purchases \ {r} :
              ppc'[s] = ppc[s] /\ preq'[s] = preq[s] /\ pseen'[s] = pseen[s]
              /\ pdraft'[s] = pdraft[s]
<1>1. ASSUME NEW code, NEW p, PP!Return(r, code, p), UNCHANGED <<preq, pseen>>
      PROVE  Frame /\ ppc'[r] = "done"
  BY <1>1 DEF PP!Return
<1>2. CASE PP!FindByKey(r)
  <2>1. CASE \E p \in PP!GetPaymentByIdempotencyKey(PP!Key(r)) :
               PP!ReturnPayment(r, p, payments[p])
    BY <1>1, <1>2, <2>1 DEF PP!FindByKey, PP!ReturnPayment, Calm
  <2>2. CASE PP!Goto(r, "order") /\ UNCHANGED pdraft
    BY <1>2, <2>2 DEF PP!FindByKey, Calm, PastLookups, PP!DraftPcs, PP!InTxPcs
  <2> QED
    BY <1>2, <2>1, <2>2 DEF PP!FindByKey
<1>3. CASE PP!FindByOrder(r)
  <2>1. CASE \E p : PP!ReturnPayment(r, p, payments[p])
    BY <1>1, <1>3, <2>1 DEF PP!FindByOrder, PP!ReturnPayment, Calm
  <2>2. CASE /\ {p \in PP!GetPaymentByOrderID(preq[r].order) :
                   payments[p].status = "COMPLETED"} = {}
             /\ PP!Goto(r, "route") /\ UNCHANGED pdraft
    BY <1>3, <2>2 DEF PP!FindByOrder, PassesLookup, PP!database
  <2> QED
    BY <1>3, <2>1, <2>2 DEF PP!FindByOrder
<1>4. CASE PP!Route(r)
  <2>1. CASE PP!ReturnError(r, "GatewayUnavailable") /\ UNCHANGED pclock
    BY <1>1, <1>4, <2>1 DEF PP!Route, PP!ReturnError, Calm
  <2>2. CASE /\ pclock' = pclock + 1
             /\ \E g : pdraft' = [pdraft EXCEPT ![r] =
                  [status |-> "PENDING", order |-> preq[r].order,
                   key |-> PP!nullString(PP!Key(r)), amount |-> preq[r].amount,
                   gateway |-> g, created |-> pclock']]
             /\ PP!Goto(r, "charge")
    BY <1>4, <2>2 DEF PP!Route, Drafts, PP!database
  <2> QED
    BY <1>4, <2>1, <2>2 DEF PP!Route
<1>5. CASE \/ PP!Charge(r) \/ PP!Begin(r) \/ PP!CreatePayment(r)
           \/ PP!CreatePaymentConflict(r) \/ PP!CreateTransaction(r)
  <2>1. /\ UNCHANGED <<preq, pseen, pdraft, pclock>>
        /\ ppc[r] \in PP!DraftPcs /\ ppc[r] # "done" /\ ppc[r] # "idle"
        /\ \E l \in PP!DraftPcs : ppc' = [ppc EXCEPT ![r] = l]
    BY <1>5 DEF PP!Charge, PP!Begin, PP!CreatePayment,
       PP!CreatePaymentConflict, PP!CreateTransaction, PP!memory,
       PP!DraftPcs, PP!InTxPcs
  <2> QED
    BY <2>1 DEF Calm, PastLookups, PP!DraftPcs, PP!InTxPcs
<1>6. CASE PP!MarkProcessing(r) \/ PP!Settle(r)
  <2>1. /\ UNCHANGED <<preq, pseen, pclock>>
        /\ ppc[r] \in PP!DraftPcs /\ ppc[r] # "done" /\ ppc[r] # "idle"
        /\ \E l \in PP!DraftPcs : ppc' = [ppc EXCEPT ![r] = l]
        /\ \E status : pdraft' = [pdraft EXCEPT ![r].status = status]
    BY <1>6 DEF PP!MarkProcessing, PP!Settle, PP!DraftPcs, PP!InTxPcs
  <2>2. pdraft'[r].created = pdraft[r].created
        /\ \A s \in Purchases \ {r} : pdraft'[s] = pdraft[s]
    BY <2>1 DEF PP!PaymentRow
  <2> QED
    BY <2>1, <2>2 DEF Calm, PastLookups, PP!DraftPcs, PP!InTxPcs
<1>7. CASE \/ PP!CreatePaymentTooLong(r) \/ PP!Commit(r) \/ PP!StatementFails(r)
           \/ PP!CommitAnswerLost(r) \/ PP!Recover(r)
  <2>1. UNCHANGED <<preq, pseen, pclock>> /\ \E code, p : PP!Return(r, code, p)
    BY <1>7 DEF PP!CreatePaymentTooLong, PP!Commit, PP!StatementFails,
       PP!CommitAnswerLost, PP!Recover, PP!ReturnPayment, PP!ReturnError
  <2> QED
    BY <1>1, <2>1 DEF Calm
<1> QED
  BY <1>2, <1>3, <1>4, <1>5, <1>6, <1>7 DEF PP!Serve, PP!Fault

\* Every step of the payments is calm for everybody, or one of the three.
LEMMA MoveCases ==
  ASSUME PurchasesOK, [PP!Next]_PP!vars
  PROVE  \/ (\A s \in Purchases : Calm(s)) /\ pclock' = pclock
         \/ \E r \in Purchases :
              /\ \A s \in Purchases \ {r} : Calm(s)
              /\ UNCHANGED payments
              /\ \/ Arrives(r) /\ pclock' = pclock
                 \/ PassesLookup(r) /\ pclock' = pclock
                 \/ Drafts(r) /\ pclock' = pclock + 1
<1>0. PP!TypeOK
  BY DEF PurchasesOK
<1>1. ASSUME NEW s, UNCHANGED <<ppc[s], preq[s], pseen[s], pdraft[s]>>
      PROVE  Calm(s)
  BY <1>1 DEF Calm
<1>2. ASSUME NEW r \in Purchases, PP!Serve(r) \/ PP!Fault(r)
      PROVE  /\ \A s \in Purchases \ {r} : Calm(s)
             /\ \/ Calm(r) /\ pclock' = pclock
                \/ PassesLookup(r) /\ pclock' = pclock /\ UNCHANGED payments
                \/ Drafts(r) /\ pclock' = pclock + 1 /\ UNCHANGED payments
  BY <1>0, <1>1, <1>2, ServeMoves
<1>3. ASSUME NEW r \in Purchases, PP!Receive(r)
      PROVE  /\ \A s \in Purchases \ {r} : Calm(s)
             /\ UNCHANGED payments
             /\ Arrives(r) /\ pclock' = pclock
  <2>1. PICK q \in PurchaseInputs :
          /\ preq' = [preq EXCEPT ![r] = q]
          /\ \E l \in {"done", "key", "order"} : ppc' = [ppc EXCEPT ![r] = l]
          /\ \E k : pseen' = [pseen EXCEPT ![r] =
               [key |-> k,
                paid |-> \E p \in PP!Rows(payments) :
                           /\ payments[p].order = q.order
                           /\ payments[p].status = "COMPLETED"]]
    BY <1>3 DEF PP!Receive, PP!Goto
  <2>2. /\ ppc[r] = "idle" /\ PP!Cardinality(PP!InFlight) < MaxInFlight
        /\ UNCHANGED <<payments, pclock, pdraft>>
    BY <1>3 DEF PP!Receive, PP!database
  <2>3. \A s \in Purchases \ {r} : Calm(s)
    BY <1>0, <1>1, <2>1, <2>2 DEF PP!TypeOK
  <2>4. /\ preq'[r] = q /\ ppc'[r] \in {"done", "key", "order"}
        /\ pseen'[r].paid = \E p \in PP!Rows(payments) :
                              /\ payments[p].order = q.order
                              /\ payments[p].status = "COMPLETED"
    BY <1>0, <2>1 DEF PP!TypeOK
  <2> QED
    BY <2>2, <2>3, <2>4 DEF Arrives, PP!Rows, Rows
<1>4. CASE PP!Crash
  <2>1. \A s \in Purchases : Calm(s)
    BY <1>0, <1>4 DEF PP!Crash, Calm, PP!TypeOK, PP!InFlight, PastLookups,
                      PP!DraftPcs, PP!InTxPcs
  <2> QED
    BY <1>4, <2>1 DEF PP!Crash
<1>5. CASE UNCHANGED PP!vars
  BY <1>1, <1>5 DEF PP!vars
<1> QED
  BY <1>2, <1>3, <1>4, <1>5 DEF PP!Next, PP!Finished

\* A commit is the end of its request.
LEMMA CommitEnds ==
  ASSUME PurchasesOK, PurchasesOK', NEW r \in Purchases, PurchaseCommit(r)
  PROVE  ppc'[r] = "done"
<1>1. payments'[r].status # "absent"
  BY DEF PurchaseCommit
<1> QED
  BY <1>1 DEF PurchasesOK, PP!StepOK

\* One request at a time stays one request at a time.
LEMMA AloneNext ==
  ASSUME MaxInFlight = 1, PurchasesOK, Alone, [PP!Next]_PP!vars
  PROVE  Alone'
<1> DEFINE Busy(r) == ppc[r] \notin {"idle", "done"}
<1>1. CASE \A s \in Purchases : Calm(s)
  BY <1>1 DEF Alone, Calm
<1>2. ASSUME NEW r \in Purchases, \A s \in Purchases \ {r} : Calm(s),
             PassesLookup(r) \/ Drafts(r)
      PROVE  Alone'
  BY <1>2 DEF Alone, Calm, PassesLookup, Drafts
<1>3. ASSUME NEW r \in Purchases, \A s \in Purchases \ {r} : Calm(s), Arrives(r)
      PROVE  Alone'
  <2>1. \A s \in Purchases : ~Busy(s)
    <3> SUFFICES ASSUME NEW s \in Purchases, Busy(s) PROVE FALSE
      OBVIOUS
    <3>1. PP!InFlight = {s}
      BY DEF Alone, PP!InFlight
    <3>2. Cardinality({s}) = 1
      BY FS_Singleton
    <3>3. PP!Cardinality({s}) = 1
      BY <3>2 DEF PP!Cardinality, Cardinality
    <3> QED
      BY <1>3, <3>1, <3>3 DEF Arrives
  <2>2. \A s \in Purchases \ {r} : ppc'[s] \in {"idle", "done"}
    BY <1>3, <2>1 DEF Calm
  <2> QED
    BY <2>2 DEF Alone
<1> QED
  BY <1>1, <1>2, <1>3, MoveCases

\* The youngest row stays the youngest.
LEMMA YoungestNext ==
  ASSUME PurchasesOK, PurchasesOK', Alone, DraftYoungest, [PP!Next]_PP!vars
  PROVE  DraftYoungest'
<1>0. /\ PP!TypeOK /\ PP!TypeOK' /\ pclock \in Nat
      /\ \A p \in Purchases : payments[p].created \in Int
      /\ \A p \in Purchases : pdraft[p].created \in Int
      /\ Rows(payments) \subseteq Purchases
  BY DEF PurchasesOK, PP!TypeOK, PP!PaymentRow, Rows
<1>1. ASSUME UNCHANGED payments, pclock' \in {pclock, pclock + 1},
             NEW r \in Purchases, \A s \in Purchases \ {r} : Calm(s),
             \/ Calm(r)
             \/ ppc'[r] \notin PP!DraftPcs
             \/ pdraft'[r].created = pclock + 1 /\ pclock' = pclock + 1
      PROVE  DraftYoungest'
  <2>1. Rows(payments)' = Rows(payments)
    BY <1>1 DEF Rows
  <2>2. \A p \in Rows(payments) : payments'[p].created <= pclock'
    BY <1>0, <1>1 DEF DraftYoungest
  <2>3. ASSUME NEW s \in Purchases, ppc'[s] \in PP!DraftPcs
        PROVE  /\ pdraft'[s].created <= pclock'
               /\ \A p \in Rows(payments) :
                    payments'[p].created < pdraft'[s].created
    <3>1. CASE Calm(s)
      <4>1. ppc[s] \in PP!DraftPcs /\ pdraft'[s].created = pdraft[s].created
        BY <2>3, <3>1 DEF Calm, PP!DraftPcs, PP!InTxPcs
      <4> QED
        BY <1>0, <1>1, <4>1 DEF DraftYoungest
    <3>2. CASE ~Calm(s)
      <4>1. pdraft'[s].created = pclock + 1 /\ pclock' = pclock + 1
        BY <1>1, <2>3, <3>2
      <4> QED
        BY <1>0, <1>1, <4>1 DEF DraftYoungest
    <3> QED
      BY <3>1, <3>2
  <2> QED
    BY <2>1, <2>2, <2>3 DEF DraftYoungest
<1>2. ASSUME NEW r \in Purchases, PurchaseCommit(r), pclock' = pclock,
             \A s \in Purchases : Calm(s)
      PROVE  DraftYoungest'
  <2>1. ppc[r] \in PP!DraftPcs /\ ppc'[r] = "done" /\ ppc[r] = "commit"
    BY <1>2, CommitEnds DEF PurchaseCommit, PP!DraftPcs, PP!InTxPcs
  <2>2. \A p \in Rows(payments)' : payments'[p].created <= pclock
    <3>1. payments'[r].created <= pclock
      BY <1>2, <2>1 DEF PurchaseCommit, DraftYoungest
    <3> QED
      BY <1>0, <1>2, <3>1 DEF PurchaseCommit, DraftYoungest
  <2>3. \A s \in Purchases : ppc'[s] \notin PP!DraftPcs
    BY <1>2, <2>1 DEF Alone, Calm, PP!DraftPcs, PP!InTxPcs
  <2> QED
    BY <1>2, <2>2, <2>3 DEF DraftYoungest
<1>3. CASE (\A s \in Purchases : Calm(s)) /\ pclock' = pclock
  <2>1. CASE UNCHANGED payments
    <3>1. CASE Purchases = {}
      BY <1>0, <3>1 DEF DraftYoungest, Rows, PP!TypeOK
    <3> QED
      BY <1>0, <1>1, <1>3, <2>1, <3>1
  <2> QED
    BY <1>2, <1>3, <2>1, PurchaseCommits
<1>4. ASSUME NEW r \in Purchases, \A s \in Purchases \ {r} : Calm(s),
             UNCHANGED payments,
             \/ Arrives(r) /\ pclock' = pclock
             \/ PassesLookup(r) /\ pclock' = pclock
             \/ Drafts(r) /\ pclock' = pclock + 1
      PROVE  DraftYoungest'
  BY <1>1, <1>4 DEF Arrives, PassesLookup, Drafts, PP!DraftPcs, PP!InTxPcs
<1> QED
  BY <1>3, <1>4, MoveCases

\* What a charged payment's status says, or UpdatePaymentStatus said.
LEMMA StatusOfChargeNext ==
  ASSUME NewStatuses \subseteq {"COMPLETED"},
         SInv, SInv', StatusesBacked, StatusesBacked', StatusOfCharge,
         [Next]_vars
  PROVE  StatusOfCharge'
<1>0. /\ PurchasesOK /\ ReturnsOK /\ LockedKept /\ OthersTypeOK
      /\ ChargesAudited
      /\ DOMAIN payments = Purchases /\ Rows(payments) \subseteq Purchases
  BY DEF SInv, ReturnsOK, RP!TypeOK, Rows
<1> SUFFICES ASSUME NEW p \in Rows(payments)'
             PROVE  IF ChargeSucceeded(p)'
                    THEN payments'[p].status = "COMPLETED" \/ Over(p)'
                    ELSE payments'[p].status = "FAILED" \/ DeclaredPaid(p)'
  BY DEF StatusOfCharge
<1>1. ASSUME p \in Rows(payments), payments'[p].status = payments[p].status
      PROVE  IF ChargeSucceeded(p)'
             THEN payments'[p].status = "COMPLETED" \/ Over(p)'
             ELSE payments'[p].status = "FAILED" \/ DeclaredPaid(p)'
  BY <1>1, MarksStay DEF StatusOfCharge
<1>2. CASE PurchaseStep
  <2>1. ASSUME NEW r \in Purchases, PurchaseCommit(r), p = r
        PROVE  IF ChargeSucceeded(p)'
               THEN payments'[p].status = "COMPLETED" \/ Over(p)'
               ELSE payments'[p].status = "FAILED" \/ DeclaredPaid(p)'
    <3>1. PICK log :
            /\ {t \in chargeLog' : t.payment = p} = {log}
            /\ log.success = (payments'[p].status # "FAILED")
      <4> DEFINE Log == [payment |-> p, type |-> "CHARGE",
                         amount |-> payments'[p].amount,
                         success |-> payments'[p].status # "FAILED"]
      <4>1. {t \in chargeLog' : t.payment = p} = {Log}
        BY <1>0, <2>1, CommitAudit DEF ChargeOf
      <4>2. Log.success = (payments'[p].status # "FAILED")
        OBVIOUS
      <4> HIDE DEF Log
      <4> QED
        BY <4>1, <4>2
    <3>2. payments'[p].status \in {"COMPLETED", "FAILED"}
      BY <2>1 DEF PurchaseCommit
    <3>3. CASE payments'[p].status = "COMPLETED"
      <4>1. log \in chargeLog' /\ log.payment = p /\ log.success
        BY <3>1, <3>3
      <4> QED
        BY <3>3, <4>1 DEF ChargeSucceeded
    <3>4. CASE payments'[p].status = "FAILED"
      <4>1. ~log.success /\ \A t \in chargeLog' : t.payment = p => t = log
        BY <3>1, <3>4
      <4> QED
        BY <3>4, <4>1 DEF ChargeSucceeded
    <3> QED
      BY <3>2, <3>3, <3>4
  <2>2. ASSUME NEW r \in Purchases, PurchaseCommit(r), p # r
        PROVE  p \in Rows(payments) /\ payments'[p] = payments[p]
    BY <1>0, <2>2 DEF PurchaseCommit, Rows
  <2> QED
    BY <1>0, <1>1, <1>2, <2>1, <2>2, PurchaseCommits DEF PurchaseStep, Rows
<1>3. CASE ReturnStep
  <2>1. p \in Rows(payments) /\ p \in Purchases
    BY <1>0, <1>3, ReturnRows DEF ReturnStep, RowsStay, RowsGrow, Rows
  <2>2. \/ payments'[p] = payments[p]
        \/ /\ payments[p].status \in {"COMPLETED", "REFUND_PENDING"}
           /\ payments'[p].status \in {"COMPLETED", "REFUNDED", "REFUND_FAILED"}
    BY <1>0, <1>3, <2>1, ReturnStatus DEF ReturnStep
  <2>3. payments'[p].status \in {"REFUNDED", "REFUND_FAILED"} => Over(p)'
    BY DEF StatusesBacked, StatusBacked, Over
  <2> QED
    BY <1>1, <2>1, <2>2, <2>3, MarksStay DEF StatusOfCharge
<1>4. ASSUME NEW q \in Updates, UpdateWrites(q)
      PROVE  IF ChargeSucceeded(p)'
             THEN payments'[p].status = "COMPLETED" \/ Over(p)'
             ELSE payments'[p].status = "FAILED" \/ DeclaredPaid(p)'
  <2>0. q \in Purchases /\ update[q].row \in PaymentRow /\ q \in Rows(payments)
    BY <1>4, CompositionAssumption
       DEF SInv, OthersTypeOK, UpdatesKept, UpdateWrites
  <2>1. CASE p = q
    <3>1. payments'[p].status = "COMPLETED" /\ Updated(p)'
      BY <1>0, <1>4, <2>0, <2>1
         DEF UpdateWrites, PaymentRow, Updated, OthersTypeOK
    <3>2. ~ChargeSucceeded(p) => \E t \in chargeLog : t.payment = p /\ ~t.success
      <4>1. PICK b \in BOOLEAN : {t \in chargeLog : t.payment = p} = ChargeOf(p, b)
        BY <1>0, <2>0, <2>1 DEF ChargesAudited
      <4>2. \E t : t \in chargeLog /\ t.payment = p
        BY <4>1 DEF ChargeOf
      <4> QED
        BY <4>2 DEF ChargeSucceeded
    <3>3. chargeLog' = chargeLog
      BY <1>4 DEF UpdateWrites, ofPayments
    <3> QED
      BY <3>1, <3>2, <3>3 DEF ChargeSucceeded, DeclaredPaid
  <2>2. CASE p # q
    BY <1>0, <1>1, <1>4, <2>2 DEF UpdateWrites, Rows
  <2> QED
    BY <2>1, <2>2
<1>5. ASSUME UNCHANGED payments
      PROVE  IF ChargeSucceeded(p)'
             THEN payments'[p].status = "COMPLETED" \/ Over(p)'
             ELSE payments'[p].status = "FAILED" \/ DeclaredPaid(p)'
  BY <1>1, <1>5 DEF Rows
<1>6. (\E q \in Updates : UpdateReads(q)) \/ (\E c \in Clients : ReadStep(c))
        \/ CrashStep \/ UNCHANGED vars => UNCHANGED payments
  BY DEF UpdateReads, ReadStep, CrashStep, vars
<1> QED
  BY <1>2, <1>3, <1>4, <1>5, <1>6, StepCases

\* A new row is a payment's commit.
LEMMA NewRow ==
  ASSUME SInv, SInv', [Next]_vars, NEW p \in Rows(payments)',
         p \notin Rows(payments)
  PROVE  PurchaseStep /\ PurchaseCommit(p) /\ ppc'[p] = "done"
<1>0. /\ PurchasesOK /\ PurchasesOK' /\ ReturnsOK /\ LockedKept
      /\ DOMAIN payments = Purchases /\ DOMAIN payments' = Purchases
      /\ p \in Purchases
  BY DEF SInv, ReturnsOK, RP!TypeOK, Rows
<1>1. ~UNCHANGED payments /\ ~RowsStay
  BY <1>0 DEF Rows, RowsStay
<1>2. CASE PurchaseStep
  <2>1. PICK r \in Purchases : PurchaseCommit(r)
    BY <1>0, <1>1, <1>2, PurchaseCommits DEF PurchaseStep
  <2>2. r = p
    BY <2>1 DEF PurchaseCommit
  <2> QED
    BY <1>0, <1>2, <2>1, <2>2, CommitEnds
<1>3. ~ReturnStep
  BY <1>0, <1>1, ReturnRows DEF ReturnStep
<1>4. ASSUME NEW q \in Updates PROVE ~UpdateReads(q) /\ ~UpdateWrites(q)
  BY <1>1, <1>4, UpdateRows DEF UpdateReads
<1>5. ASSUME NEW c \in Clients PROVE ~ReadStep(c)
  BY <1>1 DEF ReadStep
<1>6. ~CrashStep /\ ~UNCHANGED vars
  BY <1>1 DEF CrashStep, vars
<1> QED
  BY <1>2, <1>3, <1>4, <1>5, <1>6, StepCases

\* Whoever takes a step, the payments take one of theirs or none.
LEMMA PurchaseMoves ==
  ASSUME [Next]_vars
  PROVE  [PP!Next]_PP!vars \/ UNCHANGED ofPayments
<1>1. ASSUME NEW q \in Updates, UpdateReads(q) \/ UpdateWrites(q)
      PROVE  UNCHANGED ofPayments
  BY <1>1 DEF UpdateReads, UpdateWrites
<1>2. ASSUME NEW c \in Clients, ReadStep(c) PROVE UNCHANGED ofPayments
  BY <1>2 DEF ReadStep
<1> QED
  BY <1>1, <1>2, StepCases DEF PurchaseStep, ReturnStep, CrashStep, vars

\* Steps of others leave the requests alone and one at a time.
LEMMA OthersAlone ==
  ASSUME SInv, SInv', Alone, DraftYoungest, [Next]_vars, UNCHANGED ofPayments
  PROVE  Alone' /\ DraftYoungest'
<1>1. Rows(payments)' \subseteq Rows(payments)
  <2> SUFFICES ASSUME NEW p \in Rows(payments)', p \notin Rows(payments)
               PROVE  FALSE
    OBVIOUS
  <2> QED
    BY NewRow DEF PurchaseCommit, ofPayments
<1>2. \A p \in Rows(payments) : payments'[p].created = payments[p].created
  BY TablesGrow DEF RowsGrow, SameButStatus
<1> QED
  BY <1>1, <1>2 DEF Alone, DraftYoungest, ofPayments

\* Whoever takes a step, payments stay one at a time and the row being built
\* the youngest.
LEMMA AloneStays ==
  ASSUME MaxInFlight = 1, SInv, SInv', Alone, DraftYoungest, [Next]_vars
  PROVE  Alone' /\ DraftYoungest'
BY PurchaseMoves, OthersAlone, AloneNext, YoungestNext DEF SInv

\* Where a request past its lookups was before the step.
LEMMA LookupsMoves ==
  ASSUME SInv, [Next]_vars, NEW r \in Purchases, ppc'[r] \in PastLookups
  PROVE  /\ preq'[r] = preq[r]
         /\ \/ ppc[r] \in PastLookups
            \/ PassesLookup(r) /\ UNCHANGED payments
<1>1. CASE UNCHANGED ofPayments
  BY <1>1 DEF ofPayments
<1>2. CASE [PP!Next]_PP!vars
  <2>1. ppc'[r] \notin {"done", "key", "order"}
    BY DEF PastLookups, PP!DraftPcs, PP!InTxPcs
  <2>2. Calm(r) \/ (PassesLookup(r) /\ UNCHANGED payments) \/ Drafts(r)
    BY <1>2, <2>1, MoveCases DEF SInv, Arrives
  <2> QED
    BY <2>1, <2>2 DEF Calm, PassesLookup, Drafts, PastLookups
<1> QED
  BY <1>1, <1>2, PurchaseMoves

\* The lookup by order finds the youngest payment not COMPLETED: its refunds are
\* over, and those of the older ones were before it was charged.
LEMMA LookupOver ==
  ASSUME SInv, StatusOfCharge, OlderOver, NEW r \in Purchases, PassesLookup(r),
         NEW p \in Rows(payments), payments[p].order = preq[r].order,
         ChargeSucceeded(p)
  PROVE  Over(p)
<1>0. \A q \in Rows(payments) : payments[q].created \in Int
  BY DEF SInv, PurchasesOK, PP!TypeOK, PP!PaymentRow, Rows
<1>1. CASE p \in PP!GetPaymentByOrderID(preq[r].order)
  BY <1>1 DEF PassesLookup, StatusOfCharge
<1>2. CASE p \notin PP!GetPaymentByOrderID(preq[r].order)
  <2>1. PICK q \in Rows(payments) :
          /\ payments[q].order = preq[r].order
          /\ payments[p].created < payments[q].created
    BY <1>0, <1>2 DEF PP!GetPaymentByOrderID, PP!Rows, Rows
  <2> QED
    BY <2>1 DEF OlderOver
<1> QED
  BY <1>1, <1>2

\* The refunds of the older charged payments of an order stay over.
LEMMA OlderOverNext ==
  ASSUME SInv, SInv', Alone, DraftYoungest, StatusOfCharge, OlderOver,
         [Next]_vars
  PROVE  OlderOver'
<1>0. \A q \in Rows(payments) :
        payments[q].created \in Int /\ payments'[q].created \in Int
        /\ q \in Purchases
  <2>1. PP!TypeOK /\ PP!TypeOK'
    BY DEF SInv, PurchasesOK
  <2> QED
    BY <2>1 DEF PP!TypeOK, PP!PaymentRow, Rows
<1>1. ASSUME NEW r \in Purchases, ppc'[r] \in PastLookups,
             NEW p \in Rows(payments)', payments'[p].order = preq'[r].order,
             ChargeSucceeded(p)'
      PROVE  Over(p)'
  <2>1. preq'[r] = preq[r]
        /\ \/ ppc[r] \in PastLookups
           \/ PassesLookup(r) /\ UNCHANGED payments
    BY <1>1, LookupsMoves
  <2>2. CASE p \in Rows(payments)
    <3>1. payments[p].order = preq[r].order /\ ChargeSucceeded(p)
      BY <1>1, <2>1, <2>2, MarksStay DEF SameButStatus
    <3>2. Over(p)
      BY <2>1, <2>2, <3>1, LookupOver DEF OlderOver
    <3> QED
      BY <2>2, <3>2, MarksStay
  <2>3. CASE p \notin Rows(payments)
    <3>1. PurchaseCommit(p) /\ ppc'[p] = "done"
      BY <1>1, <2>3, NewRow
    <3>2. p \in Purchases /\ r # p /\ ppc[r] \in PastLookups
      <4>1. p \in Purchases
        BY DEF SInv, ReturnsOK, RP!TypeOK, Rows
      <4>2. ~UNCHANGED payments
        BY <1>1, <2>3 DEF Rows
      <4> QED
        BY <1>1, <2>1, <3>1, <4>1, <4>2 DEF PastLookups, PP!DraftPcs, PP!InTxPcs
    <3> QED
      BY <3>1, <3>2 DEF Alone, PurchaseCommit, PastLookups, PP!DraftPcs,
                        PP!InTxPcs
  <2> QED
    BY <2>2, <2>3
<1>2. ASSUME NEW p \in Rows(payments)', NEW q \in Rows(payments)',
             payments'[p].order = payments'[q].order,
             payments'[p].created < payments'[q].created,
             ChargeSucceeded(p)'
      PROVE  Over(p)'
  <2>1. CASE p \in Rows(payments) /\ q \in Rows(payments)
    <3>1. /\ payments[p].order = payments[q].order
          /\ payments[p].created < payments[q].created
      BY <1>2, <2>1, MarksStay DEF SameButStatus
    <3>2. Over(p)
      BY <1>2, <2>1, <3>1, MarksStay DEF OlderOver
    <3> QED
      BY <2>1, <3>2, MarksStay
  <2>2. CASE p \in Rows(payments) /\ q \notin Rows(payments)
    <3>1. PurchaseCommit(q) /\ q \in Purchases
      BY <1>2, <2>2, NewRow DEF SInv, ReturnsOK, RP!TypeOK, Rows
    <3>2. payments[p].order = preq[q].order /\ ppc[q] \in PastLookups
      BY <1>2, <2>2, <3>1, MarksStay
         DEF PurchaseCommit, SameButStatus, PastLookups, PP!DraftPcs, PP!InTxPcs
    <3>3. Over(p)
      BY <1>2, <2>2, <3>1, <3>2, MarksStay DEF OlderOver
    <3> QED
      BY <2>2, <3>3, MarksStay
  <2>3. CASE p \notin Rows(payments)
    <3>1. PurchaseCommit(p) /\ p \in Purchases
      BY <1>2, <2>3, NewRow DEF SInv, ReturnsOK, RP!TypeOK, Rows
    <3>2. q # p
      <4>1. payments'[p].created \in Int
        BY <3>1 DEF SInv, PurchasesOK, PP!TypeOK, PP!PaymentRow
      <4> QED
        BY <1>2, <4>1
    <3>3. q \in Rows(payments)
      BY <3>1, <3>2 DEF PurchaseCommit
    <3>4. payments'[q].created = payments[q].created
      BY <3>3, MarksStay DEF SameButStatus
    <3>5. payments[q].created < payments'[p].created
      BY <3>1, <3>3 DEF DraftYoungest, PurchaseCommit, PP!DraftPcs, PP!InTxPcs
    <3> QED
      <4>1. payments'[p].created \in Int /\ payments[q].created \in Int
        BY <1>0, <3>1, <3>3 DEF SInv, PurchasesOK, PP!TypeOK, PP!PaymentRow
      <4> QED
        BY <1>2, <3>4, <3>5, <4>1
  <2> QED
    BY <2>1, <2>2, <2>3
<1> QED
  BY <1>1, <1>2 DEF OlderOver

\* The payment that made the order paid is there while the request is served.
LEMMA PaidSeenNext ==
  ASSUME SInv, SInv', StatusOfCharge, PaidSeen, [Next]_vars
  PROVE  PaidSeen'
<1> SUFFICES ASSUME NEW r \in Purchases, pseen'[r].paid,
                    ppc'[r] \notin {"idle", "done"}
             PROVE  \E p \in Rows(payments)' :
                      /\ payments'[p].order = preq'[r].order
                      /\ ChargeSucceeded(p)' \/ DeclaredPaid(p)'
  BY DEF PaidSeen
<1>1. ASSUME NEW p \in Rows(payments), payments[p].order = preq'[r].order,
             ChargeSucceeded(p) \/ DeclaredPaid(p)
      PROVE  \E q \in Rows(payments)' :
               /\ payments'[q].order = preq'[r].order
               /\ ChargeSucceeded(q)' \/ DeclaredPaid(q)'
  BY <1>1, MarksStay DEF SameButStatus
<1>2. ASSUME ppc[r] \notin {"idle", "done"}, preq'[r] = preq[r],
             pseen'[r] = pseen[r]
      PROVE  \E p \in Rows(payments)' :
               /\ payments'[p].order = preq'[r].order
               /\ ChargeSucceeded(p)' \/ DeclaredPaid(p)'
  BY <1>1, <1>2 DEF PaidSeen
<1>3. CASE UNCHANGED ofPayments
  BY <1>2, <1>3 DEF ofPayments
<1>4. CASE [PP!Next]_PP!vars
  <2>1. Calm(r) \/ Arrives(r) \/ PassesLookup(r) \/ Drafts(r)
    BY <1>4, MoveCases DEF SInv
  <2>2. CASE Arrives(r)
    <3>1. PICK p \in Rows(payments) : /\ payments[p].order = preq'[r].order
                                      /\ payments[p].status = "COMPLETED"
      BY <2>2 DEF Arrives
    <3> QED
      BY <1>1, <3>1 DEF StatusOfCharge
  <2> QED
    BY <1>2, <2>1, <2>2 DEF Calm, PassesLookup, Drafts
<1> QED
  BY <1>3, <1>4, PurchaseMoves

\* The whole of it.
LEMMA OneByOneNext ==
  ASSUME MaxInFlight = 1, NewStatuses \subseteq {"COMPLETED"},
         SInv, SInv', StatusesBacked, StatusesBacked', OneByOne, [Next]_vars
  PROVE  OneByOne'
BY AloneStays, StatusOfChargeNext, OlderOverNext, PaidSeenNext DEF OneByOne

\* An order that was paid when a request that charged it arrived has a payment
\* that came before.
ChargesBacked ==
  \A r \in PP!charges : pseen[r].paid =>
    \E p \in Rows(payments) \ {r} :
      /\ payments[p].order = preq[r].order
      /\ Over(p) \/ DeclaredPaid(p)

\* Only the gateway call moves money, and the client's input stays.
LEMMA ChargesNext ==
  ASSUME PurchasesOK, [PP!Next]_PP!vars, NEW r \in Purchases
  PROVE  /\ ppc[r] # "idle" => preq'[r] = preq[r] /\ pseen'[r] = pseen[r]
         /\ r \in PP!charges' => r \in PP!charges \/ ppc[r] = "charge"
<1>0. PP!TypeOK
  BY DEF PurchasesOK
<1>1. ASSUME NEW s \in Purchases, PP!Receive(s), ppc[r] # "idle"
      PROVE  preq'[r] = preq[r] /\ pseen'[r] = pseen[r]
  BY <1>0, <1>1 DEF PP!Receive, PP!TypeOK
<1>2. ppc[r] # "idle" => preq'[r] = preq[r] /\ pseen'[r] = pseen[r]
  BY <1>1, PP!InputsStay, PurchaseConstants
<1>3. (\E s \in Purchases : PP!Charge(s)) \/ UNCHANGED taken
  BY DEF PP!Next, PP!Receive, PP!Serve, PP!Fault, PP!Finished, PP!vars,
     PP!FindByKey, PP!FindByOrder, PP!Route, PP!Begin, PP!CreatePayment,
     PP!CreatePaymentConflict, PP!CreatePaymentTooLong, PP!MarkProcessing,
     PP!CreateTransaction, PP!Settle, PP!Commit, PP!Recover, PP!StatementFails,
     PP!CommitAnswerLost, PP!Crash, PP!provider
<1>4. ASSUME NEW s \in Purchases, PP!Charge(s)
      PROVE  r \in PP!charges' => r \in PP!charges \/ ppc[r] = "charge"
  BY <1>0, <1>4 DEF PP!Charge, PP!charges, PP!TypeOK
<1> QED
  BY <1>2, <1>3, <1>4 DEF PP!charges

\* The gateway call of a request for a paid order comes after its lookups, which
\* found the refunds of every charged payment of the order over.
LEMMA ChargesBackedNext ==
  ASSUME SInv, SInv', OneByOne, ChargesBacked, [Next]_vars
  PROVE  ChargesBacked'
<1> SUFFICES ASSUME NEW r \in Purchases, r \in PP!charges', pseen'[r].paid
             PROVE  \E p \in Rows(payments)' \ {r} :
                      /\ payments'[p].order = preq'[r].order
                      /\ Over(p)' \/ DeclaredPaid(p)'
  BY DEF ChargesBacked, PP!charges
<1>1. ASSUME NEW p \in Rows(payments) \ {r}, payments[p].order = preq'[r].order,
             Over(p) \/ DeclaredPaid(p)
      PROVE  \E q \in Rows(payments)' \ {r} :
               /\ payments'[q].order = preq'[r].order
               /\ Over(q)' \/ DeclaredPaid(q)'
  BY <1>1, MarksStay DEF SameButStatus
<1>2. /\ r \in PP!charges \/ ppc[r] = "charge"
      /\ ppc[r] # "idle" => preq'[r] = preq[r] /\ pseen'[r] = pseen[r]
  <2>1. CASE UNCHANGED ofPayments
    BY <2>1 DEF ofPayments, PP!charges
  <2> QED
    BY <2>1, ChargesNext, PurchaseMoves DEF SInv
<1>3. PP!StepOK(r)
  BY DEF SInv, PurchasesOK
<1>4. CASE r \in PP!charges
  <2>1. ppc[r] # "idle"
    BY <1>3, <1>4 DEF PP!StepOK, PP!ChargedPcs, PP!InTxPcs
  <2> QED
    BY <1>1, <1>2, <1>4, <2>1 DEF ChargesBacked
<1>5. CASE ppc[r] = "charge"
  <2>1. preq'[r] = preq[r] /\ pseen[r].paid
    BY <1>2, <1>5
  <2>2. PICK p \in Rows(payments) :
          /\ payments[p].order = preq[r].order
          /\ ChargeSucceeded(p) \/ DeclaredPaid(p)
    BY <1>5, <2>1 DEF OneByOne, PaidSeen
  <2>3. p # r
    BY <1>3, <1>5 DEF PP!StepOK, Rows
  <2>4. ChargeSucceeded(p) => Over(p)
    BY <1>5, <2>2 DEF OneByOne, OlderOver, PastLookups, PP!DraftPcs
  <2> QED
    BY <1>1, <2>1, <2>2, <2>3, <2>4
<1> QED
  BY <1>2, <1>4, <1>5

\* Both hold of empty tables.
LEMMA OneByOneInit == Init => OneByOne /\ ChargesBacked
<1> SUFFICES ASSUME Init PROVE OneByOne /\ ChargesBacked
  OBVIOUS
<1>1. /\ payments = [x \in Purchases |-> PP!NoRow]
      /\ ppc = [x \in Purchases |-> "idle"]
      /\ taken = [x \in Purchases |-> 0]
  BY SamePurchases DEF Init, PP!Init
<1>2. Rows(payments) = {} /\ PP!charges = {}
  BY <1>1 DEF Rows, PP!NoRow, PP!charges
<1> QED
  BY <1>1, <1>2 DEF OneByOne, ChargesBacked, Alone, DraftYoungest,
     StatusOfCharge, OlderOver, PaidSeen, PastLookups, PP!DraftPcs, PP!InTxPcs

\* If payments are served one after the other, an order that was paid when a
\* request for it arrived is charged again only once the refunds of an earlier
\* payment are over, or if UpdatePaymentStatus declared a failed charge paid,
\* for any refunds, faults and crashes meanwhile.  UpdatePaymentStatus may
\* declare a payment COMPLETED; another status would hide a paid order from the
\* lookup.
THEOREM PaidOrderHolds ==
  ASSUME MaxInFlight = 1, NewStatuses \subseteq {"COMPLETED"}
  PROVE  Spec => []PaidOrderChargedOnlyAfterRefund
<1>1. Init => StatusesBacked
  <2> SUFFICES ASSUME Init PROVE StatusesBacked
    OBVIOUS
  <2>1. payments = [x \in Purchases |-> PP!NoRow]
    BY SamePurchases DEF Init, PP!Init
  <2> QED
    BY <2>1 DEF StatusesBacked, Rows, PP!NoRow
<1>2. SInv /\ SInv' /\ StatusesBacked /\ [Next]_vars => StatusesBacked'
  BY BackedNext
<1>3. SInv /\ SInv' /\ StatusesBacked /\ StatusesBacked' /\ OneByOne
        /\ ChargesBacked /\ [Next]_vars => OneByOne' /\ ChargesBacked'
  BY OneByOneNext, ChargesBackedNext
<1>4. ChargesBacked => PaidOrderChargedOnlyAfterRefund
  <2>1. \A p : RefundsOver(p) <=> Over(p)
    BY SameReturns DEF RefundsOver, Over, RefundsOf, RP!FailedRefunds, Rows,
                       RP!Rows
  <2> QED
    BY <2>1, SamePurchases DEF ChargesBacked, PaidOrderChargedOnlyAfterRefund
<1> QED
  BY <1>1, <1>2, <1>3, <1>4, OneByOneInit, ServiceInductive, PTL DEF Spec
=============================================================================
