--------------------------- MODULE RefundService ---------------------------
(***************************************************************************)
(* POST /api/v1/payments/{id}/refund of the Go service: the handler        *)
(* refundPayment and RefundService.ProcessRefund with the Store calls they *)
(* make, for any number of concurrent refunds of any number of payments.   *)
(*                                                                         *)
(* Requests are named by the uuid of the refund they create.  As in        *)
(* PaymentService, one action is one statement, one gateway call or one    *)
(* return, and Faults adds failing statements, lost COMMIT answers and     *)
(* crashes.  Here the gateway is called inside the database transaction,   *)
(* while the payment row is locked.                                        *)
(***************************************************************************)
EXTENDS Gateway, Money

CONSTANTS
  Payments,        \* payment uuids clients may name
  InitialPayments, \* payments tables ProcessPayment can have left behind
  Requests,        \* the refund requests ever sent (= refund uuids)
  Inputs,          \* what a client may put in a request
  None,            \* "no refund"
  MaxConns,        \* connections of the pgx pool
  Faults           \* TRUE: failing statements, lost answers and crashes

\* net/http trims the X-Correlation-ID header.  "valid" stands for the
\* parsing of the path and the body and the check on the scale.
RequestType ==
  [valid : BOOLEAN, payment : Payments, amount : Int,
   correlation : {Trim[t] : t \in Texts}]

ASSUME RefundAssumption ==
  /\ IsFiniteSet(Requests)
  /\ Payments # {}
  /\ Inputs \subseteq RequestType
  /\ Inputs # {}
  /\ InitialPayments \subseteq [Payments -> PaymentRow]
  /\ None \notin Requests
  /\ MaxConns \in Nat \ {0}
  /\ Faults \in BOOLEAN

\* What SettledAndAudited of PaymentService gives for committed payments, and
\* the amount check of its handler.
ASSUME InitialAssumption ==
  \A table \in InitialPayments : \A p \in Payments :
    \/ table[p] = NoRow
    \/ table[p].status \in {"COMPLETED", "FAILED"} /\ table[p].amount > 0

VARIABLES
  \* durable: the committed tables, and what the gateways did
  payments,       \* payments table
  refunds,        \* refunds table: the row of each uuid
  transactions,   \* the REFUND rows of the audit log
  gatewayRefunds, \* requests whose gateway call moved money back
  clock,          \* the last CreatedAt given out
  \* per request, in memory
  req,            \* its input
  pc,             \* where ProcessRefund stands
  draft,          \* the *Refund being built
  locked,         \* the *Payment read under the row lock
  remaining,      \* what is left to refund
  result,         \* the gateway's answer
  \* per request, its open database transaction
  txPayment,      \* the uncommitted payments row
  txRefund,       \* the uncommitted refunds row
  txLog,          \* the uncommitted audit rows
  \* per request, what the client observes, and history
  reply,          \* the response
  seen            \* a refund of its correlation id was committed on arrival

memory == <<req, draft, locked, remaining, result>>
tx == <<txPayment, txRefund, txLog>>
database == <<payments, refunds, transactions>>
vars == <<payments, refunds, transactions, gatewayRefunds, clock, req, pc,
          draft, locked, remaining, result, txPayment, txRefund, txLog, reply,
          seen>>

-----------------------------------------------------------------------------
(* State *)

\* The row lock on the payment is held from SELECT ... FOR UPDATE to the end
\* of the transaction.
LockedPcs == {"total", "create", "pending", "processing", "gateway", "audit",
              "settle", "settled", "commit"}
InTxPcs == {"lock"} \cup LockedPcs
DbPcs == {"correlation", "find", "begin"} \cup (InTxPcs \ {"gateway"})
Pcs == {"idle", "done", "gateway"} \cup DbPcs

RefundRow ==
  [status : RefundStatus \cup {"absent"}, payment : Payments, amount : Int,
   correlation : Texts, created : Int]

NoRefund == [status |-> "absent", payment |-> CHOOSE p \in Payments : TRUE,
             amount |-> 0, correlation |-> Blank, created |-> 0]

Transaction == [refund : Requests, payment : Payments, type : {"REFUND"},
                amount : Int, success : BOOLEAN]

Reply == [code : {"none", "200", "400", "404", "500", "dropped"},
          refund : Requests \cup {None}]

InFlight == {r \in Requests : pc[r] \notin {"idle", "done"}}
InTx == {r \in Requests : pc[r] \in InTxPcs}
ConnFree == Cardinality(InTx) < MaxConns

\* Mutant: SELECT without FOR UPDATE.
RowLockedNever(p) == FALSE

RowLocked(p) ==
  \E s \in Requests : pc[s] \in LockedPcs /\ req[s].payment = p

\* SELECT ... WHERE correlation_id = $1 ORDER BY created_at DESC LIMIT 1: the
\* payment of the refund is not part of the condition.
GetRefundByCorrelationID(correlation) ==
  LET same == {q \in Rows(refunds) : refunds[q].correlation = correlation}
  IN {q \in same : \A s \in same : refunds[s].created <= refunds[q].created}

\* The sum over the COMPLETED refunds of a payment.
CompletedRefunds(p) ==
  {q \in Rows(refunds) : refunds[q].payment = p
                         /\ refunds[q].status = "COMPLETED"}
Amounts == [q \in Requests |-> refunds[q].amount]
GetTotalRefunded(p) == Total(CompletedRefunds(p), Amounts)

Refundable(status) == status \in {"COMPLETED", "REFUND_PENDING"}

Init ==
  /\ payments \in InitialPayments
  /\ refunds = [r \in Requests |-> NoRefund]
  /\ transactions = {}
  /\ gatewayRefunds = {}
  /\ clock = 0
  /\ req = [r \in Requests |-> CHOOSE q \in Inputs : TRUE]  \* not yet sent
  /\ pc = [r \in Requests |-> "idle"]
  /\ draft = [r \in Requests |-> NoRefund]
  /\ locked = [r \in Requests |-> NoRow]
  /\ remaining = [r \in Requests |-> 0]
  /\ result = [r \in Requests |-> "none"]
  /\ txPayment = [r \in Requests |-> NoRow]
  /\ txRefund = [r \in Requests |-> NoRefund]
  /\ txLog = [r \in Requests |-> {}]
  /\ reply = [r \in Requests |-> [code |-> "none", refund |-> None]]
  /\ seen = [r \in Requests |-> FALSE]

Goto(r, l) == pc' = [pc EXCEPT ![r] = l]

\* Mutant: 200 with the id of a refund that was not committed.
ReturnOwn(r, code, refund) ==
  /\ Goto(r, "done")
  /\ reply' = [reply EXCEPT ![r] = [code |-> "200", refund |-> r]]
  /\ draft' = [draft EXCEPT ![r] = NoRefund]
  /\ locked' = [locked EXCEPT ![r] = NoRow]
  /\ remaining' = [remaining EXCEPT ![r] = 0]
  /\ result' = [result EXCEPT ![r] = "none"]
  /\ txPayment' = [txPayment EXCEPT ![r] = NoRow]
  /\ txRefund' = [txRefund EXCEPT ![r] = NoRefund]
  /\ txLog' = [txLog EXCEPT ![r] = {}]

\* The handler returns: its memory is gone, and so is a transaction that was
\* not committed, with its row lock.
Return(r, code, refund) ==
  /\ Goto(r, "done")
  /\ reply' = [reply EXCEPT ![r] = [code |-> code, refund |-> refund]]
  /\ draft' = [draft EXCEPT ![r] = NoRefund]
  /\ locked' = [locked EXCEPT ![r] = NoRow]
  /\ remaining' = [remaining EXCEPT ![r] = 0]
  /\ result' = [result EXCEPT ![r] = "none"]
  /\ txPayment' = [txPayment EXCEPT ![r] = NoRow]
  /\ txRefund' = [txRefund EXCEPT ![r] = NoRefund]
  /\ txLog' = [txLog EXCEPT ![r] = {}]

ReturnError(r, err) == Return(r, APIErrorFromErr(err), None)

-----------------------------------------------------------------------------
(* Before the transaction *)

\* The checks on the bound request; the amount is the one that matters here.
validateRefundRequest(q) == q.valid /\ q.amount > 0

\* The handler binds and validates the request.  seen is history.
Receive(r) ==
  /\ pc[r] = "idle"
  /\ \E q \in Inputs :
       /\ req' = [req EXCEPT ![r] = q]
       /\ seen' = [seen EXCEPT ![r] =
            /\ q.correlation # Blank
            /\ GetRefundByCorrelationID(q.correlation) # {}]
       /\ \/ /\ ~validateRefundRequest(q)
             /\ Goto(r, "done")
             /\ reply' = [reply EXCEPT ![r] =
                  [code |-> APIErrorFromErr("InvalidRequest"), refund |-> None]]
          \/ /\ validateRefundRequest(q)
             /\ Goto(r, IF q.correlation = Blank THEN "find" ELSE "correlation")
             /\ UNCHANGED reply
  /\ UNCHANGED <<database, gatewayRefunds, clock, draft, locked, remaining,
                 result, tx>>

\* Mutant: only a successful refund counts as the original of a duplicate.
FindByCorrelationPaidOnly(r) ==
  /\ pc[r] = "correlation"
  /\ ConnFree
  /\ LET found == {q \in GetRefundByCorrelationID(req[r].correlation) :
                     refunds[q].status = "COMPLETED"}
     IN \/ \E q \in found : Return(r, "200", q)
        \/ /\ found = {}
           /\ Goto(r, "find")
           /\ UNCHANGED <<draft, locked, remaining, result, tx, reply>>
  /\ UNCHANGED <<database, gatewayRefunds, clock, req, seen>>

\* A refund with the request's correlation id is returned as it is.
FindByCorrelation(r) ==
  /\ pc[r] = "correlation"
  /\ ConnFree
  /\ LET found == GetRefundByCorrelationID(req[r].correlation)
     IN \/ \E q \in found : Return(r, "200", q)
        \/ /\ found = {}
           /\ Goto(r, "find")
           /\ UNCHANGED <<draft, locked, remaining, result, tx, reply>>
  /\ UNCHANGED <<database, gatewayRefunds, clock, req, seen>>

\* The payment is read without a lock; it must exist, be refundable and
\* belong to an enabled gateway.  Then the refund is built.
GetPayment(r) ==
  /\ pc[r] = "find"
  /\ ConnFree
  /\ LET payment == payments[req[r].payment] IN
     \/ /\ payment.status = "absent"
        /\ ReturnError(r, "PaymentNotFound")
        /\ UNCHANGED clock
     \/ /\ payment.status # "absent"
        /\ ~Refundable(payment.status)
        /\ ReturnError(r, "RefundNotAllowed")
        /\ UNCHANGED clock
     \/ /\ Refundable(payment.status)
        /\ GetGateway(payment.gateway) = NoGateway
        /\ ReturnError(r, "GatewayUnavailable")
        /\ UNCHANGED clock
     \/ /\ Refundable(payment.status)
        /\ GetGateway(payment.gateway) # NoGateway
        /\ clock' = clock + 1
        /\ draft' = [draft EXCEPT ![r] =
             [status |-> "PENDING", payment |-> req[r].payment,
              amount |-> req[r].amount,
              correlation |-> nullString(req[r].correlation),
              created |-> clock']]
        /\ Goto(r, "begin")
        /\ UNCHANGED <<locked, remaining, result, tx, reply>>
  /\ UNCHANGED <<database, gatewayRefunds, req, seen>>

Begin(r) ==
  /\ pc[r] = "begin"
  /\ ConnFree
  /\ Goto(r, "lock")
  /\ UNCHANGED <<database, gatewayRefunds, clock, memory, tx, reply, seen>>

-----------------------------------------------------------------------------
(* RunInTx(persist) *)

\* Mutant: the status is not checked again under the lock.
GetPaymentForUpdateUnchecked(r) ==
  /\ pc[r] = "lock"
  /\ ~RowLocked(req[r].payment)
  /\ locked' = [locked EXCEPT ![r] = payments[req[r].payment]]
  /\ Goto(r, "total")
  /\ UNCHANGED <<database, gatewayRefunds, clock, req, draft, remaining,
                 result, tx, reply, seen>>

\* SELECT ... FOR UPDATE waits for the holder of the row, then sees what it
\* committed; the status is checked again.
GetPaymentForUpdate(r) ==
  /\ pc[r] = "lock"
  /\ ~RowLocked(req[r].payment)
  /\ \/ /\ ~Refundable(payments[req[r].payment].status)
        /\ ReturnError(r, "RefundNotAllowed")
     \/ /\ Refundable(payments[req[r].payment].status)
        /\ locked' = [locked EXCEPT ![r] = payments[req[r].payment]]
        /\ Goto(r, "total")
        /\ UNCHANGED <<draft, remaining, result, tx, reply>>
  /\ UNCHANGED <<database, gatewayRefunds, clock, req, seen>>

\* Mutant: the sum is read through the pool, not through the transaction.
CheckRemainingByPool(r) ==
  /\ pc[r] = "total"
  /\ ConnFree
  /\ LET left == locked[r].amount - GetTotalRefunded(req[r].payment) IN
     \/ /\ req[r].amount > left
        /\ ReturnError(r, "RefundExceedsRemaining")
     \/ /\ req[r].amount <= left
        /\ remaining' = [remaining EXCEPT ![r] = left]
        /\ Goto(r, "create")
        /\ UNCHANGED <<draft, locked, result, tx, reply>>
  /\ UNCHANGED <<database, gatewayRefunds, clock, req, seen>>

\* Mutant: earlier refunds are not summed, the status is trusted to tell.
CheckRemainingByStatus(r) ==
  /\ pc[r] = "total"
  /\ \/ /\ req[r].amount > locked[r].amount
        /\ ReturnError(r, "RefundExceedsRemaining")
     \/ /\ req[r].amount <= locked[r].amount
        /\ remaining' = [remaining EXCEPT ![r] = locked[r].amount]
        /\ Goto(r, "create")
        /\ UNCHANGED <<draft, locked, result, tx, reply>>
  /\ UNCHANGED <<database, gatewayRefunds, clock, req, seen>>

\* The refunds are summed on the transaction's own connection.
CheckRemaining(r) ==
  /\ pc[r] = "total"
  /\ LET left == locked[r].amount - GetTotalRefunded(req[r].payment) IN
     \/ /\ req[r].amount > left
        /\ ReturnError(r, "RefundExceedsRemaining")
     \/ /\ req[r].amount <= left
        /\ remaining' = [remaining EXCEPT ![r] = left]
        /\ Goto(r, "create")
        /\ UNCHANGED <<draft, locked, result, tx, reply>>
  /\ UNCHANGED <<database, gatewayRefunds, clock, req, seen>>

\* The rows are overwritten with the in-memory payment and refund.
UpdatePayment(r) == txPayment' = [txPayment EXCEPT ![r] = locked'[r]]
UpdateRefund(r) == txRefund' = [txRefund EXCEPT ![r] = draft'[r]]

CreateRefund(r) ==
  /\ pc[r] = "create"
  /\ txRefund' = [txRefund EXCEPT ![r] = draft[r]]
  /\ Goto(r, "pending")
  /\ UNCHANGED <<database, gatewayRefunds, clock, memory, txPayment, txLog,
                 reply, seen>>

MarkRefundPending(r) ==
  /\ pc[r] = "pending"
  /\ locked' = [locked EXCEPT ![r].status = "REFUND_PENDING"]
  /\ UpdatePayment(r)
  /\ Goto(r, "processing")
  /\ UNCHANGED <<database, gatewayRefunds, clock, req, draft, remaining,
                 result, txRefund, txLog, reply, seen>>

MarkProcessing(r) ==
  /\ pc[r] = "processing"
  /\ draft' = [draft EXCEPT ![r].status = "PROCESSING"]
  /\ UpdateRefund(r)
  /\ Goto(r, "gateway")
  /\ UNCHANGED <<database, gatewayRefunds, clock, req, locked, remaining,
                 result, txPayment, txLog, reply, seen>>

\* No idempotency key is passed: every call is a new refund to the gateway.
CallGateway(r) ==
  /\ pc[r] = "gateway"
  /\ \E success \in ProcessRefund(locked[r].gateway) :
       /\ result' = [result EXCEPT ![r] = IF success THEN "ok" ELSE "fail"]
       /\ gatewayRefunds' = IF success THEN gatewayRefunds \cup {r}
                                       ELSE gatewayRefunds
  /\ Goto(r, "audit")
  /\ UNCHANGED <<database, clock, req, draft, locked, remaining, tx, reply,
                 seen>>

CreateTransaction(r) ==
  /\ pc[r] = "audit"
  /\ txLog' = [txLog EXCEPT ![r] = @ \cup
       {[refund |-> r, payment |-> req[r].payment, type |-> "REFUND",
         amount |-> req[r].amount, success |-> result[r] = "ok"]}]
  /\ Goto(r, "settle")
  /\ UNCHANGED <<database, gatewayRefunds, clock, memory, txPayment, txRefund,
                 reply, seen>>

\* Mutant: a full refund is recognised by its own amount alone.
SettledStatusOfAmount(r) ==
  IF result[r] # "ok" THEN "REFUND_FAILED"
  ELSE IF req[r].amount >= locked[r].amount THEN "REFUNDED"
  ELSE "COMPLETED"

SettledStatus(r) ==
  IF result[r] # "ok" THEN "REFUND_FAILED"
  ELSE IF req[r].amount >= remaining[r] THEN "REFUNDED"
  ELSE "COMPLETED"

SettlePayment(r) ==
  /\ pc[r] = "settle"
  /\ draft' = [draft EXCEPT
       ![r].status = IF result[r] = "ok" THEN "COMPLETED" ELSE "FAILED"]
  /\ locked' = [locked EXCEPT ![r].status = SettledStatus(r)]
  /\ UpdatePayment(r)
  /\ Goto(r, "settled")
  /\ UNCHANGED <<database, gatewayRefunds, clock, req, remaining, result,
                 txRefund, txLog, reply, seen>>

\* Mutant: the second UpdateRefund is missing.
SettleRefundSkipped(r) ==
  /\ pc[r] = "settled"
  /\ Goto(r, "commit")
  /\ UNCHANGED <<database, gatewayRefunds, clock, memory, tx, reply, seen>>

SettleRefund(r) ==
  /\ pc[r] = "settled"
  /\ UNCHANGED memory
  /\ UpdateRefund(r)
  /\ Goto(r, "commit")
  /\ UNCHANGED <<database, gatewayRefunds, clock, txPayment, txLog, reply, seen>>

Committed(r) ==
  /\ payments' = [payments EXCEPT ![req[r].payment] = txPayment[r]]
  /\ refunds' = [refunds EXCEPT ![r] = txRefund[r]]
  /\ transactions' = transactions \cup txLog[r]

Commit(r) ==
  /\ pc[r] = "commit"
  /\ Committed(r)
  /\ Return(r, "200", r)
  /\ UNCHANGED <<gatewayRefunds, clock, req, seen>>

-----------------------------------------------------------------------------
(* Faults *)

\* A statement fails, or the client's context is cancelled: rollback, 500.
StatementFails(r) ==
  /\ Faults
  /\ pc[r] \in DbPcs
  /\ ReturnError(r, "Other")
  /\ UNCHANGED <<database, gatewayRefunds, clock, req, seen>>

\* COMMIT took effect but its answer did not arrive.
CommitAnswerLost(r) ==
  /\ Faults
  /\ pc[r] = "commit"
  /\ Committed(r)
  /\ ReturnError(r, "Other")
  /\ UNCHANGED <<gatewayRefunds, clock, req, seen>>

\* The process dies; PostgreSQL rolls its transactions back.
Crash ==
  /\ Faults
  /\ InFlight # {}
  /\ pc' = [r \in Requests |-> IF r \in InFlight THEN "done" ELSE pc[r]]
  /\ reply' = [r \in Requests |->
       IF r \in InFlight THEN [code |-> "dropped", refund |-> None]
                         ELSE reply[r]]
  /\ draft' = [r \in Requests |-> NoRefund]
  /\ locked' = [r \in Requests |-> NoRow]
  /\ remaining' = [r \in Requests |-> 0]
  /\ result' = [r \in Requests |-> "none"]
  /\ txPayment' = [r \in Requests |-> NoRow]
  /\ txRefund' = [r \in Requests |-> NoRefund]
  /\ txLog' = [r \in Requests |-> {}]
  /\ UNCHANGED <<database, gatewayRefunds, clock, req, seen>>

-----------------------------------------------------------------------------
(* Specification *)

Serve(r) ==
  \/ FindByCorrelation(r) \/ GetPayment(r) \/ Begin(r)
  \/ GetPaymentForUpdate(r) \/ CheckRemaining(r) \/ CreateRefund(r)
  \/ MarkRefundPending(r) \/ MarkProcessing(r) \/ CallGateway(r)
  \/ CreateTransaction(r) \/ SettlePayment(r) \/ SettleRefund(r)
  \/ Commit(r)

Fault(r) == StatementFails(r) \/ CommitAnswerLost(r)

\* Every request has been answered.
Finished == (\A r \in Requests : pc[r] = "done") /\ UNCHANGED vars

Next ==
  \/ \E r \in Requests : Receive(r) \/ Serve(r) \/ Fault(r)
  \/ Crash
  \/ Finished

Spec == Init /\ [][Next]_vars
-----------------------------------------------------------------------------
(* Properties *)

TypeOK ==
  /\ payments \in [Payments -> PaymentRow]
  /\ refunds \in [Requests -> RefundRow]
  /\ transactions \subseteq Transaction
  /\ gatewayRefunds \subseteq Requests
  /\ clock \in Nat
  /\ req \in [Requests -> RequestType]
  /\ pc \in [Requests -> Pcs]
  /\ draft \in [Requests -> RefundRow]
  /\ locked \in [Requests -> PaymentRow]
  /\ remaining \in [Requests -> Nat]
  /\ result \in [Requests -> {"none", "ok", "fail"}]
  /\ txPayment \in [Requests -> PaymentRow]
  /\ txRefund \in [Requests -> RefundRow]
  /\ txLog \in [Requests -> SUBSET Transaction]
  /\ reply \in [Requests -> Reply]
  /\ seen \in [Requests -> BOOLEAN]

\* However refunds of one payment interleave, the COMPLETED ones never add up to
\* more than the payment.
NoOverRefund ==
  \A p \in Rows(payments) : GetTotalRefunded(p) <= payments[p].amount

\* The status of a payment tells the state of its refunds: REFUNDED when they
\* add up to it, REFUND_FAILED when one (and then only one) failed, and
\* REFUND_PENDING is never committed.
StatusMatchesRefunds ==
  \A p \in Rows(payments) :
    LET failed == {q \in Rows(refunds) : /\ refunds[q].payment = p
                                         /\ refunds[q].status = "FAILED"}
    IN /\ payments[p].status \in
            {"COMPLETED", "FAILED", "REFUNDED", "REFUND_FAILED"}
       /\ (payments[p].status = "REFUNDED")
            <=> (GetTotalRefunded(p) = payments[p].amount)
       /\ (payments[p].status = "REFUND_FAILED") <=> (failed # {})
       /\ \A q, s \in failed : q = s

\* Whatever fails between the statements of a refund, a committed refund is
\* COMPLETED or FAILED as the gateway answered, belongs to a payment, and has
\* exactly one REFUND audit row, which agrees with it.
RefundSettledAndAudited ==
  /\ \A q \in Rows(refunds) :
       /\ refunds[q].status = IF q \in gatewayRefunds THEN "COMPLETED"
                                                      ELSE "FAILED"
       /\ refunds[q].payment \in Rows(payments)
       /\ {t \in transactions : t.refund = q} =
            {[refund |-> q, payment |-> refunds[q].payment, type |-> "REFUND",
              amount |-> refunds[q].amount,
              success |-> refunds[q].status = "COMPLETED"]}
  /\ \A t \in transactions : t.refund \in Rows(refunds)

\* Money that went back without a committed refund is never reported as a
\* success: the client saw an error or a closed connection.
LostRefundReported ==
  \A r \in gatewayRefunds :
    pc[r] = "done" /\ r \notin Rows(refunds)
      => reply[r].code \in {"500", "dropped"}

\* A 200 names a committed refund, the request's own or one of its correlation
\* id.
RefundReplySound ==
  \A r \in Requests : reply[r].code = "200" =>
    /\ reply[r].refund \in Rows(refunds)
    /\ \/ reply[r].refund = r
       \/ /\ req[r].correlation # Blank
          /\ refunds[reply[r].refund].correlation = req[r].correlation

\* A duplicate that arrives after a refund of its correlation id was committed
\* moves no money, even if that refund FAILED.
LateDuplicateNeverRefunds ==
  \A r \in Requests : seen[r] => r \notin gatewayRefunds

\* A refund that was waiting for the row never reopens a payment that another
\* one finished: REFUNDED, REFUND_FAILED and FAILED payments stay as they are,
\* and what was refunded never shrinks.
FinishedPaymentsStay ==
  [][\A p \in Payments :
       /\ payments[p].status \in {"REFUNDED", "REFUND_FAILED", "FAILED"}
            => payments'[p] = payments[p]
       /\ CompletedRefunds(p) \subseteq CompletedRefunds(p)']_vars

\* What a client may see of the tables: an account per payment, with what its
\* refunds add up to.
Account(p) == [status |-> payments[p].status, amount |-> payments[p].amount,
               refunded |-> GetTotalRefunded(p)]

Book == INSTANCE Ledger WITH
          Accounts <- Payments,
          Amounts <- {q.amount : q \in Inputs},
          account <- [p \in Payments |-> Account(p)]

\* The thirteen steps of a refund are, for whoever reads the tables, nothing or
\* one step: an amount that was left goes back, or the refund fails for good.
ImplementsLedger == Book!Spec

(* The inductive strengthening the proofs rest on *)

CalledPcs == {"audit", "settle", "settled", "commit"}

\* What ProcessRefund has established for r where it stands.
RefundStepOK(r) ==
  LET p == req[r].payment IN
  /\ refunds[r].status # "absent" => pc[r] = "done"
  /\ r \in gatewayRefunds => pc[r] \in CalledPcs \cup {"done"}
  /\ r \in InFlight => req[r].amount > 0
  /\ pc[r] \in {"begin"} \cup InTxPcs =>
       draft[r].payment = p /\ draft[r].amount = req[r].amount
  /\ pc[r] \in LockedPcs =>
       /\ Refundable(payments[p].status)
       /\ locked[r].amount = payments[p].amount
  /\ pc[r] \in LockedPcs \ {"total"} =>
       /\ remaining[r] = payments[p].amount - GetTotalRefunded(p)
       /\ req[r].amount <= remaining[r]
  /\ pc[r] \in CalledPcs =>
       result[r] = IF r \in gatewayRefunds THEN "ok" ELSE "fail"
  /\ txLog[r] =
       IF pc[r] \in CalledPcs \ {"audit"}
       THEN {[refund |-> r, payment |-> p, type |-> "REFUND",
              amount |-> req[r].amount, success |-> result[r] = "ok"]}
       ELSE {}
  /\ pc[r] \in {"settled", "commit"} =>
       /\ txPayment[r] = locked[r]
       /\ locked[r].status = SettledStatus(r)
       /\ draft[r].status = IF result[r] = "ok" THEN "COMPLETED" ELSE "FAILED"
  /\ pc[r] = "commit" => txRefund[r] = draft[r]

\* Only one request holds the lock of a payment row.
RowExclusive ==
  \A r, s \in Requests :
    /\ pc[r] \in LockedPcs /\ pc[s] \in LockedPcs
    /\ req[r].payment = req[s].payment
    => r = s

\* Between any two steps: the holder of a row is alone and what it has read is
\* still true, and every request is where its memory and transaction say it is.
RefundStepsConsistent ==
  /\ \A r \in Requests : RefundStepOK(r)
  /\ RowExclusive

(* What the repository's documents say, and the code does not keep *)

\* X-Correlation-ID is a "Request correlation ID for tracing": a refund that is
\* answered 200 is a refund of the payment that was named.
RefundIsOfThePayment ==
  \A r \in Requests : reply[r].code = "200" =>
    refunds[reply[r].refund].payment = req[r].payment
=============================================================================
