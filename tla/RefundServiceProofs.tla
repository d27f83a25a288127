------------------------ MODULE RefundServiceProofs ------------------------
(***************************************************************************)
(* Theorems about RefundService, for every set of payments, requests and   *)
(* amounts, every pool size, with and without faults.                      *)
(***************************************************************************)
EXTENDS RefundService, FiniteSetTheorems, TLAPS

-----------------------------------------------------------------------------
(* What Total computes: nothing for no amounts, and one more amount adds       *)
(* exactly that amount                                                         *)

\* The units of one amount are finitely many, as many as the amount.
LEMMA UnitsOfOne ==
  ASSUME NEW x, NEW n \in Nat
  PROVE  /\ IsFiniteSet({x} \X (1 .. n))
         /\ Cardinality({x} \X (1 .. n)) = n
<1>1. IsFiniteSet({x}) /\ Cardinality({x}) = 1
  BY FS_Singleton
<1>2. IsFiniteSet(1 .. n) /\ Cardinality(1 .. n) = n
  BY FS_Interval
<1>3. /\ IsFiniteSet({x} \X (1 .. n))
      /\ Cardinality({x} \X (1 .. n)) = Cardinality({x}) * Cardinality(1 .. n)
  BY <1>1, <1>2, FS_Product
<1> QED
  BY <1>1, <1>2, <1>3

\* Finitely many amounts have finitely many units.
LEMMA UnitsFinite ==
  ASSUME NEW S, IsFiniteSet(S), NEW amount, \A s \in S : amount[s] \in Int
  PROVE  IsFiniteSet(UnitsOf(S, amount))
<1> DEFINE parts == {{s} \X (1 .. amount[s]) : s \in S}
           f == [s \in S |-> {s} \X (1 .. amount[s])]
<1>1. f \in Surjection(S, parts)
  BY DEF Surjection
<1>2. IsFiniteSet(parts)
  <2> HIDE DEF parts, f
  <2> QED
    BY <1>1, FS_Surjection
<1>3. ASSUME NEW T \in parts PROVE IsFiniteSet(T)
  <2>1. PICK s \in S : T = {s} \X (1 .. amount[s])
    BY <1>3
  <2>2. IsFiniteSet({s})
    BY FS_Singleton
  <2>3. 1 \in Int /\ amount[s] \in Int
    OBVIOUS
  <2>4. IsFiniteSet(1 .. amount[s])
    BY <2>3, FS_Interval
  <2> QED
    BY <2>1, <2>2, <2>4, FS_Product
<1>4. IsFiniteSet(UNION parts)
  <2> HIDE DEF parts
  <2> QED
    BY <1>2, <1>3, FS_UNION
<1> QED
  BY <1>4 DEF UnitsOf

\* The sum of finitely many amounts is a natural number.
LEMMA TotalType ==
  ASSUME NEW S, IsFiniteSet(S), NEW amount, \A s \in S : amount[s] \in Int
  PROVE  Total(S, amount) \in Nat
BY UnitsFinite, FS_CardinalityType DEF Total

\* The sum depends on the amounts of its members only.
LEMMA TotalSame ==
  ASSUME NEW S, NEW a, NEW b, \A s \in S : a[s] = b[s]
  PROVE  Total(S, a) = Total(S, b)
<1>1. {{s} \X (1 .. a[s]) : s \in S} = {{s} \X (1 .. b[s]) : s \in S}
  OBVIOUS
<1> QED
  BY <1>1 DEF Total, UnitsOf

\* The sum of no amounts is zero.
LEMMA TotalEmpty ==
  ASSUME NEW amount
  PROVE  Total({}, amount) = 0
<1>1. UnitsOf({}, amount) = {}
  BY DEF UnitsOf
<1> QED
  BY <1>1, FS_EmptySet DEF Total

\* One more amount adds itself to the sum, as each turn of the loop over the
\* existing refunds does.
LEMMA TotalAdd ==
  ASSUME NEW S, IsFiniteSet(S), NEW amount, NEW x, x \notin S,
         \A s \in S : amount[s] \in Int, amount[x] \in Nat
  PROVE  Total(S \cup {x}, amount) = Total(S, amount) + amount[x]
<1> DEFINE old == UnitsOf(S, amount)
           new == {x} \X (1 .. amount[x])
<1>1. UnitsOf(S \cup {x}, amount) = old \cup new
  BY DEF UnitsOf
<1>2. old \cap new = {}
  BY DEF UnitsOf
<1>3. IsFiniteSet(old)
  BY UnitsFinite
<1>4. IsFiniteSet(new) /\ Cardinality(new) = amount[x]
  BY UnitsOfOne
<1>5. Cardinality(old \cup new)
        = Cardinality(old) + Cardinality(new) - Cardinality(old \cap new)
  <2> HIDE DEF old, new
  <2> QED
    BY <1>3, <1>4, FS_Union
<1>6. Cardinality(old \cap new) = 0
  BY <1>2, FS_EmptySet
<1>7. Cardinality(old) \in Nat
  BY <1>3, FS_CardinalityType
<1>8. Cardinality(old \cup new) = Cardinality(old) + amount[x]
  <2> HIDE DEF old, new
  <2> QED
    BY <1>4, <1>5, <1>6, <1>7
<1> QED
  BY <1>1, <1>8 DEF Total
-----------------------------------------------------------------------------
(* Facts about the operators *)

\* "No row" and "no refund" are rows.
LEMMA NoRowTypes == NoRow \in PaymentRow /\ NoRefund \in RefundRow
<1>1. NoRow \in PaymentRow
  BY TrimAssumption DEF NoRow, PaymentRow
<1>2. (CHOOSE p \in Payments : TRUE) \in Payments
  BY RefundAssumption
<1> QED
  BY <1>1, <1>2, TrimAssumption DEF NoRefund, RefundRow

\* Setting the status of a payment gives a payment, its amount unchanged.
LEMMA PaymentStatusSet ==
  ASSUME NEW row \in PaymentRow, NEW status \in PaymentStatus
  PROVE  /\ [row EXCEPT !.status = status] \in PaymentRow
         /\ [row EXCEPT !.status = status].status = status
         /\ [row EXCEPT !.status = status].amount = row.amount
BY DEF PaymentRow

\* Setting the status of a refund gives a refund, its payment and amount
\* unchanged.
LEMMA RefundStatusSet ==
  ASSUME NEW row \in RefundRow, NEW status \in RefundStatus
  PROVE  /\ [row EXCEPT !.status = status] \in RefundRow
         /\ [row EXCEPT !.status = status].status = status
         /\ [row EXCEPT !.status = status].payment = row.payment
         /\ [row EXCEPT !.status = status].amount = row.amount
BY DEF RefundRow

\* What was refunded of a payment is a natural number.
LEMMA TotalRefundedType ==
  ASSUME TypeOK, NEW p
  PROVE  /\ IsFiniteSet(CompletedRefunds(p))
         /\ GetTotalRefunded(p) \in Nat
<1>1. CompletedRefunds(p) \in SUBSET Requests
  BY DEF CompletedRefunds, Rows, TypeOK
<1>2. IsFiniteSet(CompletedRefunds(p))
  BY <1>1, RefundAssumption, FS_Subset
<1>3. \A q \in Requests : Amounts[q] \in Int
  BY DEF TypeOK, RefundRow, Amounts
<1> QED
  BY <1>1, <1>2, <1>3, TotalType DEF GetTotalRefunded
-----------------------------------------------------------------------------
(* Types *)

\* A return leaves well-typed values behind.
LEMMA ReturnTypes ==
  ASSUME TypeOK, NEW r \in Requests, NEW code, NEW refund,
         [code |-> code, refund |-> refund] \in Reply, Return(r, code, refund)
  PROVE  /\ pc' \in [Requests -> Pcs]
         /\ reply' \in [Requests -> Reply]
         /\ draft' \in [Requests -> RefundRow]
         /\ locked' \in [Requests -> PaymentRow]
         /\ remaining' \in [Requests -> Nat]
         /\ result' \in [Requests -> {"none", "ok", "fail"}]
         /\ txPayment' \in [Requests -> PaymentRow]
         /\ txRefund' \in [Requests -> RefundRow]
         /\ txLog' \in [Requests -> SUBSET Transaction]
<1> USE NoRowTypes
<1>1. /\ pc' \in [Requests -> Pcs]
      /\ result' \in [Requests -> {"none", "ok", "fail"}]
      /\ remaining' \in [Requests -> Nat]
  BY DEF TypeOK, Return, Goto, Pcs
<1>2. reply' \in [Requests -> Reply]
  BY DEF TypeOK, Return
<1>3. draft' \in [Requests -> RefundRow] /\ txRefund' \in [Requests -> RefundRow]
  BY DEF TypeOK, Return
<1>4. locked' \in [Requests -> PaymentRow] /\ txPayment' \in [Requests -> PaymentRow]
  BY DEF TypeOK, Return
<1>5. txLog' \in [Requests -> SUBSET Transaction]
  BY DEF TypeOK, Return
<1> QED
  BY <1>1, <1>2, <1>3, <1>4, <1>5

\* Every way to answer gives a well-formed response.
LEMMA ReplyTypes ==
  /\ \A q \in Requests : [code |-> "200", refund |-> q] \in Reply
  /\ \A err \in {"InvalidRequest", "PaymentNotFound", "RefundNotAllowed",
                 "RefundExceedsRemaining", "GatewayUnavailable", "Other"} :
       [code |-> APIErrorFromErr(err), refund |-> None] \in Reply
  /\ [code |-> "dropped", refund |-> None] \in Reply
BY DEF Reply, APIErrorFromErr

\* The initial states are well typed.
LEMMA TypeInit == Init => TypeOK
<1> SUFFICES ASSUME Init PROVE TypeOK
  OBVIOUS
<1>1. (CHOOSE q \in Inputs : TRUE) \in RequestType
  BY RefundAssumption
<1>2. [code |-> "none", refund |-> None] \in Reply
  BY DEF Reply
<1>3. payments \in [Payments -> PaymentRow]
  BY RefundAssumption DEF Init
<1> QED
  BY <1>1, <1>2, <1>3, NoRowTypes DEF Init, TypeOK, Pcs

\* Every step keeps the types.  What remains of a payment is a natural number
\* because a larger refund is refused.
LEMMA TypeNext ==
  ASSUME TypeOK, \A r \in Requests : RefundStepOK(r), [Next]_vars
  PROVE  TypeOK'
<1> USE NoRowTypes DEF memory, tx, database
<1>1. ASSUME NEW r \in Requests, Receive(r) PROVE TypeOK'
  <2>1. PICK q \in Inputs :
          /\ req' = [req EXCEPT ![r] = q]
          /\ \E b \in BOOLEAN : seen' = [seen EXCEPT ![r] = b]
          /\ \/ /\ pc' = [pc EXCEPT ![r] = "done"]
                /\ reply' = [reply EXCEPT ![r] =
                     [code |-> APIErrorFromErr("InvalidRequest"),
                      refund |-> None]]
             \/ /\ \/ pc' = [pc EXCEPT ![r] = "find"]
                   \/ pc' = [pc EXCEPT ![r] = "correlation"]
                /\ reply' = reply
    BY <1>1 DEF Receive, Goto
  <2>2. q \in RequestType
    BY RefundAssumption
  <2>3. reply' \in [Requests -> Reply]
    BY <2>1, ReplyTypes DEF TypeOK
  <2>4. seen' \in [Requests -> BOOLEAN]
    BY <2>1 DEF TypeOK
  <2> QED
    BY <1>1, <2>1, <2>2, <2>3, <2>4 DEF Receive, TypeOK, Pcs, DbPcs
<1>2. ASSUME NEW r \in Requests, FindByCorrelation(r) PROVE TypeOK'
  <2>1. ASSUME NEW q \in GetRefundByCorrelationID(req[r].correlation),
               Return(r, "200", q)
        PROVE  TypeOK'
    <3>1. q \in Requests
      BY DEF GetRefundByCorrelationID, Rows, TypeOK
    <3> QED
      BY <1>2, <2>1, <3>1, ReturnTypes, ReplyTypes DEF FindByCorrelation, TypeOK
  <2>2. CASE Goto(r, "find") /\ UNCHANGED <<draft, locked, remaining, result, tx, reply>>
    BY <1>2, <2>2 DEF FindByCorrelation, TypeOK, Goto, Pcs, DbPcs
  <2> QED
    BY <1>2, <2>1, <2>2 DEF FindByCorrelation
<1>3. ASSUME NEW r \in Requests, GetPayment(r) PROVE TypeOK'
  <2>1. ASSUME NEW err \in {"PaymentNotFound", "RefundNotAllowed",
                            "GatewayUnavailable"},
               ReturnError(r, err), UNCHANGED clock
        PROVE  TypeOK'
    BY <1>3, <2>1, ReturnTypes, ReplyTypes DEF ReturnError, GetPayment, TypeOK
  <2>2. CASE /\ clock' = clock + 1
             /\ draft' = [draft EXCEPT ![r] =
                  [status |-> "PENDING", payment |-> req[r].payment,
                   amount |-> req[r].amount,
                   correlation |-> nullString(req[r].correlation),
                   created |-> clock']]
             /\ Goto(r, "begin")
             /\ UNCHANGED <<locked, remaining, result, tx, reply>>
    <3>1. req[r] \in RequestType /\ clock' \in Nat
      BY <2>2 DEF TypeOK
    <3>2. nullString(req[r].correlation) \in Texts
      BY <3>1, TrimAssumption DEF RequestType, nullString
    <3>3. [status |-> "PENDING", payment |-> req[r].payment,
           amount |-> req[r].amount,
           correlation |-> nullString(req[r].correlation),
           created |-> clock'] \in RefundRow
      BY <3>1, <3>2 DEF RefundRow, RefundStatus, RequestType
    <3>4. draft' \in [Requests -> RefundRow]
      BY <2>2, <3>3 DEF TypeOK
    <3> QED
      BY <1>3, <2>2, <3>1, <3>4 DEF GetPayment, TypeOK, Goto, Pcs, DbPcs
  <2> QED
    BY <1>3, <2>1, <2>2 DEF GetPayment
<1>4. ASSUME NEW r \in Requests, Begin(r) PROVE TypeOK'
  BY <1>4 DEF Begin, TypeOK, Goto, Pcs, DbPcs, InTxPcs
<1>5. ASSUME NEW r \in Requests, GetPaymentForUpdate(r) PROVE TypeOK'
  <2>1. CASE ReturnError(r, "RefundNotAllowed")
    BY <1>5, <2>1, ReturnTypes, ReplyTypes
       DEF ReturnError, GetPaymentForUpdate, TypeOK
  <2>2. CASE /\ locked' = [locked EXCEPT ![r] = payments[req[r].payment]]
             /\ Goto(r, "total")
             /\ UNCHANGED <<draft, remaining, result, tx, reply>>
    <3>1. payments[req[r].payment] \in PaymentRow
      BY DEF TypeOK, RequestType
    <3>2. locked' \in [Requests -> PaymentRow]
      BY <2>2, <3>1 DEF TypeOK
    <3> QED
      BY <1>5, <2>2, <3>2
         DEF GetPaymentForUpdate, TypeOK, Goto, Pcs, DbPcs, InTxPcs, LockedPcs
  <2> QED
    BY <1>5, <2>1, <2>2 DEF GetPaymentForUpdate
<1>6. ASSUME NEW r \in Requests, CheckRemaining(r) PROVE TypeOK'
  <2> DEFINE left == locked[r].amount - GetTotalRefunded(req[r].payment)
  <2>1. CASE ReturnError(r, "RefundExceedsRemaining")
    BY <1>6, <2>1, ReturnTypes, ReplyTypes DEF ReturnError, CheckRemaining, TypeOK
  <2>2. CASE /\ req[r].amount <= left
             /\ remaining' = [remaining EXCEPT ![r] = left]
             /\ Goto(r, "create")
             /\ UNCHANGED <<draft, locked, result, tx, reply>>
    <3>1. locked[r].amount \in Int /\ req[r].amount \in Int
      BY DEF TypeOK, PaymentRow, RequestType
    <3>2. req[r].amount > 0
      BY <1>6 DEF CheckRemaining, RefundStepOK, InFlight
    <3>3. left \in Nat
      BY <2>2, <3>1, <3>2, TotalRefundedType
    <3>4. remaining' \in [Requests -> Nat]
      BY <2>2, <3>3 DEF TypeOK
    <3> QED
      BY <1>6, <2>2, <3>4
         DEF CheckRemaining, TypeOK, Goto, Pcs, DbPcs, InTxPcs, LockedPcs
  <2> QED
    BY <1>6, <2>1, <2>2 DEF CheckRemaining
<1>7. ASSUME NEW r \in Requests, CreateRefund(r) PROVE TypeOK'
  BY <1>7 DEF CreateRefund, TypeOK, Goto, Pcs, DbPcs, InTxPcs, LockedPcs
<1>8. ASSUME NEW r \in Requests, MarkRefundPending(r) PROVE TypeOK'
  <2>1. locked[r] \in PaymentRow /\ "REFUND_PENDING" \in PaymentStatus
    BY DEF TypeOK, PaymentStatus
  <2>2. locked' \in [Requests -> PaymentRow]
    BY <1>8, <2>1, PaymentStatusSet DEF MarkRefundPending, TypeOK
  <2> QED
    BY <1>8, <2>2 DEF MarkRefundPending, UpdatePayment, TypeOK, Goto, Pcs,
                      DbPcs, InTxPcs, LockedPcs
<1>9. ASSUME NEW r \in Requests, MarkProcessing(r) PROVE TypeOK'
  <2>1. draft[r] \in RefundRow /\ "PROCESSING" \in RefundStatus
    BY DEF TypeOK, RefundStatus
  <2>2. draft' \in [Requests -> RefundRow]
    BY <1>9, <2>1, RefundStatusSet DEF MarkProcessing, TypeOK
  <2> QED
    BY <1>9, <2>2 DEF MarkProcessing, UpdateRefund, TypeOK, Goto, Pcs
<1>10. ASSUME NEW r \in Requests, CallGateway(r) PROVE TypeOK'
  BY <1>10 DEF CallGateway, TypeOK, Goto, Pcs, DbPcs, InTxPcs, LockedPcs
<1>11. ASSUME NEW r \in Requests, CreateTransaction(r) PROVE TypeOK'
  <2>1. [refund |-> r, payment |-> req[r].payment, type |-> "REFUND",
         amount |-> req[r].amount, success |-> result[r] = "ok"] \in Transaction
    BY DEF Transaction, TypeOK, RequestType
  <2>2. txLog' \in [Requests -> SUBSET Transaction]
    BY <1>11, <2>1 DEF CreateTransaction, TypeOK
  <2> QED
    BY <1>11, <2>2 DEF CreateTransaction, TypeOK, Goto, Pcs, DbPcs, InTxPcs,
                       LockedPcs
<1>12. ASSUME NEW r \in Requests, SettlePayment(r) PROVE TypeOK'
  <2>1. /\ draft[r] \in RefundRow
        /\ (IF result[r] = "ok" THEN "COMPLETED" ELSE "FAILED") \in RefundStatus
        /\ locked[r] \in PaymentRow
        /\ SettledStatus(r) \in PaymentStatus
    BY DEF TypeOK, RefundStatus, PaymentStatus, SettledStatus
  <2>2. draft' \in [Requests -> RefundRow]
    BY <1>12, <2>1, RefundStatusSet DEF SettlePayment, TypeOK
  <2>3. locked' \in [Requests -> PaymentRow]
    BY <1>12, <2>1, PaymentStatusSet DEF SettlePayment, TypeOK
  <2> QED
    BY <1>12, <2>2, <2>3 DEF SettlePayment, UpdatePayment, TypeOK, Goto, Pcs,
                             DbPcs, InTxPcs, LockedPcs
<1>13. ASSUME NEW r \in Requests, SettleRefund(r) PROVE TypeOK'
  BY <1>13 DEF SettleRefund, UpdateRefund, TypeOK, Goto, Pcs, DbPcs, InTxPcs,
               LockedPcs
<1>14. ASSUME NEW r \in Requests, Committed(r), NEW code, NEW refund,
              [code |-> code, refund |-> refund] \in Reply,
              Return(r, code, refund),
              UNCHANGED <<gatewayRefunds, clock, req, seen>>
       PROVE TypeOK'
  <2>1. /\ payments' \in [Payments -> PaymentRow]
        /\ refunds' \in [Requests -> RefundRow]
        /\ transactions' \subseteq Transaction
    BY <1>14 DEF Committed, TypeOK
  <2> QED
    BY <1>14, <2>1, ReturnTypes DEF TypeOK
<1>15. ASSUME NEW r \in Requests, Commit(r) \/ CommitAnswerLost(r) PROVE TypeOK'
  BY <1>14, <1>15, ReplyTypes DEF Commit, CommitAnswerLost, ReturnError
<1>16. ASSUME NEW r \in Requests, StatementFails(r) PROVE TypeOK'
  BY <1>16, ReturnTypes, ReplyTypes DEF StatementFails, ReturnError, TypeOK
<1>17. CASE Crash
  <2>1. reply' \in [Requests -> Reply]
    BY <1>17, ReplyTypes DEF Crash, TypeOK
  <2> QED
    BY <1>17, <2>1 DEF Crash, TypeOK, Pcs
<1>18. CASE UNCHANGED vars
  BY <1>18 DEF vars, TypeOK
<1> QED
  BY <1>1, <1>2, <1>3, <1>4, <1>5, <1>6, <1>7, <1>8, <1>9, <1>10, <1>11,
     <1>12, <1>13, <1>15, <1>16, <1>17, <1>18
     DEF Next, Serve, Fault, Finished
-----------------------------------------------------------------------------
(* The inductive invariant *)

\* A step that touches neither s nor what s has read.
Untouched(s) ==
  /\ pc'[s] = pc[s] /\ req'[s] = req[s] /\ draft'[s] = draft[s]
  /\ locked'[s] = locked[s] /\ remaining'[s] = remaining[s]
  /\ result'[s] = result[s] /\ txPayment'[s] = txPayment[s]
  /\ txRefund'[s] = txRefund[s] /\ txLog'[s] = txLog[s]
  /\ refunds'[s] = refunds[s]
  /\ s \in gatewayRefunds' <=> s \in gatewayRefunds
  /\ pc[s] \in LockedPcs =>
       /\ payments'[req[s].payment] = payments[req[s].payment]
       /\ GetTotalRefunded(req[s].payment)' = GetTotalRefunded(req[s].payment)

\* An untouched request stays consistent.
LEMMA UntouchedStep ==
  ASSUME NEW s \in Requests, RefundStepOK(s), Untouched(s)
  PROVE  RefundStepOK(s)'
BY DEF RefundStepOK, Untouched, InFlight, SettledStatus, CalledPcs, LockedPcs, InTxPcs

\* Without a change of the refunds table the totals stay.
LEMMA TotalStays ==
  ASSUME UNCHANGED refunds
  PROVE  /\ \A p : CompletedRefunds(p)' = CompletedRefunds(p)
         /\ \A p : GetTotalRefunded(p)' = GetTotalRefunded(p)
BY DEF GetTotalRefunded, CompletedRefunds, Amounts, Rows

\* A return leaves its request consistent.
LEMMA ReturnStep ==
  ASSUME TypeOK, NEW r \in Requests, NEW code, NEW refund,
         Return(r, code, refund), UNCHANGED req
  PROVE  RefundStepOK(r)'
BY DEF RefundStepOK, Return, Goto, TypeOK, InFlight, CalledPcs, LockedPcs,
       InTxPcs

\* A return that commits nothing leaves every request consistent.
LEMMA RollbackStep ==
  ASSUME TypeOK, \A s \in Requests : RefundStepOK(s), NEW r \in Requests,
         NEW code, NEW refund, Return(r, code, refund),
         UNCHANGED <<payments, refunds, gatewayRefunds, req>>
  PROVE  \A s \in Requests : RefundStepOK(s)'
<1> SUFFICES ASSUME NEW s \in Requests, s # r PROVE RefundStepOK(s)'
  BY ReturnStep
<1>1. GetTotalRefunded(req[s].payment)' = GetTotalRefunded(req[s].payment)
  BY TotalStays
<1>2. Untouched(s)
  BY <1>1 DEF Untouched, Return, Goto, TypeOK
<1> QED
  BY <1>2, UntouchedStep

\* What COMMIT writes: the locked payment with its settled status, and the
\* settled refund in a row that did not exist.
LEMMA CommitRows ==
  ASSUME TypeOK, \A s \in Requests : RefundStepOK(s), NEW r \in Requests,
         pc[r] = "commit", Committed(r)
  PROVE  LET p == req[r].payment IN
         /\ p \in Payments /\ req[r].amount \in Nat \ {0}
         /\ refunds[r].status = "absent"
         /\ \A q \in Requests : q # r => refunds'[q] = refunds[q]
         /\ refunds'[r] \in RefundRow
         /\ refunds'[r].payment = p /\ refunds'[r].amount = req[r].amount
         /\ refunds'[r].status = IF result[r] = "ok" THEN "COMPLETED" ELSE "FAILED"
         /\ \A q \in Payments : q # p => payments'[q] = payments[q]
         /\ payments'[p].status = SettledStatus(r)
         /\ payments'[p].amount = payments[p].amount
         /\ Refundable(payments[p].status)
         /\ remaining[r] = payments[p].amount - GetTotalRefunded(p)
         /\ req[r].amount <= remaining[r]
         /\ DOMAIN payments' = Payments /\ DOMAIN refunds' = Requests
<1>1. req[r].payment \in Payments /\ req[r].amount \in Nat \ {0}
  <2>1. req[r].payment \in Payments /\ req[r].amount \in Int
    BY DEF TypeOK, RequestType
  <2>2. req[r].amount > 0
    BY DEF RefundStepOK, InFlight
  <2> QED
    BY <2>1, <2>2
<1>2. refunds[r].status = "absent" /\ txRefund[r] = draft[r] /\ txPayment[r] = locked[r]
  BY DEF RefundStepOK
<1>3. /\ draft[r].payment = req[r].payment /\ draft[r].amount = req[r].amount
      /\ draft[r].status = IF result[r] = "ok" THEN "COMPLETED" ELSE "FAILED"
      /\ locked[r].status = SettledStatus(r)
      /\ locked[r].amount = payments[req[r].payment].amount
      /\ Refundable(payments[req[r].payment].status)
      /\ remaining[r] = payments[req[r].payment].amount
                          - GetTotalRefunded(req[r].payment)
      /\ req[r].amount <= remaining[r]
  BY DEF RefundStepOK, LockedPcs, InTxPcs
<1>4. /\ refunds'[r] = draft[r] /\ refunds'[r] \in RefundRow
      /\ \A q \in Requests : q # r => refunds'[q] = refunds[q]
      /\ DOMAIN refunds' = Requests
  BY <1>2 DEF Committed, TypeOK
<1>5. /\ payments'[req[r].payment] = locked[r]
      /\ \A q \in Payments : q # req[r].payment => payments'[q] = payments[q]
      /\ DOMAIN payments' = Payments
  BY <1>1, <1>2 DEF Committed, TypeOK
<1> QED
  BY <1>1, <1>2, <1>3, <1>4, <1>5

\* How COMMIT changes what was refunded: a successful refund adds its amount to
\* its own payment, and nothing else changes.
LEMMA CommitTotals ==
  ASSUME TypeOK, \A s \in Requests : RefundStepOK(s), NEW r \in Requests,
         pc[r] = "commit", Committed(r), NEW p
  PROVE  /\ CompletedRefunds(p)' =
              IF p = req[r].payment /\ result[r] = "ok"
              THEN CompletedRefunds(p) \cup {r} ELSE CompletedRefunds(p)
         /\ GetTotalRefunded(p)' =
              IF p = req[r].payment /\ result[r] = "ok"
              THEN GetTotalRefunded(p) + req[r].amount ELSE GetTotalRefunded(p)
<1> DEFINE new == [q \in Requests |-> refunds'[q].amount]
           old == CompletedRefunds(p)
<1>1. /\ refunds[r].status = "absent"
      /\ \A q \in Requests : q # r => refunds'[q] = refunds[q]
      /\ refunds'[r].payment = req[r].payment
      /\ refunds'[r].amount = req[r].amount /\ req[r].amount \in Nat
      /\ refunds'[r].status = IF result[r] = "ok" THEN "COMPLETED" ELSE "FAILED"
      /\ DOMAIN refunds = Requests /\ DOMAIN refunds' = Requests
  BY CommitRows DEF TypeOK
<1>2. CompletedRefunds(p)' =
        IF p = req[r].payment /\ result[r] = "ok" THEN old \cup {r} ELSE old
  <2>1. \A q : q \in CompletedRefunds(p)' <=>
                 /\ q \in Requests
                 /\ refunds'[q].payment = p /\ refunds'[q].status = "COMPLETED"
    BY <1>1 DEF CompletedRefunds, Rows
  <2>2. \A q : q \in old <=>
                 /\ q \in Requests
                 /\ refunds[q].payment = p /\ refunds[q].status = "COMPLETED"
    BY <1>1 DEF CompletedRefunds, Rows
  <2>3. CASE p = req[r].payment /\ result[r] = "ok"
    <3>1. r \in CompletedRefunds(p)'
      BY <1>1, <2>1, <2>3
    <3>2. \A q : q # r => (q \in CompletedRefunds(p)' <=> q \in old)
      BY <1>1, <2>1, <2>2
    <3> HIDE DEF old
    <3> QED
      BY <2>3, <3>1, <3>2
  <2>4. CASE ~(p = req[r].payment /\ result[r] = "ok")
    <3>1. r \notin CompletedRefunds(p)' /\ r \notin old
      BY <1>1, <2>1, <2>2, <2>4
    <3>2. \A q : q # r => (q \in CompletedRefunds(p)' <=> q \in old)
      BY <1>1, <2>1, <2>2
    <3> HIDE DEF old
    <3> QED
      BY <2>4, <3>1, <3>2
  <2> QED
    BY <2>3, <2>4
<1>3. r \notin old /\ old \subseteq Requests
  BY <1>1 DEF CompletedRefunds, Rows
<1>4. IsFiniteSet(old)
  BY TotalRefundedType
<1>5. \A q \in old : new[q] = Amounts[q] /\ new[q] \in Int
  BY <1>1, <1>3 DEF Amounts, TypeOK, RefundRow
<1>6. new[r] = req[r].amount
  BY <1>1
<1>7. Total(old, new) = GetTotalRefunded(p)
  BY <1>5, TotalSame DEF GetTotalRefunded
<1>8. Total(old \cup {r}, new) = Total(old, new) + new[r]
  <2>1. new[r] \in Nat /\ r \notin old /\ \A q \in old : new[q] \in Int
    BY <1>1, <1>3, <1>5, <1>6
  <2> HIDE DEF old, new
  <2> QED
    BY <1>4, <2>1, TotalAdd
<1>9. GetTotalRefunded(p)' = Total(CompletedRefunds(p)', new)
  BY DEF GetTotalRefunded, Amounts
<1> QED
  BY <1>2, <1>6, <1>7, <1>8, <1>9

\* COMMIT leaves every request consistent: another holder of a row lock holds
\* another row.
LEMMA CommitStep ==
  ASSUME TypeOK, RefundStepsConsistent, NEW r \in Requests,
         pc[r] = "commit", Committed(r),
         NEW code, NEW refund, Return(r, code, refund),
         UNCHANGED <<gatewayRefunds, req>>
  PROVE  \A s \in Requests : RefundStepOK(s)'
<1> SUFFICES ASSUME NEW s \in Requests, s # r PROVE RefundStepOK(s)'
  BY ReturnStep
<1>1. \A q \in Requests : RefundStepOK(q)
  BY DEF RefundStepsConsistent
<1>2. refunds'[s] = refunds[s] /\ req'[s] = req[s] /\ req[s].payment \in Payments
  BY <1>1, CommitRows DEF TypeOK, RequestType
<1>3. ASSUME pc[s] \in LockedPcs
      PROVE  /\ payments'[req[s].payment] = payments[req[s].payment]
             /\ GetTotalRefunded(req[s].payment)' = GetTotalRefunded(req[s].payment)
  <2>1. req[s].payment # req[r].payment
    BY <1>3 DEF RefundStepsConsistent, RowExclusive, LockedPcs
  <2>2. payments'[req[s].payment] = payments[req[s].payment]
    BY <1>1, <1>2, <2>1, CommitRows
  <2>3. \A p : p # req[r].payment => GetTotalRefunded(p)' = GetTotalRefunded(p)
    BY <1>1, CommitTotals
  <2> QED
    BY <1>2, <2>1, <2>2, <2>3
<1>4. Untouched(s)
  BY <1>2, <1>3 DEF Untouched, Return, Goto, TypeOK
<1> QED
  BY <1>1, <1>4, UntouchedStep

\* It holds before the first request.
LEMMA StepInit == Init => RefundStepsConsistent
BY DEF Init, RefundStepsConsistent, RefundStepOK, RowExclusive, InFlight,
       NoRefund, CalledPcs, LockedPcs, InTxPcs

\* A request moves on: it neither returns from a lookup nor commits.
Advance(r) ==
  \/ Receive(r)
  \/ /\ FindByCorrelation(r) /\ Goto(r, "find")
     /\ UNCHANGED <<draft, locked, remaining, result, tx>>
  \/ GetPayment(r) /\ Goto(r, "begin")
  \/ Begin(r)
  \/ GetPaymentForUpdate(r) /\ Goto(r, "total")
  \/ CheckRemaining(r) /\ Goto(r, "create")
  \/ CreateRefund(r) \/ MarkRefundPending(r) \/ MarkProcessing(r)
  \/ CallGateway(r) \/ CreateTransaction(r) \/ SettlePayment(r)
  \/ SettleRefund(r)

\* It returns without committing.
Rollback(r) ==
  /\ \E code, refund : Return(r, code, refund)
  /\ UNCHANGED <<database, gatewayRefunds, req>>

\* It commits and returns, whether or not the client learns of it.
CommitReturn(r) ==
  /\ pc[r] = "commit" /\ Committed(r)
  /\ \E code, refund : Return(r, code, refund)
  /\ UNCHANGED <<gatewayRefunds, req>>

\* The steps of a request that neither return nor commit leave it consistent.
LEMMA OwnStep ==
  ASSUME TypeOK, NEW r \in Requests, RefundStepOK(r), Advance(r)
  PROVE  RefundStepOK(r)'
<1> USE DEF RefundStepOK, TypeOK, Goto, InFlight, CalledPcs, LockedPcs, InTxPcs,
            memory, tx, database
<1>1. CASE Receive(r)
  BY <1>1 DEF Receive, validateRefundRequest
<1>2. CASE Begin(r) \/ (Goto(r, "find") /\ FindByCorrelation(r)
                        /\ UNCHANGED <<draft, locked, remaining, result, tx>>)
  BY <1>2 DEF FindByCorrelation, Begin
<1>3. CASE GetPayment(r) /\ Goto(r, "begin")
  <2>1. draft'[r].payment = req[r].payment /\ draft'[r].amount = req[r].amount
    BY <1>3 DEF GetPayment, ReturnError, Return
  <2>2. /\ UNCHANGED <<payments, refunds, gatewayRefunds, req, txLog>>
    BY <1>3 DEF GetPayment, ReturnError, Return
  <2> QED
    BY <1>3, <2>1, <2>2 DEF GetPayment
<1> HIDE DEF RefundStepOK
<1>4. CASE GetPaymentForUpdate(r) /\ Goto(r, "total")
  <2>1. /\ Refundable(payments[req[r].payment].status)
        /\ locked' = [locked EXCEPT ![r] = payments[req[r].payment]]
        /\ UNCHANGED <<draft, result, tx>>
    BY <1>4 DEF GetPaymentForUpdate, ReturnError, Return
  <2> QED
    BY <1>4, <2>1 DEF GetPaymentForUpdate, RefundStepOK
<1>5. CASE CheckRemaining(r) /\ Goto(r, "create")
  <2>1. /\ remaining' = [remaining EXCEPT ![r] =
             locked[r].amount - GetTotalRefunded(req[r].payment)]
        /\ req[r].amount <= locked[r].amount - GetTotalRefunded(req[r].payment)
        /\ UNCHANGED <<draft, locked, result, tx>>
    BY <1>5 DEF CheckRemaining, ReturnError, Return
  <2>2. UNCHANGED <<payments, refunds, gatewayRefunds, req>>
    BY <1>5 DEF CheckRemaining
  <2>3. GetTotalRefunded(req[r].payment)' = GetTotalRefunded(req[r].payment)
    BY <2>2, TotalStays
  <2> QED
    BY <1>5, <2>1, <2>2, <2>3 DEF CheckRemaining, RefundStepOK
<1>6. ASSUME \/ CreateRefund(r) \/ MarkRefundPending(r) \/ MarkProcessing(r)
             \/ CallGateway(r) \/ CreateTransaction(r) \/ SettlePayment(r)
             \/ SettleRefund(r)
      PROVE  GetTotalRefunded(req[r].payment)' = GetTotalRefunded(req[r].payment)
  BY <1>6, TotalStays DEF CreateRefund, MarkRefundPending, MarkProcessing,
       CallGateway, CreateTransaction, SettlePayment, SettleRefund
<1>7. CASE CreateRefund(r)
  BY <1>6, <1>7 DEF CreateRefund, RefundStepOK
<1>8. CASE MarkRefundPending(r)
  <2>1. locked'[r].amount = locked[r].amount
    BY <1>8, PaymentStatusSet DEF MarkRefundPending, PaymentStatus
  <2> QED
    BY <1>6, <1>8, <2>1 DEF MarkRefundPending, UpdatePayment, RefundStepOK
<1>9. CASE MarkProcessing(r)
  <2>1. draft'[r].amount = draft[r].amount /\ draft'[r].payment = draft[r].payment
    BY <1>9, RefundStatusSet DEF MarkProcessing, RefundStatus
  <2> QED
    BY <1>6, <1>9, <2>1 DEF MarkProcessing, UpdateRefund, RefundStepOK
<1>10. CASE CallGateway(r)
  BY <1>6, <1>10 DEF CallGateway, RefundStepOK
<1>11. CASE CreateTransaction(r)
  BY <1>6, <1>11 DEF CreateTransaction, RefundStepOK
<1>12. CASE SettlePayment(r)
  <2>1. locked'[r].amount = locked[r].amount /\ locked'[r].status = SettledStatus(r)
    BY <1>12, PaymentStatusSet DEF SettlePayment, SettledStatus, PaymentStatus
  <2>2. /\ draft'[r].amount = draft[r].amount /\ draft'[r].payment = draft[r].payment
        /\ draft'[r].status = IF result[r] = "ok" THEN "COMPLETED" ELSE "FAILED"
    BY <1>12, RefundStatusSet DEF SettlePayment, RefundStatus
  <2>3. txPayment'[r] = locked'[r] /\ UNCHANGED txLog
    BY <1>12 DEF SettlePayment, UpdatePayment
  <2>4. SettledStatus(r)' = SettledStatus(r)
    BY <1>12, <2>1 DEF SettlePayment, SettledStatus
  <2> QED
    BY <1>6, <1>12, <2>1, <2>2, <2>3, <2>4 DEF SettlePayment, RefundStepOK
<1>13. CASE SettleRefund(r)
  BY <1>6, <1>13 DEF SettleRefund, UpdateRefund, RefundStepOK, SettledStatus
<1> QED
  BY <1>1, <1>2, <1>3, <1>4, <1>5, <1>7, <1>8, <1>9, <1>10, <1>11, <1>12, <1>13
     DEF Advance

\* Every step is one of these, a crash, or stuttering.
LEMMA NextCases ==
  ASSUME [Next]_vars
  PROVE  \/ \E r \in Requests : Advance(r) \/ Rollback(r) \/ CommitReturn(r)
         \/ Crash
         \/ UNCHANGED vars
<1>1. ASSUME NEW r \in Requests, FindByCorrelation(r)
      PROVE  Advance(r) \/ Rollback(r)
  BY <1>1 DEF FindByCorrelation, Advance, Rollback
<1>2. ASSUME NEW r \in Requests, GetPayment(r)
      PROVE  Advance(r) \/ Rollback(r)
  BY <1>2 DEF GetPayment, ReturnError, Advance, Rollback
<1>3. ASSUME NEW r \in Requests, GetPaymentForUpdate(r)
      PROVE  Advance(r) \/ Rollback(r)
  BY <1>3 DEF GetPaymentForUpdate, ReturnError, Advance, Rollback
<1>4. ASSUME NEW r \in Requests, CheckRemaining(r)
      PROVE  Advance(r) \/ Rollback(r)
  BY <1>4 DEF CheckRemaining, ReturnError, Advance, Rollback
<1>5. ASSUME NEW r \in Requests, StatementFails(r) PROVE Rollback(r)
  BY <1>5 DEF StatementFails, ReturnError, Rollback
<1>6. ASSUME NEW r \in Requests, Commit(r) \/ CommitAnswerLost(r)
      PROVE  CommitReturn(r)
  BY <1>6 DEF Commit, CommitAnswerLost, ReturnError, CommitReturn
<1>7. ASSUME Finished PROVE UNCHANGED vars
  BY <1>7 DEF Finished
<1> QED
  BY <1>1, <1>2, <1>3, <1>4, <1>5, <1>6, <1>7 DEF Next, Serve, Fault, Advance

\* Moving on writes no table; only the arrival sets the input, and only the
\* gateway call records money.
LEMMA AdvanceFrame ==
  ASSUME NEW r \in Requests, Advance(r)
  PROVE  /\ UNCHANGED <<payments, refunds, transactions>>
         /\ Receive(r) \/ UNCHANGED req
         /\ CallGateway(r) \/ UNCHANGED gatewayRefunds
BY DEF Advance, database, memory, tx, Receive, FindByCorrelation, GetPayment,
       Begin, GetPaymentForUpdate, CheckRemaining, CreateRefund,
       MarkRefundPending, MarkProcessing, CallGateway, CreateTransaction,
       SettlePayment, SettleRefund

\* It leaves the other requests untouched.
LEMMA AdvanceOthers ==
  ASSUME TypeOK, NEW r \in Requests, Advance(r), NEW s \in Requests, s # r
  PROVE  Untouched(s)
<1> USE DEF Goto, database, memory, tx
<1>1. req'[s] = req[s]
  <2>1. CASE Receive(r)
    <3>1. PICK q \in Inputs : req' = [req EXCEPT ![r] = q]
      BY <2>1 DEF Receive
    <3> QED
      BY <3>1 DEF TypeOK
  <2> QED
    BY <2>1, AdvanceFrame
<1>2. /\ UNCHANGED <<payments, refunds>>
      /\ GetTotalRefunded(req[s].payment)' = GetTotalRefunded(req[s].payment)
  BY <1>1, AdvanceFrame, TotalStays
<1>3. s \in gatewayRefunds' <=> s \in gatewayRefunds
  BY AdvanceFrame DEF CallGateway
<1>4. pc'[s] = pc[s]
  <2>1. PICK l : pc' = [pc EXCEPT ![r] = l]
    BY DEF Advance, Receive, Begin, CreateRefund, MarkRefundPending,
           MarkProcessing, CallGateway, CreateTransaction, SettlePayment,
           SettleRefund
  <2> QED
    BY <2>1 DEF TypeOK
<1>5. /\ draft'[s] = draft[s] /\ locked'[s] = locked[s]
      /\ remaining'[s] = remaining[s] /\ result'[s] = result[s]
  <2> USE DEF TypeOK
  <2>1. CASE GetPayment(r) /\ Goto(r, "begin")
    BY <2>1 DEF GetPayment, ReturnError, Return
  <2>2. CASE \/ GetPaymentForUpdate(r) /\ Goto(r, "total")
             \/ CheckRemaining(r) /\ Goto(r, "create")
    BY <2>2 DEF GetPaymentForUpdate, CheckRemaining, ReturnError, Return
  <2>3. CASE MarkRefundPending(r) \/ MarkProcessing(r) \/ CallGateway(r)
    BY <2>3 DEF MarkRefundPending, MarkProcessing, CallGateway
  <2>4. CASE SettlePayment(r)
    BY <2>4 DEF SettlePayment
  <2>5. CASE \/ Receive(r) \/ Begin(r) \/ CreateRefund(r)
             \/ CreateTransaction(r) \/ SettleRefund(r)
             \/ UNCHANGED <<draft, locked, remaining, result, tx>>
    BY <2>5 DEF Receive, Begin, CreateRefund, CreateTransaction, SettleRefund
  <2> QED
    BY <2>1, <2>2, <2>3, <2>4, <2>5 DEF Advance
<1>6. /\ txPayment'[s] = txPayment[s] /\ txRefund'[s] = txRefund[s]
      /\ txLog'[s] = txLog[s]
  <2> USE DEF TypeOK
  <2>1. CASE \/ GetPayment(r) /\ Goto(r, "begin")
             \/ GetPaymentForUpdate(r) /\ Goto(r, "total")
             \/ CheckRemaining(r) /\ Goto(r, "create")
    BY <2>1 DEF GetPayment, GetPaymentForUpdate, CheckRemaining, ReturnError,
         Return
  <2>2. CASE MarkRefundPending(r) \/ SettlePayment(r)
    BY <2>2 DEF MarkRefundPending, SettlePayment, UpdatePayment
  <2>3. CASE CreateRefund(r) \/ MarkProcessing(r) \/ SettleRefund(r)
    BY <2>3 DEF CreateRefund, MarkProcessing, SettleRefund, UpdateRefund
  <2>4. CASE \/ Receive(r) \/ Begin(r) \/ CallGateway(r) \/ CreateTransaction(r)
             \/ UNCHANGED <<draft, locked, remaining, result, tx>>
    BY <2>4 DEF Receive, Begin, CallGateway, CreateTransaction
  <2> QED
    BY <2>1, <2>2, <2>3, <2>4 DEF Advance
<1> QED
  BY <1>1, <1>2, <1>3, <1>4, <1>5, <1>6 DEF Untouched

\* Every step keeps every request consistent.
LEMMA StepNext ==
  ASSUME TypeOK, RefundStepsConsistent, [Next]_vars
  PROVE  \A s \in Requests : RefundStepOK(s)'
<1>0. \A s \in Requests : RefundStepOK(s)
  BY DEF RefundStepsConsistent
<1>1. ASSUME NEW r \in Requests, Advance(r), NEW s \in Requests
      PROVE  RefundStepOK(s)'
  BY <1>0, <1>1, OwnStep, AdvanceOthers, UntouchedStep
<1>2. ASSUME NEW r \in Requests, Rollback(r)
      PROVE  \A s \in Requests : RefundStepOK(s)'
  BY <1>0, <1>2, RollbackStep DEF Rollback, database
<1>3. ASSUME NEW r \in Requests, CommitReturn(r)
      PROVE  \A s \in Requests : RefundStepOK(s)'
  BY <1>3, CommitStep DEF CommitReturn
<1>4. ASSUME Crash, NEW s \in Requests PROVE RefundStepOK(s)'
  BY <1>0, <1>4 DEF Crash, database, InFlight, RefundStepOK, TypeOK, CalledPcs,
       LockedPcs, InTxPcs
<1>5. ASSUME UNCHANGED vars, NEW s \in Requests PROVE RefundStepOK(s)'
  <2>1. GetTotalRefunded(req[s].payment)' = GetTotalRefunded(req[s].payment)
    BY <1>5, TotalStays DEF vars
  <2>2. Untouched(s)
    BY <1>5, <2>1 DEF vars, Untouched
  <2> QED
    BY <1>0, <2>2, UntouchedStep
<1> QED
  BY <1>1, <1>2, <1>3, <1>4, <1>5, NextCases

\* A row has one holder: SELECT ... FOR UPDATE waits for the others.
LEMMA RowNext ==
  ASSUME TypeOK, RefundStepsConsistent, [Next]_vars
  PROVE  RowExclusive'
<1>1. ASSUME NEW r \in Requests, Advance(r) PROVE RowExclusive'
  <2>1. \A s \in Requests : s # r => pc'[s] = pc[s] /\ req'[s] = req[s]
    BY <1>1, AdvanceOthers DEF Untouched
  <2>2. ASSUME pc'[r] \in LockedPcs
        PROVE  /\ req'[r] = req[r]
               /\ \/ pc[r] \in LockedPcs
                  \/ ~RowLocked(req[r].payment)
    BY <1>1, <2>2 DEF Advance, Receive, FindByCorrelation, GetPayment, Begin,
         GetPaymentForUpdate, CheckRemaining, CreateRefund, MarkRefundPending,
         MarkProcessing, CallGateway, CreateTransaction, SettlePayment,
         SettleRefund, Goto, TypeOK, LockedPcs, memory
  <2> QED
    BY <2>1, <2>2 DEF RefundStepsConsistent, RowExclusive, RowLocked
<1>2. ASSUME NEW r \in Requests, Rollback(r) \/ CommitReturn(r)
      PROVE  RowExclusive'
  <2>1. pc' = [pc EXCEPT ![r] = "done"] /\ req' = req
    BY <1>2 DEF Rollback, CommitReturn, Return, Goto
  <2>2. \A s \in Requests : pc'[s] \in LockedPcs => pc[s] \in LockedPcs
    BY <2>1 DEF TypeOK, LockedPcs
  <2> QED
    BY <2>1, <2>2 DEF RefundStepsConsistent, RowExclusive
<1>3. CASE Crash
  BY <1>3 DEF Crash, RowExclusive, InFlight, LockedPcs
<1>4. CASE UNCHANGED vars
  BY <1>4 DEF vars, RefundStepsConsistent, RowExclusive
<1> QED
  BY <1>1, <1>2, <1>3, <1>4, NextCases

-----------------------------------------------------------------------------
(* The tables *)

\* Only a commit writes the tables.
LEMMA TablesNext ==
  ASSUME [Next]_vars
  PROVE  \/ UNCHANGED <<payments, refunds, transactions>>
         \/ \E r \in Requests : CommitReturn(r)
BY NextCases, AdvanceFrame DEF Rollback, Crash, vars, database

\* The sum of the refunds stays within the payment: what a commit adds was
\* checked against what remained when the row was locked, and nobody else added
\* to it since.
LEMMA TotalNext ==
  ASSUME TypeOK, RefundStepsConsistent, NoOverRefund, [Next]_vars
  PROVE  NoOverRefund'
<1>0. \A s \in Requests : RefundStepOK(s)
  BY DEF RefundStepsConsistent
<1>1. CASE UNCHANGED <<payments, refunds>>
  BY <1>1, TotalStays DEF NoOverRefund, Rows
<1>2. ASSUME NEW r \in Requests, CommitReturn(r), NEW p \in Rows(payments)'
      PROVE  GetTotalRefunded(p)' <= payments'[p].amount
  <2>1. pc[r] = "commit" /\ Committed(r)
    BY <1>2 DEF CommitReturn
  <2>2. p \in Payments /\ GetTotalRefunded(p) \in Nat
    BY <1>0, <2>1, CommitRows, TotalRefundedType DEF Rows
  <2>3. GetTotalRefunded(p)' =
          IF p = req[r].payment /\ result[r] = "ok"
          THEN GetTotalRefunded(p) + req[r].amount ELSE GetTotalRefunded(p)
    BY <1>0, <2>1, CommitTotals
  <2>4. CASE p = req[r].payment
    <3>1. /\ payments'[p].amount = payments[p].amount
          /\ Refundable(payments[p].status)
          /\ req[r].amount <= payments[p].amount - GetTotalRefunded(p)
          /\ req[r].amount \in Nat /\ payments[p].amount \in Int
      BY <1>0, <2>1, <2>2, <2>4, CommitRows DEF TypeOK, PaymentRow
    <3> QED
      BY <2>2, <2>3, <3>1
  <2>5. CASE p # req[r].payment
    <3>1. payments'[p] = payments[p]
      BY <1>0, <2>1, <2>2, <2>5, CommitRows
    <3>2. p \in Rows(payments)
      BY <1>2, <2>2, <3>1 DEF Rows, TypeOK
    <3> QED
      BY <2>3, <2>5, <3>1, <3>2 DEF NoOverRefund
  <2> QED
    BY <2>4, <2>5
<1> QED
  BY <1>1, <1>2, TablesNext DEF NoOverRefund

\* A refund step neither adds a payment nor removes one.
LEMMA PaymentsStay ==
  ASSUME TypeOK, RefundStepsConsistent, [Next]_vars
  PROVE  Rows(payments)' = Rows(payments)
<1>0. \A s \in Requests : RefundStepOK(s)
  BY DEF RefundStepsConsistent
<1>1. CASE UNCHANGED <<payments, refunds>>
  BY <1>1 DEF Rows
<1>2. ASSUME NEW r \in Requests, CommitReturn(r)
      PROVE  Rows(payments)' = Rows(payments)
  <2>1. pc[r] = "commit" /\ Committed(r)
    BY <1>2 DEF CommitReturn
  <2>2. /\ DOMAIN payments' = DOMAIN payments
        /\ \A q \in Payments : q # req[r].payment => payments'[q] = payments[q]
        /\ payments'[req[r].payment].status # "absent"
        /\ payments[req[r].payment].status # "absent"
        /\ DOMAIN payments = Payments
    BY <1>0, <2>1, CommitRows DEF Committed, TypeOK, Refundable, SettledStatus
  <2> QED
    BY <2>2 DEF Rows
<1> QED
  BY <1>1, <1>2, TablesNext

\* StatusMatchesRefunds, for one payment.
FailedRefunds(p) ==
  {q \in Rows(refunds) : refunds[q].payment = p /\ refunds[q].status = "FAILED"}

StatusMatches(p) ==
  /\ payments[p].status \in {"COMPLETED", "FAILED", "REFUNDED", "REFUND_FAILED"}
  /\ (payments[p].status = "REFUNDED")
       <=> (GetTotalRefunded(p) = payments[p].amount)
  /\ (payments[p].status = "REFUND_FAILED") <=> (FailedRefunds(p) # {})
  /\ \A q, s \in FailedRefunds(p) : q = s

\* The status of a payment keeps telling the state of its refunds.
LEMMA StatusStep ==
  ASSUME TypeOK, RefundStepsConsistent, [Next]_vars,
         NEW p \in Rows(payments), StatusMatches(p)
  PROVE  StatusMatches(p)'
<1>0. \A s \in Requests : RefundStepOK(s)
  BY DEF RefundStepsConsistent
<1> DEFINE Failed(x) == FailedRefunds(x)
           Told(x) == StatusMatches(x)
<1>3. CASE UNCHANGED <<payments, refunds>>
  <2>1. Failed(p)' = Failed(p)
    BY <1>3 DEF Rows, FailedRefunds
  <2> QED
    BY <1>3, <2>1, TotalStays DEF StatusMatches
<1>4. ASSUME NEW r \in Requests, CommitReturn(r)
      PROVE  Told(p)'
  <2>1. pc[r] = "commit" /\ Committed(r)
    BY <1>4 DEF CommitReturn
  <2>2. p \in Payments /\ GetTotalRefunded(p) \in Nat
    BY TotalRefundedType DEF Rows, TypeOK
  <2>3. /\ refunds[r].status = "absent" /\ DOMAIN refunds = Requests
        /\ \A q \in Requests : q # r => refunds'[q] = refunds[q]
        /\ refunds'[r].payment = req[r].payment /\ DOMAIN refunds' = Requests
        /\ refunds'[r].status = IF result[r] = "ok" THEN "COMPLETED" ELSE "FAILED"
    BY <1>0, <2>1, CommitRows DEF TypeOK
  <2>4. \A q : q \in Failed(p)' <=>
          IF q = r THEN p = req[r].payment /\ result[r] # "ok"
                   ELSE q \in Failed(p)
    <3>1. \A q : q \in Failed(p)' <=>
            /\ q \in Requests
            /\ refunds'[q].payment = p /\ refunds'[q].status = "FAILED"
      BY <2>3 DEF Rows, FailedRefunds
    <3>2. \A q : q \in Failed(p) <=>
            /\ q \in Requests
            /\ refunds[q].payment = p /\ refunds[q].status = "FAILED"
      BY <2>3 DEF Rows, FailedRefunds
    <3>3. r \in Failed(p)' <=> p = req[r].payment /\ result[r] # "ok"
      BY <2>3, <3>1
    <3>4. \A q : q # r => (q \in Failed(p)' <=> q \in Failed(p))
      BY <2>3, <3>1, <3>2
    <3> QED
      BY <3>3, <3>4
  <2>5. r \notin Failed(p)
    BY <2>3 DEF FailedRefunds
  <2>6. GetTotalRefunded(p)' =
          IF p = req[r].payment /\ result[r] = "ok"
          THEN GetTotalRefunded(p) + req[r].amount ELSE GetTotalRefunded(p)
    BY <1>0, <2>1, CommitTotals
  <2>7. CASE p = req[r].payment
    <3>1. /\ payments'[p].amount = payments[p].amount
          /\ payments'[p].status = SettledStatus(r)
          /\ Refundable(payments[p].status)
          /\ remaining[r] = payments[p].amount - GetTotalRefunded(p)
          /\ req[r].amount <= remaining[r]
          /\ req[r].amount \in Nat \ {0} /\ payments[p].amount \in Int
      BY <1>0, <2>1, <2>2, <2>7, CommitRows DEF TypeOK, PaymentRow
    <3>3. Failed(p) = {} /\ payments[p].status = "COMPLETED"
      BY <3>1 DEF Refundable, StatusMatches
    <3>4. CASE result[r] = "ok"
      <4>1. Failed(p)' = {}
        BY <2>4, <3>3, <3>4
      <4>2. /\ payments'[p].status \in {"COMPLETED", "REFUNDED"}
            /\ (payments'[p].status = "REFUNDED") <=> (req[r].amount = remaining[r])
        BY <3>1, <3>4, <2>2 DEF SettledStatus
      <4>3. (req[r].amount = remaining[r])
              <=> (GetTotalRefunded(p)' = payments'[p].amount)
        BY <2>2, <2>6, <2>7, <3>1, <3>4
      <4> QED
        BY <4>1, <4>2, <4>3 DEF StatusMatches
    <3>5. CASE result[r] # "ok"
      <4>1. Failed(p)' = {r}
        BY <2>4, <2>7, <3>3, <3>5
      <4>2. payments'[p].status = "REFUND_FAILED"
        BY <3>1, <3>5 DEF SettledStatus
      <4>3. GetTotalRefunded(p)' # payments'[p].amount
        BY <2>2, <2>6, <3>1, <3>5
      <4> QED
        BY <4>1, <4>2, <4>3 DEF StatusMatches
    <3> QED
      BY <3>4, <3>5
  <2>8. CASE p # req[r].payment
    <3>1. payments'[p] = payments[p]
      BY <1>0, <2>1, <2>2, <2>8, CommitRows
    <3>4. Failed(p)' = Failed(p)
      BY <2>4, <2>5, <2>8
    <3> QED
      BY <2>6, <2>8, <3>1, <3>4 DEF StatusMatches
  <2> QED
    BY <2>7, <2>8
<1> QED
  BY <1>3, <1>4, TablesNext

\* The statuses of all payments keep matching.
LEMMA StatusNext ==
  ASSUME TypeOK, RefundStepsConsistent, StatusMatchesRefunds, [Next]_vars
  PROVE  StatusMatchesRefunds'
<1>1. StatusMatchesRefunds <=> \A p \in Rows(payments) : StatusMatches(p)
  BY DEF StatusMatchesRefunds, StatusMatches, FailedRefunds
<1>2. StatusMatchesRefunds' <=> \A p \in Rows(payments)' : StatusMatches(p)'
  BY DEF StatusMatchesRefunds, StatusMatches, FailedRefunds
<1> QED
  BY <1>1, <1>2, PaymentsStay, StatusStep

\* Refunds stay settled and audited: the rows and the audit entry of a refund
\* are committed together, after the gateway answered.
LEMMA SettledNext ==
  ASSUME TypeOK, RefundStepsConsistent, RefundSettledAndAudited, [Next]_vars
  PROVE  RefundSettledAndAudited'
<1>0. \A s \in Requests : RefundStepOK(s)
  BY DEF RefundStepsConsistent
<1> DEFINE Log(q) == [refund |-> q, payment |-> refunds[q].payment,
                      type |-> "REFUND", amount |-> refunds[q].amount,
                      success |-> refunds[q].status = "COMPLETED"]
           Settled(q) ==
             /\ refunds[q].status = IF q \in gatewayRefunds THEN "COMPLETED"
                                                            ELSE "FAILED"
             /\ refunds[q].payment \in Rows(payments)
             /\ {t \in transactions : t.refund = q} = {Log(q)}
<1>1. CASE UNCHANGED <<payments, refunds, transactions>>
  <2>1. ASSUME NEW q \in Rows(refunds)
        PROVE  q \in gatewayRefunds' <=> q \in gatewayRefunds
    <3>1. q \in Requests /\ pc[q] = "done"
      BY <1>0 DEF Rows, TypeOK, RefundStepOK
    <3>2. ASSUME NEW r \in Requests, CallGateway(r)
          PROVE  q \in gatewayRefunds' <=> q \in gatewayRefunds
      BY <3>1, <3>2 DEF CallGateway
    <3> QED
      BY <3>2, NextCases, AdvanceFrame DEF Rollback, CommitReturn, Crash, vars
  <2> QED
    BY <1>1, <2>1 DEF RefundSettledAndAudited, Rows
<1>2. ASSUME NEW r \in Requests, CommitReturn(r) PROVE RefundSettledAndAudited'
  <2> DEFINE p == req[r].payment
             log == [refund |-> r, payment |-> p, type |-> "REFUND",
                     amount |-> req[r].amount, success |-> result[r] = "ok"]
  <2>1. pc[r] = "commit" /\ Committed(r) /\ UNCHANGED gatewayRefunds
    BY <1>2 DEF CommitReturn
  <2>2. /\ refunds[r].status = "absent" /\ DOMAIN refunds = Requests
        /\ \A q \in Requests : q # r => refunds'[q] = refunds[q]
        /\ refunds'[r].payment = p /\ refunds'[r].amount = req[r].amount
        /\ refunds'[r].status = IF result[r] = "ok" THEN "COMPLETED" ELSE "FAILED"
        /\ DOMAIN refunds' = Requests
    BY <1>0, <2>1, CommitRows DEF TypeOK
  <2>3. /\ transactions' = transactions \cup {log}
        /\ result[r] = IF r \in gatewayRefunds THEN "ok" ELSE "fail"
    BY <1>0, <2>1 DEF RefundStepOK, CalledPcs, Committed
  <2>4. Rows(payments) \subseteq Rows(payments)' /\ p \in Rows(payments)'
    <3>1. SettledStatus(r) # "absent"
      BY DEF SettledStatus
    <3> QED
      BY <1>0, <2>1, <3>1, CommitRows DEF Rows, TypeOK
  <2>5. r \in Rows(refunds)' /\ Rows(refunds)' = Rows(refunds) \cup {r}
    BY <2>2 DEF Rows
  <2>6. r \notin Rows(refunds) /\ \A t \in transactions : t.refund # r
    BY <2>2 DEF RefundSettledAndAudited, Rows
  <2>7. log.refund = r
    OBVIOUS
  <2>8. Settled(r)'
    <3>1. {t \in transactions' : t.refund = r} = {log}
      BY <2>3, <2>6, <2>7
    <3>2. (refunds'[r].status = "COMPLETED") = (result[r] = "ok")
      BY <2>2
    <3>3. Log(r)' = log
      BY <2>2, <3>2
    <3> QED
      BY <2>1, <2>2, <2>3, <2>4, <3>1, <3>3
  <2>9. ASSUME NEW q \in Rows(refunds)', q # r PROVE Settled(q)'
    <3>1. q \in Rows(refunds) /\ q \in Requests
      BY <2>5, <2>2, <2>9 DEF Rows
    <3>2. Settled(q) /\ refunds'[q] = refunds[q]
      BY <2>2, <2>9, <3>1 DEF RefundSettledAndAudited
    <3>3. {t \in transactions' : t.refund = q} = {t \in transactions : t.refund = q}
      BY <2>3, <2>7, <2>9
    <3> QED
      BY <2>1, <2>4, <3>2, <3>3
  <2>10. ASSUME NEW t \in transactions' PROVE t.refund \in Rows(refunds)'
    BY <2>3, <2>5, <2>7 DEF RefundSettledAndAudited
  <2> QED
    BY <2>8, <2>9, <2>10 DEF RefundSettledAndAudited
<1> QED
  BY <1>1, <1>2, TablesNext

\* A finished payment is left alone: the row is locked only while its payment
\* can be refunded.
LEMMA FinishedNext ==
  ASSUME TypeOK, RefundStepsConsistent, [Next]_vars, NEW p \in Payments
  PROVE  /\ payments[p].status \in {"REFUNDED", "REFUND_FAILED", "FAILED"}
              => payments'[p] = payments[p]
         /\ CompletedRefunds(p) \subseteq CompletedRefunds(p)'
<1>0. \A s \in Requests : RefundStepOK(s)
  BY DEF RefundStepsConsistent
<1>1. CASE UNCHANGED <<payments, refunds>>
  BY <1>1, TotalStays
<1>2. ASSUME NEW r \in Requests, CommitReturn(r)
      PROVE  /\ payments[p].status \in {"REFUNDED", "REFUND_FAILED", "FAILED"}
                  => payments'[p] = payments[p]
             /\ CompletedRefunds(p) \subseteq CompletedRefunds(p)'
  <2>1. pc[r] = "commit" /\ Committed(r)
    BY <1>2 DEF CommitReturn
  <2>2. CompletedRefunds(p) \subseteq CompletedRefunds(p)'
    BY <1>0, <2>1, CommitTotals
  <2>3. /\ p # req[r].payment => payments'[p] = payments[p]
        /\ Refundable(payments[req[r].payment].status)
    BY <1>0, <2>1, CommitRows
  <2> QED
    BY <2>2, <2>3 DEF Refundable
<1> QED
  BY <1>1, <1>2, TablesNext

-----------------------------------------------------------------------------
(* Theorems *)

IndInv ==
  /\ TypeOK /\ RefundStepsConsistent
  /\ NoOverRefund /\ StatusMatchesRefunds /\ RefundSettledAndAudited

\* The tables before the first refund.
LEMMA TablesInit ==
  ASSUME Init
  PROVE  NoOverRefund /\ StatusMatchesRefunds /\ RefundSettledAndAudited
<1>1. Rows(refunds) = {}
  BY DEF Init, Rows, NoRefund
<1>2. ASSUME NEW p PROVE GetTotalRefunded(p) = 0
  <2>1. CompletedRefunds(p) = {}
    BY <1>1 DEF CompletedRefunds
  <2> QED
    BY <2>1, TotalEmpty DEF GetTotalRefunded
<1>3. ASSUME NEW p \in Rows(payments)
      PROVE  payments[p].status \in {"COMPLETED", "FAILED"} /\ payments[p].amount > 0
  BY InitialAssumption, RefundAssumption DEF Init, Rows, NoRow
<1>4. \A p \in Rows(payments) : payments[p].amount \in Int
  BY TypeInit DEF TypeOK, Rows, PaymentRow
<1>5. NoOverRefund
  BY <1>2, <1>3, <1>4 DEF NoOverRefund
<1>6. StatusMatchesRefunds
  BY <1>1, <1>2, <1>3, <1>4 DEF StatusMatchesRefunds
<1>7. RefundSettledAndAudited
  BY <1>1 DEF Init, RefundSettledAndAudited
<1> QED
  BY <1>5, <1>6, <1>7

\* The inductive invariant holds in every reachable state.
THEOREM RefundInductive == Spec => []IndInv
<1>1. Init => IndInv
  BY TypeInit, StepInit, TablesInit DEF IndInv
<1>2. IndInv /\ [Next]_vars => IndInv'
  <2> SUFFICES ASSUME IndInv, [Next]_vars PROVE IndInv'
    OBVIOUS
  <2> USE DEF IndInv
  <2>1. TypeOK'
    BY TypeNext DEF RefundStepsConsistent
  <2>2. RefundStepsConsistent'
    BY StepNext, RowNext DEF RefundStepsConsistent
  <2>3. NoOverRefund' /\ StatusMatchesRefunds' /\ RefundSettledAndAudited'
    BY TotalNext, StatusNext, SettledNext
  <2> QED
    BY <2>1, <2>2, <2>3
<1> QED
  BY <1>1, <1>2, PTL DEF Spec

\* Type correctness of RefundService; in particular what remains to be refunded
\* of a payment never goes below zero.
THEOREM RefundTypeCorrect == Spec => []TypeOK
BY RefundInductive, PTL DEF IndInv

\* ProcessRefund under its row lock: one request at a time works on a payment,
\* and what it read under the lock is still true when it commits.
THEOREM RefundStepsConsistentHolds == Spec => []RefundStepsConsistent
BY RefundInductive, PTL DEF IndInv

\* However many refunds of a payment race, the COMPLETED ones never exceed it.
THEOREM NoOverRefundHolds == Spec => []NoOverRefund
BY RefundInductive, PTL DEF IndInv

\* The status of a payment tells the state of its refunds.
THEOREM StatusMatchesRefundsHolds == Spec => []StatusMatchesRefunds
BY RefundInductive, PTL DEF IndInv

\* No crash, failed statement or lost COMMIT answer leaves a refund half done or
\* without its audit row.
THEOREM RefundSettledAndAuditedHolds == Spec => []RefundSettledAndAudited
BY RefundInductive, PTL DEF IndInv

\* Finished payments are never reopened and refunds are never taken back.
THEOREM FinishedPaymentsStayHolds == Spec => FinishedPaymentsStay
<1> DEFINE Stay ==
      \A p \in Payments :
        /\ payments[p].status \in {"REFUNDED", "REFUND_FAILED", "FAILED"}
             => payments'[p] = payments[p]
        /\ CompletedRefunds(p) \subseteq CompletedRefunds(p)'
<1>1. IndInv /\ [Next]_vars => [Stay]_vars
  BY FinishedNext DEF IndInv
<1> QED
  BY <1>1, RefundInductive, PTL DEF Spec, FinishedPaymentsStay
-----------------------------------------------------------------------------
(* RefundService implements Ledger *)

\* What a request carries is what a client may send.
LEMMA InputsNext ==
  ASSUME TypeOK, req \in [Requests -> Inputs], [Next]_vars
  PROVE  req' \in [Requests -> Inputs]
<1>1. ASSUME NEW r \in Requests, Receive(r) PROVE req' \in [Requests -> Inputs]
  BY <1>1 DEF Receive
<1> QED
  BY <1>1, NextCases, AdvanceFrame DEF Rollback, CommitReturn, Crash, vars

\* The accounts before the first refund are those of settled payments.
LEMMA LedgerInit == Init => Book!Init
<1> SUFFICES ASSUME Init PROVE Book!Init
  OBVIOUS
<1>1. Rows(refunds) = {}
  BY DEF Init, Rows, NoRefund
<1>2. ASSUME NEW p PROVE GetTotalRefunded(p) = 0
  <2>1. CompletedRefunds(p) = {}
    BY <1>1 DEF CompletedRefunds
  <2> QED
    BY <2>1, TotalEmpty DEF GetTotalRefunded
<1>3. ASSUME NEW p \in Payments
      PROVE  \/ payments[p] = NoRow
             \/ payments[p].status \in {"COMPLETED", "FAILED"} /\ payments[p].amount > 0
  BY InitialAssumption DEF Init
<1>4. ASSUME NEW p \in Payments, payments[p] = NoRow
      PROVE  Account(p) = Book!NoAccount
  BY <1>2, <1>4 DEF Account, NoRow, Book!NoAccount
<1>5. \A p \in Payments : Account(p) = Book!Settled(payments[p].status, payments[p].amount)
  BY <1>2 DEF Account, Book!Settled
<1>6. \A p \in Payments : Account(p).amount = payments[p].amount
  BY DEF Account
<1> QED
  BY <1>3, <1>4, <1>5, <1>6 DEF Book!Init, Book!PaidOrFailed

\* A step of a refund is nothing for the ledger unless it commits; then it is a
\* refund of an amount that was left, or the failure after which nothing more is
\* refunded.
LEMMA LedgerCommit ==
  ASSUME TypeOK, RefundStepsConsistent, req \in [Requests -> Inputs],
         \A p \in Payments : payments[p].status # "REFUND_PENDING",
         NEW r \in Requests, CommitReturn(r)
  PROVE  Book!Next
<1>0. \A s \in Requests : RefundStepOK(s)
  BY DEF RefundStepsConsistent
<1> QED
  <2> DEFINE book == [q \in Payments |-> Account(q)]
  <2>0. PICK p, amount, left :
          /\ p = req[r].payment /\ amount = req[r].amount
          /\ left = payments[p].amount - GetTotalRefunded(p)
    OBVIOUS
  <2>1. pc[r] = "commit" /\ Committed(r)
    BY DEF CommitReturn
  <2>2. /\ p \in Payments /\ amount \in Nat \ {0}
        /\ \A q \in Payments : q # p => payments'[q] = payments[q]
        /\ payments'[p].status = SettledStatus(r)
        /\ payments'[p].amount = payments[p].amount
        /\ Refundable(payments[p].status)
    BY <1>0, <2>1, <2>0, CommitRows
  <2>3. /\ remaining[r] = left /\ amount <= left
        /\ left \in Int /\ GetTotalRefunded(p) \in Nat /\ payments[p].amount \in Int
    BY <1>0, <2>1, <2>2, <2>0, TotalRefundedType
       DEF RefundStepOK, LockedPcs, TypeOK, PaymentRow
  <2>4. payments[p].status = "COMPLETED"
    BY <2>2 DEF Refundable
  <2>5. \A q : GetTotalRefunded(q)' =
                 IF q = p /\ result[r] = "ok"
                 THEN GetTotalRefunded(q) + amount ELSE GetTotalRefunded(q)
    BY <1>0, <2>1, <2>0, CommitTotals
  <2>6. \A q \in Payments : q # p => Account(q)' = Account(q)
    BY <2>2, <2>5 DEF Account
  <2>7. /\ book[p].status = "COMPLETED"
        /\ book[p].amount = payments[p].amount
        /\ book[p].refunded = GetTotalRefunded(p)
    BY <2>2, <2>4 DEF Account
  <2>8. CASE result[r] = "ok"
    <3>1. SettledStatus(r) = IF amount = left THEN "REFUNDED" ELSE "COMPLETED"
      BY <2>2, <2>3, <2>8, <2>0 DEF SettledStatus
    <3>2. Account(p)' = [status |-> IF amount = left THEN "REFUNDED" ELSE "COMPLETED",
                         amount |-> payments[p].amount,
                         refunded |-> GetTotalRefunded(p) + amount]
      BY <2>2, <2>5, <2>8, <3>1 DEF Account
    <3>3. book' = [book EXCEPT ![p] =
            [status |-> IF amount = left THEN "REFUNDED" ELSE "COMPLETED",
             amount |-> book[p].amount, refunded |-> book[p].refunded + amount]]
      BY <2>2, <2>6, <2>7, <3>2
    <3>4. Book!Left(p) = left
      BY <2>7, <2>0 DEF Book!Left
    <3>5. Book!Refund(p, amount)
      BY <2>2, <2>3, <2>7, <3>3, <3>4 DEF Book!Refund
    <3>6. amount \in {q.amount : q \in Inputs}
      BY <2>0
    <3> QED
      BY <2>2, <3>5, <3>6 DEF Book!Next
  <2>9. CASE result[r] # "ok"
    <3>1. Account(p)' = [status |-> "REFUND_FAILED", amount |-> payments[p].amount,
                         refunded |-> GetTotalRefunded(p)]
      BY <2>2, <2>5, <2>9 DEF Account, SettledStatus
    <3>2. book' = [book EXCEPT ![p] =
            [status |-> "REFUND_FAILED", amount |-> book[p].amount,
             refunded |-> book[p].refunded]]
      BY <2>2, <2>6, <2>7, <3>1
    <3>3. Book!RefundFails(p)
      BY <2>7, <3>2 DEF Book!RefundFails
    <3> QED
      BY <2>2, <3>3 DEF Book!Next
  <2> QED
    BY <2>8, <2>9

\* Every step of the refunds is a step of the ledger or nothing.
LEMMA LedgerNext ==
  ASSUME IndInv, req \in [Requests -> Inputs], [Next]_vars
  PROVE  [Book!Next]_([p \in Payments |-> Account(p)])
<1>1. CASE UNCHANGED <<payments, refunds, transactions>>
  BY <1>1, TotalStays DEF Account
<1>2. \A p \in Payments : payments[p].status # "REFUND_PENDING"
  BY DEF IndInv, StatusMatchesRefunds, TypeOK, Rows
<1> QED
  BY <1>1, <1>2, TablesNext, LedgerCommit DEF IndInv

\* For any number of racing refunds, failing statements, lost answers and
\* crashes, a reader of the tables sees nothing but whole refunds within what was
\* left, and failures after which nothing more is refunded.
THEOREM RefundsImplementLedger == Spec => ImplementsLedger
<1>1. Init => req \in [Requests -> Inputs]
  BY RefundAssumption DEF Init
<1>2. IndInv /\ req \in [Requests -> Inputs] /\ [Next]_vars
        => (req \in [Requests -> Inputs])'
  BY InputsNext DEF IndInv
<1>3. IndInv /\ req \in [Requests -> Inputs] /\ [Next]_vars
        => [Book!Next]_([p \in Payments |-> Account(p)])
  BY LedgerNext
<1> QED
  BY <1>1, <1>2, <1>3, LedgerInit, RefundInductive, PTL
     DEF Spec, ImplementsLedger, Book!Spec
-----------------------------------------------------------------------------
(* What the clients are told *)

\* Some refund with the correlation id of r is committed.
HasOriginal(r) == GetRefundByCorrelationID(req[r].correlation) # {}

\* What the response of r says of the refunds that were committed and of the
\* money that moved for r, and what is known of a duplicate.
ReplyOK(r) ==
  /\ pc[r] # "done" => reply[r].code = "none"
  /\ pc[r] = "correlation" => req[r].correlation # Blank
  /\ reply[r].code = "200" =>
       /\ reply[r].refund \in Rows(refunds)
       /\ \/ reply[r].refund = r
          \/ /\ req[r].correlation # Blank
             /\ refunds[reply[r].refund].correlation = req[r].correlation
  /\ r \in gatewayRefunds /\ pc[r] = "done" /\ r \notin Rows(refunds) =>
       reply[r].code \in {"500", "dropped"}
  /\ seen[r] =>
       /\ pc[r] \in {"correlation", "done"}
       /\ r \notin gatewayRefunds
       /\ HasOriginal(r)

\* A committed refund is never written again.
LEMMA RefundsStay ==
  ASSUME IndInv, [Next]_vars, NEW q \in Rows(refunds)
  PROVE  q \in Rows(refunds)' /\ refunds'[q] = refunds[q]
<1> USE DEF IndInv, RefundStepsConsistent
<1>1. CASE UNCHANGED refunds
  BY <1>1 DEF Rows
<1>2. ASSUME NEW r \in Requests, CommitReturn(r)
      PROVE  q \in Rows(refunds)' /\ refunds'[q] = refunds[q]
  <2>1. q # r /\ refunds' = [refunds EXCEPT ![r] = txRefund[r]]
    BY <1>2 DEF CommitReturn, Committed, Rows, RefundStepOK, TypeOK
  <2> QED
    BY <2>1 DEF Rows, TypeOK
<1> QED
  BY <1>1, <1>2, TablesNext

\* A correlation id that has a latest refund keeps having one: a new refund is
\* later than that one or it is not.
LEMMA CorrelationStays ==
  ASSUME IndInv, [Next]_vars, NEW c, GetRefundByCorrelationID(c) # {}
  PROVE  GetRefundByCorrelationID(c)' # {}
<1> USE DEF IndInv, RefundStepsConsistent
<1>1. CASE UNCHANGED refunds
  BY <1>1 DEF GetRefundByCorrelationID, Rows
<1>2. ASSUME NEW r \in Requests, CommitReturn(r)
      PROVE  GetRefundByCorrelationID(c)' # {}
  <2>1. PICK q \in Rows(refunds) :
          /\ refunds[q].correlation = c
          /\ \A s \in Rows(refunds) : refunds[s].correlation = c =>
               refunds[s].created <= refunds[q].created
    BY DEF GetRefundByCorrelationID
  <2>2. q \in Rows(refunds)' /\ refunds'[q] = refunds[q]
    BY <2>1, RefundsStay
  <2>3. \A s \in Rows(refunds)' : s # r => s \in Rows(refunds)
                                         /\ refunds'[s] = refunds[s]
    BY <1>2 DEF CommitReturn, Committed, Rows, TypeOK
  <2>4. \A s \in Rows(refunds)' : refunds'[s].created \in Int
    BY TypeNext DEF TypeOK, RefundRow, Rows
  <2>5. CASE /\ r \in Rows(refunds)' /\ refunds'[r].correlation = c
             /\ refunds'[r].created > refunds'[q].created
    <3>1. \A s \in Rows(refunds)' : refunds'[s].correlation = c =>
            refunds'[s].created <= refunds'[r].created
      BY <2>1, <2>2, <2>3, <2>4, <2>5
    <3>2. r \in GetRefundByCorrelationID(c)'
      BY <2>5, <3>1 DEF GetRefundByCorrelationID
    <3> QED
      BY <3>2
  <2>6. CASE ~(/\ r \in Rows(refunds)' /\ refunds'[r].correlation = c
               /\ refunds'[r].created > refunds'[q].created)
    <3>1. \A s \in Rows(refunds)' : refunds'[s].correlation = c =>
            refunds'[s].created <= refunds'[q].created
      BY <2>1, <2>2, <2>3, <2>4, <2>6
    <3>2. q \in GetRefundByCorrelationID(c)'
      BY <2>1, <2>2, <3>1 DEF GetRefundByCorrelationID
    <3> QED
      BY <3>2
  <2> QED
    BY <2>5, <2>6
<1> QED
  BY <1>1, <1>2, TablesNext

\* So a duplicate whose original is committed keeps having one.
LEMMA OriginalStays ==
  ASSUME IndInv, [Next]_vars, NEW s \in Requests, req'[s] = req[s], HasOriginal(s)
  PROVE  HasOriginal(s)'
<1>1. PICK c : c = req[s].correlation
  OBVIOUS
<1>2. GetRefundByCorrelationID(c)' # {}
  BY <1>1, CorrelationStays DEF HasOriginal
<1> QED
  BY <1>1, <1>2 DEF HasOriginal, GetRefundByCorrelationID, Rows

\* A step of one request changes neither the response nor the history of another.
LEMMA ReplyFrame ==
  ASSUME TypeOK, NEW r \in Requests, Receive(r) \/ Serve(r) \/ Fault(r),
         NEW s \in Requests, s # r
  PROVE  UNCHANGED <<pc[s], req[s], reply[s], seen[s]>>
         /\ (s \in gatewayRefunds' <=> s \in gatewayRefunds)
<1> USE DEF database, memory, tx, Goto
<1>1. ASSUME NEW code, NEW q, Return(r, code, q)
      PROVE  UNCHANGED <<pc[s], reply[s]>>
  BY <1>1 DEF Return, TypeOK
<1>2. CASE Receive(r)
  <2>1. /\ \E q : req' = [req EXCEPT ![r] = q]
        /\ \E y : seen' = [seen EXCEPT ![r] = y]
        /\ \E l : pc' = [pc EXCEPT ![r] = l]
        /\ UNCHANGED reply \/ \E x : reply' = [reply EXCEPT ![r] = x]
        /\ UNCHANGED gatewayRefunds
    BY <1>2 DEF Receive
  <2> QED
    BY <2>1 DEF TypeOK
<1>3. CASE CallGateway(r)
  BY <1>3 DEF CallGateway, TypeOK
<1>4. CASE (Serve(r) \/ Fault(r)) /\ ~CallGateway(r)
  <2>1. UNCHANGED <<req, seen, gatewayRefunds>>
    BY <1>4 DEF Serve, Fault, FindByCorrelation, GetPayment, Begin,
         GetPaymentForUpdate, CheckRemaining, CreateRefund, MarkRefundPending,
         MarkProcessing, CreateTransaction, SettlePayment, SettleRefund, Commit,
         StatementFails, CommitAnswerLost
  <2>2. \/ \E code, q : Return(r, code, q)
        \/ (\E l : pc' = [pc EXCEPT ![r] = l]) /\ UNCHANGED reply
    BY <1>4 DEF Serve, Fault, FindByCorrelation, GetPayment, Begin,
         GetPaymentForUpdate, CheckRemaining, CreateRefund, MarkRefundPending,
         MarkProcessing, CreateTransaction, SettlePayment, SettleRefund, Commit,
         StatementFails, CommitAnswerLost, ReturnError
  <2> QED
    BY <1>1, <2>1, <2>2 DEF TypeOK
<1> QED
  BY <1>2, <1>3, <1>4 DEF Serve

\* Responses stay sound, lost refunds reported and known duplicates stopped.
LEMMA ReplyNext ==
  ASSUME IndInv, \A r \in Requests : ReplyOK(r), [Next]_vars
  PROVE  \A r \in Requests : ReplyOK(r)'
<1> USE DEF IndInv, RefundStepsConsistent
<1> SUFFICES ASSUME NEW s \in Requests PROVE ReplyOK(s)'
  OBVIOUS
<1>0. ReplyOK(s) /\ RefundStepOK(s)
  OBVIOUS
<1>1. ASSUME UNCHANGED <<req[s], reply[s], seen[s]>>,
             s \in gatewayRefunds' => s \in gatewayRefunds \/ pc'[s] # "done",
             seen[s] => s \notin gatewayRefunds',
             \/ pc'[s] = pc[s]
             \/ pc[s] # "done" /\ pc'[s] \notin {"done", "correlation"} /\ ~seen[s]
      PROVE  ReplyOK(s)'
  <2>1. \A q \in Rows(refunds) : q \in Rows(refunds)' /\ refunds'[q] = refunds[q]
    BY RefundsStay
  <2>2. seen'[s] => HasOriginal(s)'
    BY <1>0, <1>1, OriginalStays DEF ReplyOK
  <2> QED
    BY <1>0, <1>1, <2>1, <2>2 DEF ReplyOK, Rows, TypeOK
<1>2. ASSUME UNCHANGED <<pc[s], req[s], reply[s], seen[s]>>,
             s \in gatewayRefunds' <=> s \in gatewayRefunds
      PROVE  ReplyOK(s)'
  BY <1>0, <1>1, <1>2 DEF ReplyOK
<1>3. ASSUME NEW code \in {"400", "404", "500", "dropped"}, pc'[s] = "done",
             reply'[s] = [code |-> code, refund |-> None],
             UNCHANGED <<gatewayRefunds, req, seen>>,
             code \in {"400", "404"} => s \notin gatewayRefunds
      PROVE  ReplyOK(s)'
  <2>1. seen'[s] => HasOriginal(s)'
    BY <1>0, <1>3, OriginalStays DEF ReplyOK
  <2>2. reply'[s].code = code
    BY <1>3
  <2> QED
    BY <1>0, <1>3, <2>1, <2>2 DEF ReplyOK
<1>4. ASSUME NEW code, NEW q, Return(s, code, q)
      PROVE  pc'[s] = "done" /\ reply'[s] = [code |-> code, refund |-> q]
  BY <1>4 DEF Return, Goto, TypeOK
<1>5. CASE Receive(s)
  <2>1. PICK q \in Inputs :
          /\ req' = [req EXCEPT ![s] = q]
          /\ seen' = [seen EXCEPT ![s] =
               q.correlation # Blank /\ GetRefundByCorrelationID(q.correlation) # {}]
          /\ \/ /\ pc' = [pc EXCEPT ![s] = "done"]
                /\ reply' = [reply EXCEPT ![s] =
                     [code |-> APIErrorFromErr("InvalidRequest"), refund |-> None]]
             \/ /\ pc' = [pc EXCEPT ![s] = IF q.correlation = Blank THEN "find"
                                                                    ELSE "correlation"]
                /\ reply' = reply
    BY <1>5 DEF Receive, Goto
  <2>2. pc[s] = "idle" /\ UNCHANGED <<refunds, gatewayRefunds>>
    BY <1>5 DEF Receive, database
  <2>3. s \notin gatewayRefunds /\ reply[s].code = "none"
    BY <1>0, <2>2 DEF RefundStepOK, CalledPcs, ReplyOK
  <2>4. reply'[s].code \in {"none", "400"}
    BY <2>1, <2>3 DEF TypeOK, APIErrorFromErr
  <2>5. /\ req'[s] = q
        /\ seen'[s] <=> /\ q.correlation # Blank
                        /\ GetRefundByCorrelationID(q.correlation) # {}
    BY <2>1 DEF TypeOK
  <2>6. /\ pc'[s] \in {"done", "find", "correlation"}
        /\ pc'[s] = "find" => q.correlation = Blank
        /\ pc'[s] = "correlation" => q.correlation # Blank
        /\ pc'[s] # "done" => reply' = reply
    BY <2>1 DEF TypeOK
  <2>7. GetRefundByCorrelationID(q.correlation)' = GetRefundByCorrelationID(q.correlation)
    BY <2>2 DEF GetRefundByCorrelationID, Rows
  <2>8. seen'[s] => HasOriginal(s)'
    BY <2>5, <2>7 DEF HasOriginal, GetRefundByCorrelationID, Rows
  <2> QED
    BY <2>2, <2>3, <2>4, <2>5, <2>6, <2>8 DEF ReplyOK
<1>6. CASE FindByCorrelation(s)
  <2>1. /\ pc[s] = "correlation"
        /\ UNCHANGED <<refunds, gatewayRefunds, req, seen>>
    BY <1>6 DEF FindByCorrelation, database
  <2>2. req[s].correlation # Blank /\ s \notin gatewayRefunds
    BY <1>0, <2>1 DEF ReplyOK, RefundStepOK, CalledPcs
  <2>3. ASSUME NEW q \in GetRefundByCorrelationID(req[s].correlation),
               Return(s, "200", q)
        PROVE  ReplyOK(s)'
    <3>1. /\ pc'[s] = "done"
          /\ reply'[s] = [code |-> "200", refund |-> q]
      BY <1>4, <2>3
    <3>2. reply'[s].refund = q /\ reply'[s].code = "200"
      BY <3>1
    <3>3. q \in Rows(refunds)' /\ refunds'[q].correlation = req[s].correlation
      BY <2>1, <2>3 DEF GetRefundByCorrelationID, Rows
    <3>4. HasOriginal(s)'
      BY <2>1, <2>3 DEF HasOriginal, GetRefundByCorrelationID, Rows
    <3> QED
      BY <2>1, <2>2, <3>1, <3>2, <3>3, <3>4 DEF ReplyOK
  <2>4. ASSUME GetRefundByCorrelationID(req[s].correlation) = {},
               pc' = [pc EXCEPT ![s] = "find"], UNCHANGED reply
        PROVE  ReplyOK(s)'
    <3>1. ~seen[s] /\ pc'[s] = "find"
      BY <1>0, <2>4 DEF ReplyOK, HasOriginal, TypeOK
    <3> QED
      BY <1>1, <2>1, <2>4, <3>1
  <2> QED
    BY <1>6, <2>3, <2>4 DEF FindByCorrelation, Goto
<1>7. ASSUME NEW err \in {"PaymentNotFound", "RefundNotAllowed",
                          "GatewayUnavailable", "RefundExceedsRemaining", "Other"},
             ReturnError(s, err), err # "Other" => pc[s] \in {"find", "lock", "total"},
             UNCHANGED <<gatewayRefunds, req, seen>>
      PROVE  ReplyOK(s)'
  <2>1. /\ pc'[s] = "done"
        /\ reply'[s] = [code |-> APIErrorFromErr(err), refund |-> None]
    BY <1>4, <1>7 DEF ReturnError
  <2>2. /\ APIErrorFromErr(err) \in {"400", "404", "500"}
        /\ err = "Other" => APIErrorFromErr(err) = "500"
    BY DEF APIErrorFromErr
  <2>3. err # "Other" => s \notin gatewayRefunds
    BY <1>0, <1>7 DEF RefundStepOK, CalledPcs
  <2> QED
    BY <1>3, <1>7, <2>1, <2>2, <2>3
<1>8. ASSUME pc[s] \notin {"done", "correlation", "idle"},
             \E l \in Pcs \ {"done", "correlation"} : pc' = [pc EXCEPT ![s] = l],
             UNCHANGED <<req, reply, seen>>
      PROVE  ReplyOK(s)'
  <2>1. pc'[s] \notin {"done", "correlation"} /\ ~seen[s]
    BY <1>0, <1>8 DEF ReplyOK, TypeOK
  <2> QED
    BY <1>1, <1>8, <2>1
<1>9. CASE GetPayment(s)
  <2>1. pc[s] = "find" /\ UNCHANGED <<gatewayRefunds, req, seen>>
    BY <1>9 DEF GetPayment
  <2>2. \/ \E err \in {"PaymentNotFound", "RefundNotAllowed", "GatewayUnavailable"} :
             ReturnError(s, err)
        \/ pc' = [pc EXCEPT ![s] = "begin"] /\ UNCHANGED reply
    BY <1>9 DEF GetPayment, Goto
  <2> QED
    BY <1>7, <1>8, <2>1, <2>2 DEF Pcs, DbPcs
<1>10. CASE GetPaymentForUpdate(s) \/ CheckRemaining(s)
  <2>1. pc[s] \in {"lock", "total"} /\ UNCHANGED <<gatewayRefunds, req, seen>>
    BY <1>10 DEF GetPaymentForUpdate, CheckRemaining
  <2>2. \/ \E err \in {"RefundNotAllowed", "RefundExceedsRemaining"} :
             ReturnError(s, err)
        \/ pc' = [pc EXCEPT ![s] = "total"] /\ UNCHANGED reply
        \/ pc' = [pc EXCEPT ![s] = "create"] /\ UNCHANGED reply
    BY <1>10 DEF GetPaymentForUpdate, CheckRemaining, Goto
  <2> QED
    BY <1>7, <1>8, <2>1, <2>2 DEF Pcs, DbPcs, InTxPcs, LockedPcs
<1>11. CASE \/ Begin(s) \/ CreateRefund(s) \/ MarkRefundPending(s)
            \/ MarkProcessing(s) \/ CallGateway(s) \/ CreateTransaction(s)
            \/ SettlePayment(s) \/ SettleRefund(s)
  <2>1. /\ pc[s] \notin {"done", "correlation", "idle"}
        /\ UNCHANGED <<req, reply, seen>>
        /\ \E l \in {"lock", "pending", "processing", "gateway", "audit", "settle",
                     "settled", "commit"} : pc' = [pc EXCEPT ![s] = l]
    BY <1>11 DEF Begin, CreateRefund, MarkRefundPending, MarkProcessing,
         CallGateway, CreateTransaction, SettlePayment, SettleRefund, Goto, memory
  <2> QED
    BY <1>8, <2>1 DEF Pcs, DbPcs, InTxPcs, LockedPcs
<1>12. CASE StatementFails(s)
  BY <1>7, <1>12 DEF StatementFails
<1>13. CASE CommitAnswerLost(s)
  BY <1>7, <1>13 DEF CommitAnswerLost
<1>14. CASE Commit(s)
  <2>1. /\ pc[s] = "commit" /\ Return(s, "200", s)
        /\ refunds' = [refunds EXCEPT ![s] = txRefund[s]]
        /\ UNCHANGED <<gatewayRefunds, req, seen>>
    BY <1>14 DEF Commit, Committed
  <2>2. ~seen[s] /\ refunds'[s].status # "absent"
    BY <1>0, <2>1 DEF ReplyOK, RefundStepOK, TypeOK
  <2>3. s \in Rows(refunds)'
    BY <2>1, <2>2 DEF Rows, TypeOK
  <2>4. pc'[s] = "done" /\ reply'[s] = [code |-> "200", refund |-> s]
    BY <1>4, <2>1
  <2>5. reply'[s].refund = s /\ reply'[s].code = "200"
    BY <2>4
  <2> QED
    BY <2>1, <2>2, <2>3, <2>4, <2>5 DEF ReplyOK
<1>15. CASE Crash
  <2>1. CASE s \in InFlight
    BY <1>3, <1>15, <2>1 DEF Crash
  <2>2. CASE s \notin InFlight
    BY <1>2, <1>15, <2>2 DEF Crash
  <2> QED
    BY <2>1, <2>2
<1>16. ASSUME NEW r \in Requests, Receive(r) \/ Serve(r) \/ Fault(r), r # s
       PROVE  ReplyOK(s)'
  BY <1>2, <1>16, ReplyFrame
<1>17. CASE UNCHANGED vars
  BY <1>2, <1>17 DEF vars
<1> QED
  BY <1>5, <1>6, <1>9, <1>10, <1>11, <1>12, <1>13, <1>14, <1>15, <1>16, <1>17
     DEF Next, Serve, Fault, Finished

\* ReplyOK holds of every request in every reachable state.
THEOREM RefundRepliesInductive == Spec => [](IndInv /\ \A r \in Requests : ReplyOK(r))
<1>1. Init => \A r \in Requests : ReplyOK(r)
  BY DEF Init, ReplyOK
<1>2. IndInv /\ (\A r \in Requests : ReplyOK(r)) /\ [Next]_vars
        => (\A r \in Requests : ReplyOK(r))'
  BY ReplyNext
<1> QED
  BY <1>1, <1>2, RefundInductive, PTL DEF Spec

\* A 200 of the refund endpoint always names a committed refund, the request's
\* own or one of its correlation id.
THEOREM RefundReplySoundHolds == Spec => []RefundReplySound
<1>1. (\A r \in Requests : ReplyOK(r)) => RefundReplySound
  BY DEF ReplyOK, RefundReplySound
<1> QED
  BY <1>1, RefundRepliesInductive, PTL

\* Money the gateway sent back for a refund whose transaction was lost is never
\* reported as a success.
THEOREM LostRefundReportedHolds == Spec => []LostRefundReported
<1>1. IndInv /\ (\A r \in Requests : ReplyOK(r)) => LostRefundReported
  BY DEF ReplyOK, LostRefundReported, IndInv, TypeOK
<1> QED
  BY <1>1, RefundRepliesInductive, PTL

\* A duplicate that arrives after a refund of its correlation id was committed
\* never reaches the gateway.
THEOREM LateDuplicateNeverRefundsHolds == Spec => []LateDuplicateNeverRefunds
<1>1. (\A r \in Requests : ReplyOK(r)) => LateDuplicateNeverRefunds
  BY DEF ReplyOK, LateDuplicateNeverRefunds
<1> QED
  BY <1>1, RefundRepliesInductive, PTL
=============================================================================
