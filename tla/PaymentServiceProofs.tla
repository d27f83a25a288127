------------------------ MODULE PaymentServiceProofs ------------------------
(***************************************************************************)
(* Theorems about PaymentService, for every set of requests, keys and      *)
(* inputs, every pool size, with and without faults.                       *)
(***************************************************************************)
EXTENDS PaymentService, TLAPS

-----------------------------------------------------------------------------
(* Facts about the operators *)

\* "No row" is a row, so tables and transactions may hold it.
LEMMA NoRowType == NoRow \in PaymentRow
BY TrimAssumption DEF NoRow, PaymentRow

\* Setting the status of a row gives a row, the other columns unchanged.
LEMMA StatusType ==
  ASSUME NEW row \in PaymentRow, NEW status \in PaymentStatus
  PROVE  [row EXCEPT !.status = status] \in PaymentRow
BY DEF PaymentRow

\* The key a request is served with is a text.
LEMMA KeyType ==
  ASSUME NEW q \in RequestType
  PROVE  EffectiveKey(q) \in Texts /\ Trim[EffectiveKey(q)] \in Texts
BY TrimAssumption DEF RequestType, EffectiveKey

\* The router answers with a registered adapter or with none.
LEMMA RouteType ==
  ASSUME NEW name \in GatewayNames
  PROVE  GetGatewayOrDefault(name) \in Adapters \cup {NoGateway}
BY DEF GetGatewayOrDefault, GetDefaultGateway, GetGateway

\* What the adapters answer: a result, and memos Stripe may keep.
Answer == [success : BOOLEAN, moved : Int, memo : SUBSET Memo]

\* Cents are integers, wrapped around or not.
LEMMA MinorUnitsType ==
  ASSUME NEW amount \in Int
  PROVE  MinorUnits(amount) \in Int /\ MinorUnits(amount) * UnitsPerCent \in Int
<1>1. amount \div UnitsPerCent \in Int
  BY GatewayAssumption
<1>2. \A n \in Int : IntPart(n) \in Int
  BY GatewayAssumption DEF IntPart
<1>3. MinorUnits(amount) \in Int
  BY <1>1, <1>2 DEF MinorUnits
<1> QED
  BY <1>3, GatewayAssumption

LEMMA AnswerType ==
  ASSUME NEW gateway \in Adapters, NEW key \in Texts, NEW amount \in Int,
         NEW memo, NEW a \in ProcessPayment(gateway, key, amount, memo)
  PROVE  a \in Answer
<1> DEFINE k == Trim[key]
           cents == MinorUnits(amount)
           fresh == {[key |-> k, amount |-> cents, paid |-> b] : b \in BOOLEAN}
<1>0. cents \in Int /\ cents * UnitsPerCent \in Int
  BY MinorUnitsType
<1>1. Declined \in Answer /\ Charged(amount) \in Answer
  BY DEF Declined, Charged, Answer
<1>2. fresh \in SUBSET Memo
  BY <1>0, TrimAssumption DEF Memo
<1>3. ASSUME NEW m \in SUBSET Memo, NEW x \in StripeExecutes(cents, m)
      PROVE  x \in Answer
  <2>1. {y \in m : y.paid} \in SUBSET Memo /\ {y \in m : ~y.paid} \in SUBSET Memo
    BY <1>3
  <2>2. CASE \E s \in BOOLEAN : x = [success |-> s, moved |-> cents * UnitsPerCent,
                                    memo |-> {y \in m : y.paid}]
    BY <1>0, <2>1, <2>2 DEF Answer
  <2>3. CASE x = [success |-> FALSE, moved |-> 0,
                  memo |-> {y \in m : ~y.paid}]
    BY <2>1, <2>3 DEF Answer
  <2> QED
    BY <1>3, <2>2, <2>3 DEF StripeExecutes
<1>4. CASE gateway = "mock"
  BY <1>1, <1>4 DEF ProcessPayment, MockProcessPayment
<1>5. CASE gateway = "paypal"
  BY <1>1, <1>5 DEF ProcessPayment, PayPalProcessPayment
<1>6. CASE gateway = "stripe"
  <2>1. a \in StripeProcessPayment(key, amount, memo)
    BY <1>6 DEF ProcessPayment
  <2>2. {} \in SUBSET Memo
    OBVIOUS
  <2>3. [success |-> TRUE, moved |-> 0, memo |-> {}] \in Answer
    BY DEF Answer
  <2>4. \/ a = Declined
        \/ a \in StripeExecutes(cents, {})
        \/ a \in StripeExecutes(cents, fresh)
        \/ a = [success |-> TRUE, moved |-> 0, memo |-> {}]
    BY <2>1 DEF StripeProcessPayment
  <2> QED
    BY <1>1, <1>2, <1>3, <2>2, <2>3, <2>4
<1> QED
  BY <1>4, <1>5, <1>6 DEF Adapters
\* A return leaves well-typed values behind.
LEMMA ReturnType ==
  ASSUME TypeOK, NEW r \in Requests, NEW code, NEW p,
         [code |-> code, payment |-> p] \in Reply, Return(r, code, p)
  PROVE  /\ pc' \in [Requests -> Pcs]
         /\ reply' \in [Requests -> Reply]
         /\ draft' \in [Requests -> PaymentRow]
         /\ result' \in [Requests -> {"none", "ok", "fail"}]
         /\ txRow' \in [Requests -> PaymentRow]
         /\ txLog' \in [Requests -> SUBSET Transaction]
<1> USE NoRowType
<1>1. pc' \in [Requests -> Pcs] /\ result' \in [Requests -> {"none", "ok", "fail"}]
  BY DEF TypeOK, Return, Goto, Pcs
<1>2. reply' \in [Requests -> Reply]
  BY DEF TypeOK, Return
<1>3. draft' \in [Requests -> PaymentRow] /\ txRow' \in [Requests -> PaymentRow]
  BY DEF TypeOK, Return
<1>4. txLog' \in [Requests -> SUBSET Transaction]
  BY DEF TypeOK, Return
<1> QED
  BY <1>1, <1>2, <1>3, <1>4

\* Both ways to return give a well-formed response.
LEMMA ReplyType ==
  /\ \A p \in Requests : \A row : [code |-> StatusCode(row.status),
                                   payment |-> p] \in Reply
  /\ \A err \in {"InvalidRequest", "GatewayUnavailable", "Other"} :
       [code |-> APIErrorFromErr(err), payment |-> None] \in Reply
  /\ [code |-> "dropped", payment |-> None] \in Reply
BY DEF Reply, StatusCode, APIErrorFromErr

\* The initial states are well typed.
LEMMA TypeInit == Init => TypeOK
<1> SUFFICES ASSUME Init PROVE TypeOK
  OBVIOUS
<1>1. (CHOOSE q \in Inputs : TRUE) \in RequestType
  BY ServiceAssumption
<1>2. NoReply \in Reply
  BY DEF NoReply, Reply
<1>3. taken \in [Requests -> Int] /\ clock \in Nat
  BY DEF Init
<1> QED
  BY <1>1, <1>2, <1>3, NoRowType DEF Init, TypeOK, Pcs

\* Every step keeps the types.
LEMMA TypeNext == TypeOK /\ [Next]_vars => TypeOK'
<1> SUFFICES ASSUME TypeOK, [Next]_vars PROVE TypeOK'
  OBVIOUS
<1> USE NoRowType DEF memory, tx, database, provider
<1>1. ASSUME NEW r \in Requests, Receive(r) PROVE TypeOK'
  <2>1. PICK q \in Inputs :
          /\ req' = [req EXCEPT ![r] = q]
          /\ \E b \in BOOLEAN, c \in BOOLEAN :
               seen' = [seen EXCEPT ![r] = [key |-> b, paid |-> c]]
          /\ \/ /\ pc' = [pc EXCEPT ![r] = "done"]
                /\ reply' = [reply EXCEPT ![r] =
                     [code |-> APIErrorFromErr("InvalidRequest"),
                      payment |-> None]]
             \/ /\ \/ pc' = [pc EXCEPT ![r] = "order"]
                   \/ pc' = [pc EXCEPT ![r] = "key"]
                /\ reply' = reply
    BY <1>1 DEF Receive, Goto
  <2>2. q \in RequestType
    BY ServiceAssumption
  <2>3. reply' \in [Requests -> Reply]
    BY <2>1, ReplyType DEF TypeOK
  <2>4. seen' \in [Requests -> [key : BOOLEAN, paid : BOOLEAN]]
    BY <2>1 DEF TypeOK
  <2> QED
    BY <1>1, <2>1, <2>2, <2>3, <2>4 DEF Receive, TypeOK, Pcs, DbPcs
<1>2. ASSUME NEW r \in Requests, FindByKey(r) PROVE TypeOK'
  <2>1. CASE \E p \in GetPaymentByIdempotencyKey(Key(r)) :
               ReturnPayment(r, p, payments[p])
    <3>1. PICK p \in GetPaymentByIdempotencyKey(Key(r)) :
            Return(r, StatusCode(payments[p].status), p)
      BY <2>1 DEF ReturnPayment
    <3>2. p \in Requests
      BY DEF GetPaymentByIdempotencyKey, Rows, TypeOK
    <3> QED
      BY <1>2, <3>1, <3>2, ReturnType, ReplyType DEF FindByKey, TypeOK
  <2>2. CASE Goto(r, "order") /\ UNCHANGED <<draft, result, tx, reply>>
    BY <1>2, <2>2 DEF FindByKey, TypeOK, Goto, Pcs, DbPcs
  <2> QED
    BY <1>2, <2>1, <2>2 DEF FindByKey
<1>3. ASSUME NEW r \in Requests, FindByOrder(r) PROVE TypeOK'
  <2>1. CASE \E p \in GetPaymentByOrderID(req[r].order) :
               ReturnPayment(r, p, payments[p])
    <3>1. PICK p \in GetPaymentByOrderID(req[r].order) :
            Return(r, StatusCode(payments[p].status), p)
      BY <2>1 DEF ReturnPayment
    <3>2. p \in Requests
      BY DEF GetPaymentByOrderID, Rows, TypeOK
    <3> QED
      BY <1>3, <3>1, <3>2, ReturnType, ReplyType DEF FindByOrder, TypeOK
  <2>2. CASE Goto(r, "route") /\ UNCHANGED <<draft, result, tx, reply>>
    BY <1>3, <2>2 DEF FindByOrder, TypeOK, Goto, Pcs
  <2> QED
    BY <1>3, <2>1, <2>2 DEF FindByOrder
<1>4. ASSUME NEW r \in Requests, Route(r) PROVE TypeOK'
  <2> DEFINE gateway == GetGatewayOrDefault(req[r].gateway)
  <2>1. CASE ReturnError(r, "GatewayUnavailable") /\ UNCHANGED clock
    BY <1>4, <2>1, ReturnType, ReplyType DEF ReturnError, Route, TypeOK
  <2>2. CASE gateway # NoGateway
    <3>1. req[r] \in RequestType /\ gateway \in Adapters
      BY <2>2, RouteType DEF TypeOK, RequestType
    <3>2. clock + 1 \in Nat
      BY DEF TypeOK
    <3>3. [status |-> "PENDING", order |-> req[r].order,
           key |-> nullString(Key(r)), amount |-> req[r].amount,
           gateway |-> gateway, created |-> clock + 1] \in PaymentRow
      BY <3>1, <3>2, KeyType
         DEF PaymentRow, PaymentStatus, RequestType, Adapters, nullString, Key
    <3>4. draft' \in [Requests -> PaymentRow]
      BY <1>4, <2>2, <3>3 DEF Route, TypeOK
    <3> QED
      BY <1>4, <2>2, <3>2, <3>4 DEF Route, TypeOK, Goto, Pcs
  <2> QED
    BY <1>4, <2>1, <2>2 DEF Route
<1>5. ASSUME NEW r \in Requests, Charge(r) PROVE TypeOK'
  <2>1. PICK answer \in ProcessPayment(draft[r].gateway, Key(r),
                                       draft[r].amount, stripeMemo) :
          /\ result' = [result EXCEPT
                          ![r] = IF answer.success THEN "ok" ELSE "fail"]
          /\ taken' = [taken EXCEPT ![r] = answer.moved]
          /\ stripeMemo' = stripeMemo \cup answer.memo
    BY <1>5 DEF Charge
  <2>2. draft[r] \in PaymentRow /\ req[r] \in RequestType
    BY DEF TypeOK
  <2>3. answer \in Answer
    BY <2>2, KeyType, AnswerType DEF PaymentRow, Adapters, Key
  <2> QED
    BY <1>5, <2>1, <2>3 DEF Charge, Answer, TypeOK, Goto, Pcs, DbPcs
<1>6. ASSUME NEW r \in Requests, Begin(r) PROVE TypeOK'
  BY <1>6 DEF Begin, TypeOK, Goto, Pcs, DbPcs, InTxPcs
<1>7. ASSUME NEW r \in Requests, CreatePayment(r) PROVE TypeOK'
  BY <1>7 DEF CreatePayment, TypeOK, Goto, Pcs, DbPcs, InTxPcs
<1>8. ASSUME NEW r \in Requests, CreatePaymentConflict(r) PROVE TypeOK'
  BY <1>8 DEF CreatePaymentConflict, TypeOK, Goto, Pcs, DbPcs
<1>9. ASSUME NEW r \in Requests, CreatePaymentTooLong(r) PROVE TypeOK'
  BY <1>9, ReturnType, ReplyType DEF CreatePaymentTooLong, ReturnError, TypeOK
<1>10. ASSUME NEW r \in Requests, MarkProcessing(r) PROVE TypeOK'
  <2>1. draft[r] \in PaymentRow /\ "PROCESSING" \in PaymentStatus
    BY DEF TypeOK, PaymentStatus
  <2>2. draft' \in [Requests -> PaymentRow]
    BY <1>10, <2>1, StatusType DEF MarkProcessing, UpdatePayment, TypeOK
  <2> QED
    BY <1>10, <2>2 DEF MarkProcessing, UpdatePayment, TypeOK, Goto, Pcs, DbPcs, InTxPcs
<1>11. ASSUME NEW r \in Requests, CreateTransaction(r) PROVE TypeOK'
  <2>1. draft[r].amount \in Int
    BY DEF TypeOK, PaymentRow
  <2>2. [payment |-> r, type |-> "CHARGE", amount |-> draft[r].amount,
         success |-> result[r] = "ok"] \in Transaction
    BY <2>1 DEF Transaction
  <2>3. txLog' \in [Requests -> SUBSET Transaction]
    BY <1>11, <2>2 DEF CreateTransaction, TypeOK
  <2> QED
    BY <1>11, <2>3 DEF CreateTransaction, TypeOK, Goto, Pcs, DbPcs, InTxPcs
<1>12. ASSUME NEW r \in Requests, Settle(r) PROVE TypeOK'
  <2>1. /\ draft[r] \in PaymentRow
        /\ (IF result[r] = "ok" THEN "COMPLETED" ELSE "FAILED") \in PaymentStatus
    BY DEF TypeOK, PaymentStatus
  <2>2. draft' \in [Requests -> PaymentRow]
    BY <1>12, <2>1, StatusType DEF Settle, UpdatePayment, TypeOK
  <2> QED
    BY <1>12, <2>2 DEF Settle, UpdatePayment, TypeOK, Goto, Pcs, DbPcs, InTxPcs
<1>13. ASSUME NEW r \in Requests, Commit(r) PROVE TypeOK'
  BY <1>13, ReturnType, ReplyType
     DEF Commit, Committed, ReturnPayment, TypeOK
<1>14. ASSUME NEW r \in Requests, Recover(r) PROVE TypeOK'
  <2>1. CASE \E p \in GetPaymentByIdempotencyKey(Key(r)) :
               ReturnPayment(r, p, payments[p])
    <3>1. PICK p \in GetPaymentByIdempotencyKey(Key(r)) :
            Return(r, StatusCode(payments[p].status), p)
      BY <2>1 DEF ReturnPayment
    <3>2. p \in Requests
      BY DEF GetPaymentByIdempotencyKey, Rows, TypeOK
    <3> QED
      BY <1>14, <3>1, <3>2, ReturnType, ReplyType DEF Recover, TypeOK
  <2>2. CASE ReturnError(r, "Other")
    BY <1>14, <2>2, ReturnType, ReplyType DEF Recover, ReturnError, TypeOK
  <2> QED
    BY <1>14, <2>1, <2>2 DEF Recover
<1>15. ASSUME NEW r \in Requests, StatementFails(r) PROVE TypeOK'
  BY <1>15, ReturnType, ReplyType DEF StatementFails, ReturnError, TypeOK
<1>16. ASSUME NEW r \in Requests, CommitAnswerLost(r) PROVE TypeOK'
  BY <1>16, ReturnType, ReplyType
     DEF CommitAnswerLost, Committed, ReturnError, TypeOK
<1>17. CASE Crash
  <2>1. reply' \in [Requests -> Reply]
    BY <1>17, ReplyType DEF Crash, TypeOK
  <2> QED
    BY <1>17, <2>1 DEF Crash, TypeOK, Pcs
<1>18. CASE UNCHANGED vars
  BY <1>18 DEF vars, TypeOK
<1> QED
  BY <1>1, <1>2, <1>3, <1>4, <1>5, <1>6, <1>7, <1>8, <1>9, <1>10, <1>11,
     <1>12, <1>13, <1>14, <1>15, <1>16, <1>17, <1>18
     DEF Next, Serve, Fault, Finished

-----------------------------------------------------------------------------
\* Type correctness of PaymentService: whatever interleaves or fails, rows,
\* responses and audit entries are well formed.
THEOREM TypeCorrect == Spec => []TypeOK
BY TypeInit, TypeNext, PTL DEF Spec
-----------------------------------------------------------------------------
(* The inductive invariant *)

\* A return, whether or not its transaction was committed, leaves every request
\* consistent.
LEMMA ReturnStep ==
  ASSUME TypeOK, \A s \in Requests : StepOK(s),
         NEW r \in Requests, NEW code, NEW p, Return(r, code, p),
         pc[r] \in ChargedPcs \/ r \notin charges,
         UNCHANGED <<provider, req>>,
         \A s \in Requests : s # r => payments'[s] = payments[s],
         payments'[r].status = "absent" => payments'[r] = NoRow
  PROVE  \A s \in Requests : StepOK(s)'
<1> SUFFICES ASSUME NEW s \in Requests PROVE StepOK(s)'
  OBVIOUS
<1> USE DEF provider, charges
<1>1. CASE s = r
  BY <1>1 DEF StepOK, Return, Goto, TypeOK, ChargedPcs, DraftPcs, WrittenPcs,
              InTxPcs
<1>2. CASE s # r
  BY <1>2 DEF StepOK, Return, Goto, TypeOK, Key
<1> QED
  BY <1>1, <1>2

\* The same for a return after COMMIT.
LEMMA CommitStep ==
  ASSUME TypeOK, \A s \in Requests : StepOK(s),
         NEW r \in Requests, NEW code, NEW p, Return(r, code, p),
         pc[r] = "commit", payments' = [payments EXCEPT ![r] = txRow[r]],
         UNCHANGED <<provider, req>>
  PROVE  \A s \in Requests : StepOK(s)'
<1>1. payments'[r] = draft[r] /\ draft[r].status # "absent"
  BY DEF StepOK, TypeOK, DraftPcs, WrittenPcs, InTxPcs
<1>2. \A s \in Requests : s # r => payments'[s] = payments[s]
  BY DEF TypeOK
<1>3. pc[r] \in ChargedPcs
  BY DEF ChargedPcs, InTxPcs
<1> QED
  BY <1>1, <1>2, <1>3, ReturnStep

\* It holds before the first request.
LEMMA StepInit == Init => \A r \in Requests : StepOK(r)
BY DEF Init, charges, StepOK, NoRow, ChargedPcs, DraftPcs, WrittenPcs, InTxPcs

\* Every step keeps every request consistent.
LEMMA StepNext ==
  ASSUME TypeOK, \A r \in Requests : StepOK(r), [Next]_vars
  PROVE  \A r \in Requests : StepOK(r)'
<1> USE DEF memory, tx, database, provider, charges
<1>1. ASSUME NEW r \in Requests, Receive(r),
             NEW s \in Requests
      PROVE StepOK(s)'
  BY <1>1 DEF Receive, StepOK, TypeOK, Goto, Key, ChargedPcs, DraftPcs,
              WrittenPcs, InTxPcs
<1>2. ASSUME NEW r \in Requests, FindByKey(r) PROVE \A s \in Requests : StepOK(s)'
  <2>1. ASSUME NEW p, ReturnPayment(r, p, payments[p])
        PROVE  \A s \in Requests : StepOK(s)'
    BY <1>2, <2>1, ReturnStep
       DEF FindByKey, ReturnPayment, StepOK, ChargedPcs, InTxPcs
  <2>2. ASSUME Goto(r, "order"), UNCHANGED <<draft, result, tx, reply>>,
               NEW s \in Requests
        PROVE  StepOK(s)'
    BY <1>2, <2>2 DEF FindByKey, StepOK, TypeOK, Goto, Key, ChargedPcs,
                      DraftPcs, WrittenPcs, InTxPcs
  <2> QED
    BY <1>2, <2>1, <2>2 DEF FindByKey
<1>3. ASSUME NEW r \in Requests, FindByOrder(r)
      PROVE \A s \in Requests : StepOK(s)'
  <2>1. ASSUME NEW p, ReturnPayment(r, p, payments[p])
        PROVE  \A s \in Requests : StepOK(s)'
    BY <1>3, <2>1, ReturnStep
       DEF FindByOrder, ReturnPayment, StepOK, ChargedPcs, InTxPcs
  <2>2. ASSUME Goto(r, "route"), UNCHANGED <<draft, result, tx, reply>>,
               NEW s \in Requests
        PROVE  StepOK(s)'
    BY <1>3, <2>2 DEF FindByOrder, StepOK, TypeOK, Goto, Key, ChargedPcs,
                      DraftPcs, WrittenPcs, InTxPcs
  <2> QED
    BY <1>3, <2>1, <2>2 DEF FindByOrder
<1>4. ASSUME NEW r \in Requests, Route(r) PROVE \A s \in Requests : StepOK(s)'
  <2> DEFINE gateway == GetGatewayOrDefault(req[r].gateway)
  <2>1. CASE ReturnError(r, "GatewayUnavailable")
    BY <1>4, <2>1, ReturnStep DEF Route, ReturnError, StepOK, ChargedPcs, InTxPcs
  <2>2. ASSUME gateway # NoGateway, NEW s \in Requests PROVE StepOK(s)'
    <3>1. /\ pc' = [pc EXCEPT ![r] = "charge"]
          /\ UNCHANGED <<database, provider, req, result, txRow, txLog>>
          /\ draft' = [draft EXCEPT ![r] =
               [status |-> "PENDING", order |-> req[r].order,
                key |-> Trim[Key(r)], amount |-> req[r].amount,
                gateway |-> gateway, created |-> clock']]
      BY <1>4, <2>2 DEF Route, Goto, nullString
    <3>2. CASE s = r
      <4>1. /\ pc'[r] = "charge" /\ pc[r] = "route"
            /\ draft'[r].status = "PENDING"
            /\ draft'[r].order = req[r].order
            /\ draft'[r].key = Trim[Key(r)]
            /\ draft'[r].amount = req[r].amount
            /\ draft'[r].gateway = GetGatewayOrDefault(req[r].gateway)
        BY <1>4, <3>1 DEF Route, TypeOK
      <4>2. Key(r)' = Key(r)
        BY <3>1 DEF Key
      <4> QED
        BY <3>1, <3>2, <4>1, <4>2 DEF StepOK, ChargedPcs, WrittenPcs, InTxPcs
    <3>3. CASE s # r
      <4>1. pc'[s] = pc[s] /\ draft'[s] = draft[s] /\ result'[s] = result[s]
        BY <3>1, <3>3 DEF TypeOK
      <4>2. Key(s)' = Key(s)
        BY <3>1 DEF Key
      <4> QED
        BY <3>1, <4>1, <4>2 DEF StepOK
    <3> QED
      BY <3>2, <3>3
  <2> QED
    BY <1>4, <2>1, <2>2 DEF Route
<1>5. ASSUME NEW r \in Requests, Charge(r), NEW s \in Requests
      PROVE StepOK(s)'
  BY <1>5 DEF Charge, StepOK, TypeOK, Goto, Key, ChargedPcs, DraftPcs,
              WrittenPcs, InTxPcs
<1>6. ASSUME NEW r \in Requests, Begin(r), NEW s \in Requests
      PROVE StepOK(s)'
  BY <1>6 DEF Begin, StepOK, TypeOK, Goto, Key, ChargedPcs, DraftPcs,
              WrittenPcs, InTxPcs
<1>7. ASSUME NEW r \in Requests, CreatePayment(r), NEW s \in Requests
      PROVE StepOK(s)'
  BY <1>7 DEF CreatePayment, StepOK, TypeOK, Goto, Key, ChargedPcs, DraftPcs,
              WrittenPcs, InTxPcs
<1>8. ASSUME NEW r \in Requests, CreatePaymentConflict(r), NEW s \in Requests
      PROVE StepOK(s)'
  BY <1>8 DEF CreatePaymentConflict, StepOK, TypeOK, Goto, Key, ChargedPcs,
              DraftPcs, WrittenPcs, InTxPcs
<1>9. ASSUME NEW r \in Requests, CreatePaymentTooLong(r)
      PROVE \A s \in Requests : StepOK(s)'
  BY <1>9, ReturnStep DEF CreatePaymentTooLong, ReturnError, StepOK,
                          ChargedPcs, InTxPcs
<1>10. ASSUME NEW r \in Requests, MarkProcessing(r), NEW s \in Requests
       PROVE StepOK(s)'
  <2>1. CASE s = r
    <3>1. /\ draft'[r] = [draft[r] EXCEPT !.status = "PROCESSING"]
          /\ draft[r] \in PaymentRow
      BY <1>10 DEF MarkProcessing, UpdatePayment, TypeOK
    <3>2. /\ draft'[r].status = "PROCESSING"
          /\ draft'[r].order = draft[r].order
          /\ draft'[r].key = draft[r].key
          /\ draft'[r].amount = draft[r].amount
          /\ draft'[r].gateway = draft[r].gateway
      BY <3>1 DEF PaymentRow
    <3>3. txRow'[r] = draft'[r] /\ pc'[r] = "audit" /\ Key(r)' = Key(r)
      BY <1>10 DEF MarkProcessing, UpdatePayment, TypeOK, Goto, Key
    <3>4. pc[r] = "processing" /\ UNCHANGED <<payments, taken, req, txLog>>
      BY <1>10 DEF MarkProcessing
    <3> QED
      BY <2>1, <3>2, <3>3, <3>4
         DEF StepOK, ChargedPcs, DraftPcs, WrittenPcs, InTxPcs
  <2>2. CASE s # r
    BY <1>10, <2>2 DEF MarkProcessing, UpdatePayment, StepOK, TypeOK, Goto, Key
  <2> QED
    BY <2>1, <2>2
<1>11. ASSUME NEW r \in Requests, CreateTransaction(r), NEW s \in Requests
       PROVE StepOK(s)'
  BY <1>11 DEF CreateTransaction, StepOK, TypeOK, Goto, Key, ChargedPcs,
               DraftPcs, WrittenPcs, InTxPcs
<1>12. ASSUME NEW r \in Requests, Settle(r), NEW s \in Requests
       PROVE StepOK(s)'
  <2>1. CASE s = r
    BY <1>12, <2>1 DEF Settle, UpdatePayment, StepOK, TypeOK, Goto, Key, ChargedPcs,
                       DraftPcs, WrittenPcs, InTxPcs, PaymentRow
  <2>2. CASE s # r
    BY <1>12, <2>2 DEF Settle, UpdatePayment, StepOK, TypeOK, Goto, Key
  <2> QED
    BY <2>1, <2>2
<1>13. ASSUME NEW r \in Requests, Commit(r)
       PROVE \A s \in Requests : StepOK(s)'
  <2>1. /\ Return(r, StatusCode(draft[r].status), r)
        /\ pc[r] = "commit"
        /\ payments' = [payments EXCEPT ![r] = txRow[r]]
        /\ UNCHANGED <<provider, req>>
    BY <1>13 DEF Commit, Committed, ReturnPayment
  <2> QED
    BY <2>1, CommitStep
<1>14. ASSUME NEW r \in Requests, Recover(r)
       PROVE \A s \in Requests : StepOK(s)'
  BY <1>14, ReturnStep DEF Recover, ReturnPayment, ReturnError, StepOK,
       ChargedPcs, InTxPcs
<1>15. ASSUME NEW r \in Requests, StatementFails(r)
       PROVE \A s \in Requests : StepOK(s)'
  BY <1>15, ReturnStep DEF StatementFails, ReturnError, StepOK, ChargedPcs,
       InTxPcs
<1>16. ASSUME NEW r \in Requests, CommitAnswerLost(r)
       PROVE \A s \in Requests : StepOK(s)'
  <2>1. /\ Return(r, APIErrorFromErr("Other"), None)
        /\ pc[r] = "commit"
        /\ payments' = [payments EXCEPT ![r] = txRow[r]]
        /\ UNCHANGED <<provider, req>>
    BY <1>16 DEF CommitAnswerLost, Committed, ReturnError
  <2> QED
    BY <2>1, CommitStep
<1>17. ASSUME Crash, NEW s \in Requests PROVE StepOK(s)'
  BY <1>17 DEF Crash, InFlight, StepOK, TypeOK, ChargedPcs, DraftPcs,
       WrittenPcs, InTxPcs
<1>18. ASSUME UNCHANGED vars, NEW s \in Requests PROVE StepOK(s)'
  BY <1>18 DEF vars, StepOK, Key
<1> QED
  BY <1>1, <1>2, <1>3, <1>4, <1>5, <1>6, <1>7, <1>8, <1>9, <1>10, <1>11,
     <1>12, <1>13, <1>14, <1>15, <1>16, <1>17, <1>18
     DEF Next, Serve, Fault, Finished
-----------------------------------------------------------------------------
(* The database *)

\* The committed tables change only by COMMIT.
LEMMA DatabaseNext ==
  ASSUME [Next]_vars
  PROVE  \/ UNCHANGED database
         \/ \E r \in Requests : pc[r] = "commit" /\ Committed(r)
BY DEF Next, Serve, Fault, Finished, vars, database, Receive, FindByKey,
       FindByOrder, Route, Charge, Begin, CreatePayment, CreatePaymentConflict,
       CreatePaymentTooLong, MarkProcessing, CreateTransaction, Settle, Commit,
       Recover, StatementFails, CommitAnswerLost, Crash

\* A committed row is never written again.
LEMMA RowsStay ==
  ASSUME TypeOK, \A r \in Requests : StepOK(r), [Next]_vars
  PROVE  \A p \in Rows(payments) : p \in Rows(payments)'
                                   /\ payments'[p] = payments[p]
<1>1. CASE UNCHANGED database
  BY <1>1 DEF database, Rows
<1>2. ASSUME NEW r \in Requests, pc[r] = "commit", Committed(r)
      PROVE  \A p \in Rows(payments) : p \in Rows(payments)'
                                       /\ payments'[p] = payments[p]
  BY <1>2 DEF Committed, Rows, StepOK, TypeOK
<1> QED
  BY <1>1, <1>2, DatabaseNext

\* SettledAndAudited is kept: a COMMIT adds the settled row and its one audit
\* row to a table that had neither.
LEMMA SettledNext ==
  ASSUME TypeOK, \A r \in Requests : StepOK(r), SettledAndAudited, [Next]_vars
  PROVE  SettledAndAudited'
<1>1. CASE UNCHANGED database
  BY <1>1 DEF database, SettledAndAudited, Rows
<1>2. ASSUME NEW r \in Requests, pc[r] = "commit", Committed(r)
      PROVE  SettledAndAudited'
  <2> DEFINE row == draft[r]
             log == [payment |-> r, type |-> "CHARGE", amount |-> row.amount,
                     success |-> result[r] = "ok"]
  <2>1. /\ payments' = [payments EXCEPT ![r] = row]
        /\ transactions' = transactions \cup {log}
        /\ row.status = IF result[r] = "ok" THEN "COMPLETED" ELSE "FAILED"
        /\ payments[r].status = "absent"
    BY <1>2 DEF Committed, StepOK, WrittenPcs
  <2>2. /\ payments'[r] = row
        /\ \A p \in Requests : p # r => payments'[p] = payments[p]
        /\ DOMAIN payments = Requests /\ DOMAIN payments' = Requests
    BY <2>1 DEF TypeOK
  <2>3. \A t \in transactions : t.payment # r
    BY <2>1 DEF SettledAndAudited, Rows
  <2>4. log.payment = r
    OBVIOUS
  <2>5. ASSUME NEW p \in Rows(payments)'
        PROVE  /\ payments'[p].status \in {"COMPLETED", "FAILED"}
               /\ {t \in transactions' : t.payment = p} =
                    {[payment |-> p, type |-> "CHARGE",
                      amount |-> payments'[p].amount,
                      success |-> payments'[p].status = "COMPLETED"]}
    <3>1. CASE p = r
      <4>1. {t \in transactions' : t.payment = p} = {log}
        BY <2>1, <2>3, <2>4, <3>1
      <4>2. (result[r] = "ok") = (row.status = "COMPLETED")
        BY <2>1
      <4> QED
        BY <2>1, <2>2, <3>1, <4>1, <4>2
    <3>2. CASE p # r
      <4>1. p \in Rows(payments) /\ payments'[p] = payments[p]
        BY <2>2, <2>5, <3>2 DEF Rows
      <4>2. {t \in transactions' : t.payment = p} =
              {t \in transactions : t.payment = p}
        BY <2>1, <2>4, <3>2
      <4> QED
        BY <4>1, <4>2 DEF SettledAndAudited
    <3> QED
      BY <3>1, <3>2
  <2>6. ASSUME NEW t \in transactions' PROVE t.payment \in Rows(payments)'
    <3>1. r \in Rows(payments)'
      BY <2>1, <2>2 DEF Rows
    <3>2. CASE t = log
      BY <2>4, <3>1, <3>2
    <3>3. CASE t \in transactions
      BY <1>2, <3>3, RowsStay DEF SettledAndAudited
    <3> QED
      BY <2>1, <3>2, <3>3
  <2> QED
    BY <2>5, <2>6 DEF SettledAndAudited
<1> QED
  BY <1>1, <1>2, DatabaseNext
-----------------------------------------------------------------------------
(* Idempotency keys *)

\* How a step can move keys: it drops uncommitted ones, inserts one, or commits
\* one.
LEMMA KeyMoves ==
  ASSUME TypeOK, \A r \in Requests : StepOK(r), [Next]_vars
  PROVE  \/ /\ payments' = payments
            /\ \A s \in Requests : txRow'[s].key \in {txRow[s].key, Blank}
         \/ \E r \in Requests : CreatePayment(r)
         \/ \E r \in Requests :
              /\ payments' = [payments EXCEPT ![r] = txRow[r]]
              /\ txRow' = [txRow EXCEPT ![r] = NoRow]
<1> DEFINE Drops == /\ payments' = payments
                    /\ \A s \in Requests : txRow'[s].key \in {txRow[s].key, Blank}
<1> USE DEF database, tx, memory
<1>1. NoRow.key = Blank
  BY DEF NoRow
<1>2. ASSUME NEW r \in Requests, NEW code, NEW p, Return(r, code, p),
             payments' = payments
      PROVE  Drops
  BY <1>1, <1>2 DEF Return, TypeOK
<1>3. ASSUME NEW r \in Requests,
             \/ FindByKey(r) \/ FindByOrder(r) \/ Route(r) \/ Recover(r)
             \/ CreatePaymentTooLong(r) \/ StatementFails(r)
      PROVE  Drops
  BY <1>2, <1>3 DEF FindByKey, FindByOrder, Route, Recover,
       CreatePaymentTooLong, StatementFails, ReturnPayment, ReturnError
<1>4. ASSUME NEW r \in Requests,
             \/ Receive(r) \/ Charge(r) \/ Begin(r) \/ CreateTransaction(r)
             \/ CreatePaymentConflict(r)
      PROVE  Drops
  BY <1>4 DEF Receive, Charge, Begin, CreateTransaction, CreatePaymentConflict
<1>5. ASSUME NEW r \in Requests, MarkProcessing(r) \/ Settle(r) PROVE Drops
  <2>1. PICK status : /\ draft' = [draft EXCEPT ![r].status = status]
                      /\ txRow' = [txRow EXCEPT ![r] = draft'[r]]
                      /\ payments' = payments
    BY <1>5 DEF MarkProcessing, Settle, UpdatePayment
  <2>2. txRow[r] = draft[r] /\ draft[r] \in PaymentRow
    BY <1>5 DEF MarkProcessing, UpdatePayment, Settle, StepOK, WrittenPcs, TypeOK
  <2>3. draft'[r].key = draft[r].key
    BY <2>1, <2>2 DEF TypeOK, PaymentRow
  <2> QED
    BY <2>1, <2>2, <2>3 DEF TypeOK
<1>6. ASSUME NEW r \in Requests, Commit(r) \/ CommitAnswerLost(r)
      PROVE  /\ payments' = [payments EXCEPT ![r] = txRow[r]]
             /\ txRow' = [txRow EXCEPT ![r] = NoRow]
  BY <1>6 DEF Commit, CommitAnswerLost, Committed, ReturnPayment, ReturnError,
       Return
<1>7. CASE Crash
  BY <1>1, <1>7 DEF Crash
<1>8. CASE UNCHANGED vars
  BY <1>8 DEF vars
<1> QED
  BY <1>3, <1>4, <1>5, <1>6, <1>7, <1>8 DEF Next, Serve, Fault, Finished

\* Keys stay unique, because CREATE waits for the open transactions that
\* inserted the key and refuses a committed one.
LEMMA KeyNext ==
  ASSUME TypeOK, \A r \in Requests : StepOK(r), KeyUnique, OpenKeyUnique,
         [Next]_vars
  PROVE  KeyUnique' /\ OpenKeyUnique'
<1>0. NoRow.key = Blank
  BY DEF NoRow
<1>1. CASE /\ payments' = payments
           /\ \A s \in Requests : txRow'[s].key \in {txRow[s].key, Blank}
  BY <1>1 DEF KeyUnique, OpenKeyUnique
<1>2. ASSUME NEW r \in Requests, CreatePayment(r)
      PROVE  KeyUnique' /\ OpenKeyUnique'
  <2>1. /\ payments' = payments
        /\ txRow' = [txRow EXCEPT ![r] = draft[r]]
        /\ ~KeyInserting(r) /\ ~KeyTaken(r)
    BY <1>2 DEF CreatePayment, database
  <2>2. \A s \in Requests \ {r} :
          draft[r].key # Blank =>
            txRow[s].key # draft[r].key /\ payments[s].key # draft[r].key
    BY <1>0, <2>1 DEF KeyInserting, KeyTaken, GetPaymentByIdempotencyKey, Rows,
         StepOK, TypeOK
  <2>3. \A s \in Requests : txRow'[s] = IF s = r THEN draft[r] ELSE txRow[s]
    BY <2>1 DEF TypeOK
  <2> QED
    BY <2>1, <2>2, <2>3 DEF KeyUnique, OpenKeyUnique
<1>3. ASSUME NEW r \in Requests,
             payments' = [payments EXCEPT ![r] = txRow[r]],
             txRow' = [txRow EXCEPT ![r] = NoRow]
      PROVE  KeyUnique' /\ OpenKeyUnique'
  <2>1. \A s \in Requests :
          /\ payments'[s] = IF s = r THEN txRow[r] ELSE payments[s]
          /\ txRow'[s] = IF s = r THEN NoRow ELSE txRow[s]
    BY <1>3 DEF TypeOK
  <2> QED
    BY <1>0, <2>1 DEF KeyUnique, OpenKeyUnique
<1> QED
  BY <1>1, <1>2, <1>3, KeyMoves

\* A key that is committed stays committed.
LEMMA KeyStays ==
  ASSUME TypeOK, \A r \in Requests : StepOK(r), [Next]_vars, NEW key,
         GetPaymentByIdempotencyKey(key) # {}
  PROVE  GetPaymentByIdempotencyKey(key)' # {}
BY RowsStay DEF GetPaymentByIdempotencyKey

\* Only the arrival of a request sets its input and its history.
LEMMA InputsStay ==
  ASSUME [Next]_vars
  PROVE  (\E r \in Requests : Receive(r)) \/ UNCHANGED <<req, seen>>
BY DEF Next, Serve, Fault, Finished, vars, memory, FindByKey, FindByOrder,
       Route, Charge, Begin, CreatePayment, CreatePaymentConflict,
       CreatePaymentTooLong, MarkProcessing, CreateTransaction, Settle, Commit,
       Recover, StatementFails, CommitAnswerLost, Crash

\* Known duplicates keep going nowhere: the raw key of the lookup is the
\* committed one, so FindByKey can only return.
LEMMA SeenNext ==
  ASSUME TypeOK, \A r \in Requests : StepOK(r),
         \A r \in Requests : SeenStops(r), [Next]_vars
  PROVE  \A r \in Requests : SeenStops(r)'
<1> USE DEF database, tx, memory, provider, charges
<1> SUFFICES ASSUME NEW s \in Requests, seen'[s].key PROVE SeenStops(s)'
  BY DEF SeenStops
<1>1. ASSUME Receive(s) PROVE SeenStops(s)'
  <2>1. PICK q \in Inputs :
          /\ req' = [req EXCEPT ![s] = q]
          /\ \/ pc' = [pc EXCEPT ![s] = "done"]
             \/ pc' = [pc EXCEPT ![s] = IF Trim[EffectiveKey(q)] = Blank
                                        THEN "order" ELSE "key"]
          /\ \E paid : seen' = [seen EXCEPT ![s] =
               [key |-> /\ Trim[EffectiveKey(q)] # Blank
                        /\ GetPaymentByIdempotencyKey(Trim[EffectiveKey(q)]) # {},
                paid |-> paid]]
    BY <1>1 DEF Receive, Goto
  <2>2. Key(s)' = EffectiveKey(q)
    BY <2>1 DEF Key, TypeOK
  <2>3. /\ Trim[EffectiveKey(q)] # Blank
        /\ GetPaymentByIdempotencyKey(Trim[EffectiveKey(q)]) # {}
    BY <2>1 DEF TypeOK
  <2>4. s \notin charges' /\ payments' = payments
    BY <1>1 DEF Receive, StepOK, ChargedPcs, InTxPcs
  <2>5. pc'[s] \in {"key", "done"}
    BY <2>1, <2>3 DEF TypeOK
  <2>6. GetPaymentByIdempotencyKey(Trim[EffectiveKey(q)])' # {}
    BY <2>3, <2>4 DEF GetPaymentByIdempotencyKey, Rows
  <2> QED
    BY <2>2, <2>3, <2>4, <2>5, <2>6 DEF SeenStops
<1>2. ASSUME ~Receive(s)
      PROVE  SeenStops(s)'
  <2>1. UNCHANGED <<req[s], seen[s]>>
    <3>1. ASSUME NEW r \in Requests, Receive(r) PROVE UNCHANGED <<req[s], seen[s]>>
      <4>1. r # s
        BY <1>2, <3>1
      <4>2. \E q, y : /\ req' = [req EXCEPT ![r] = q]
                      /\ seen' = [seen EXCEPT ![r] = y]
        BY <3>1 DEF Receive
      <4> QED
        BY <4>1, <4>2 DEF TypeOK
    <3>2. CASE UNCHANGED <<req, seen>>
      BY <3>2
    <3> QED
      BY <3>1, <3>2, InputsStay
  <2>2. /\ Key(s)' = Key(s)
        /\ Trim[Key(s)] # Blank
        /\ GetPaymentByIdempotencyKey(Trim[Key(s)]) # {}
    BY <2>1 DEF Key, SeenStops
  <2>3. GetPaymentByIdempotencyKey(Trim[Key(s)])' # {}
    BY <2>2, KeyStays
  <2>4. ASSUME CleanKey(s) PROVE pc'[s] \in {"key", "done"} /\ s \notin charges'
    <3>1. /\ pc[s] \in {"key", "done"} /\ s \notin charges
          /\ GetPaymentByIdempotencyKey(Key(s)) # {}
      BY <2>1, <2>2, <2>4 DEF SeenStops, CleanKey
    <3>2. ASSUME NEW r \in Requests,
                 \/ FindByOrder(r) \/ Route(r) \/ Recover(r)
                 \/ CreatePaymentTooLong(r) \/ StatementFails(r) \/ Commit(r)
                 \/ CommitAnswerLost(r)
          PROVE  (pc'[s] = pc[s] \/ pc'[s] = "done") /\ charges' = charges
      BY <3>1, <3>2 DEF FindByOrder, Route, Recover, CreatePaymentTooLong,
           StatementFails, Commit, CommitAnswerLost, ReturnPayment,
           ReturnError, Return, Goto, TypeOK
    <3>3. ASSUME NEW r \in Requests,
                 \/ Begin(r) \/ CreatePayment(r) \/ CreatePaymentConflict(r)
                 \/ MarkProcessing(r) \/ CreateTransaction(r) \/ Settle(r)
                 \/ Charge(r)
          PROVE  pc'[s] = pc[s] /\ s \notin charges'
      BY <3>1, <3>3 DEF Begin, CreatePayment, CreatePaymentConflict,
           MarkProcessing, CreateTransaction, Settle, Charge, Goto, TypeOK
    <3>4. ASSUME NEW r \in Requests, FindByKey(r)
          PROVE  (pc'[s] = pc[s] \/ pc'[s] = "done") /\ charges' = charges
      BY <3>1, <3>4 DEF FindByKey, ReturnPayment, Return, Goto, TypeOK
    <3>5. ASSUME NEW r \in Requests, Receive(r)
          PROVE  pc'[s] = pc[s] /\ charges' = charges
      <4>1. r # s
        BY <1>2, <3>5
      <4>2. \E l : pc' = [pc EXCEPT ![r] = l]
        BY <3>5 DEF Receive, Goto
      <4> QED
        BY <3>5, <4>1, <4>2 DEF Receive, TypeOK
    <3>6. CASE Crash
      BY <3>1, <3>6 DEF Crash, InFlight, TypeOK
    <3>7. CASE UNCHANGED vars
      BY <3>1, <3>7 DEF vars
    <3> QED
      BY <3>1, <3>2, <3>3, <3>4, <3>5, <3>6, <3>7
         DEF Next, Serve, Fault, Finished
  <2> QED
    BY <2>2, <2>3, <2>4 DEF SeenStops, CleanKey
<1> QED
  BY <1>1, <1>2
-----------------------------------------------------------------------------
(* Theorems *)

IndInv == TypeOK /\ SettledAndAudited /\ KeyUnique /\ StepsConsistent

\* The inductive invariant holds in every reachable state.
THEOREM Inductive == Spec => []IndInv
<1>1. Init => IndInv
  <2> SUFFICES ASSUME Init PROVE IndInv
    OBVIOUS
  <2>1. TypeOK /\ \A r \in Requests : StepOK(r)
    BY TypeInit, StepInit
  <2>2. SettledAndAudited
    BY DEF Init, SettledAndAudited, Rows, NoRow
  <2>3. KeyUnique /\ OpenKeyUnique
    BY DEF Init, KeyUnique, OpenKeyUnique, NoRow
  <2>4. \A r \in Requests : SeenStops(r)
    BY DEF Init, SeenStops
  <2> QED
    BY <2>1, <2>2, <2>3, <2>4 DEF IndInv, StepsConsistent
<1>2. IndInv /\ [Next]_vars => IndInv'
  <2> SUFFICES ASSUME IndInv, [Next]_vars PROVE IndInv'
    OBVIOUS
  <2> USE DEF IndInv, StepsConsistent
  <2>1. TypeOK'
    BY TypeNext
  <2>2. \A r \in Requests : StepOK(r)'
    BY StepNext
  <2>3. SettledAndAudited'
    BY SettledNext
  <2>4. KeyUnique' /\ OpenKeyUnique'
    BY KeyNext
  <2>5. \A r \in Requests : SeenStops(r)'
    BY SeenNext
  <2> QED
    BY <2>1, <2>2, <2>3, <2>4, <2>5
<1> QED
  BY <1>1, <1>2, PTL DEF Spec

\* No crash, failed statement, lost COMMIT answer or interleaving leaves a
\* payment of persistProcessedPayment half done or without its audit row.
THEOREM SettledAndAuditedHolds == Spec => []SettledAndAudited
BY Inductive, PTL DEF IndInv

\* The unique index and the wait for uncommitted inserts give one committed
\* payment per idempotency key, however many duplicates race.
THEOREM KeyUniqueHolds == Spec => []KeyUnique
BY Inductive, PTL DEF IndInv

\* A duplicate that arrives after the payment of its key was committed never
\* moves money, if its key has no surrounding white space.
THEOREM DuplicateNeverChargesHolds == Spec => []DuplicateNeverCharges
<1>1. IndInv => DuplicateNeverCharges
  BY DEF IndInv, StepsConsistent, SeenStops, DuplicateNeverCharges
<1> QED
  BY <1>1, Inductive, PTL
-----------------------------------------------------------------------------
(* PaymentService implements Ledger *)

\* A request that is served was sent by a client and has a positive amount.
Validated(r) ==
  pc[r] \notin {"idle", "done"} => req[r] \in Inputs /\ req[r].amount > 0

\* Only Receive lets a request in, and it validates the request first.
LEMMA ValidatedNext ==
  ASSUME TypeOK, \A r \in Requests : Validated(r), [Next]_vars
  PROVE  \A r \in Requests : Validated(r)'
<1> SUFFICES ASSUME NEW s \in Requests PROVE Validated(s)'
  OBVIOUS
<1>1. ASSUME NEW r \in Requests, Receive(r) PROVE Validated(s)'
  <2>1. PICK q \in Inputs :
          /\ req' = [req EXCEPT ![r] = q]
          /\ \/ pc' = [pc EXCEPT ![r] = "done"]
             \/ q.amount > 0 /\ \E l : pc' = [pc EXCEPT ![r] = l]
    BY <1>1 DEF Receive, Goto, validateProcessPaymentRequest
  <2> QED
    BY <2>1 DEF Validated, TypeOK
<1>2. ASSUME NEW r \in Requests, Serve(r) \/ Fault(r)
      PROVE  req' = req /\ pc[r] \notin {"idle", "done"}
             /\ \E l : pc' = [pc EXCEPT ![r] = l]
  BY <1>2 DEF Serve, Fault, FindByKey, FindByOrder, Route, Charge, Begin,
       CreatePayment, CreatePaymentConflict, CreatePaymentTooLong,
       MarkProcessing, CreateTransaction, Settle, Commit, Recover,
       StatementFails, CommitAnswerLost, ReturnPayment, ReturnError, Return,
       Goto, memory, DbPcs, InTxPcs
<1>3. ASSUME NEW r \in Requests, Serve(r) \/ Fault(r) PROVE Validated(s)'
  <2>1. PICK l : pc' = [pc EXCEPT ![r] = l]
    BY <1>2, <1>3
  <2> QED
    BY <1>2, <1>3, <2>1 DEF Validated, TypeOK
<1>4. CASE Crash
  BY <1>4 DEF Crash, InFlight, Validated, TypeOK
<1>5. CASE UNCHANGED vars
  BY <1>5 DEF vars, Validated
<1> QED
  BY <1>1, <1>3, <1>4, <1>5 DEF Next, Finished

\* The ledger starts without accounts.
LEMMA LedgerInit == Init => Book!Init
BY DEF Init, Book!Init, Book!NoAccount, Account, NoRow

\* A step of the service is a payment of the ledger or nothing: only a COMMIT
\* changes the table, it writes the settled row of its own request, and that had
\* no row before.
LEMMA LedgerNext ==
  ASSUME TypeOK, \A r \in Requests : StepOK(r),
         \A r \in Requests : Validated(r), [Next]_vars
  PROVE  [Book!Next]_([p \in Requests |-> Account(p)])
<1>1. CASE UNCHANGED database
  BY <1>1 DEF database, Account
<1>2. ASSUME NEW r \in Requests, pc[r] = "commit", Committed(r)
      PROVE  Book!Next
  <2> DEFINE status == IF result[r] = "ok" THEN "COMPLETED" ELSE "FAILED"
             amount == req[r].amount
             book == [p \in Requests |-> Account(p)]
  <2>1. /\ payments[r] = NoRow
        /\ txRow[r].status = status
        /\ txRow[r].amount = amount
    BY <1>2 DEF StepOK, TypeOK, DraftPcs, WrittenPcs, InTxPcs
  <2>2. req[r] \in Inputs /\ amount > 0
    BY <1>2 DEF Validated
  <2>3. book[r] = Book!NoAccount
    BY <2>1 DEF Account, NoRow, Book!NoAccount
  <2>4. payments' = [payments EXCEPT ![r] = txRow[r]]
    BY <1>2 DEF Committed
  <2>5. [p \in Requests |-> Account(p)]' =
          [book EXCEPT ![r] = Book!Settled(status, amount)]
    BY <2>1, <2>4 DEF Account, Book!Settled, TypeOK
  <2>6. status \in Book!PaidOrFailed
    BY DEF Book!PaidOrFailed
  <2>7. Book!Pay(r, amount)
    BY <2>2, <2>3, <2>5, <2>6 DEF Book!Pay
  <2>8. amount \in {q.amount : q \in Inputs}
    BY <2>2
  <2> QED
    BY <2>7, <2>8 DEF Book!Next
<1> QED
  BY <1>1, <1>2, DatabaseNext

\* For any number of racing requests, keys, gateways, failing statements, lost
\* answers and crashes, all that ProcessPayment does to the committed payments is
\* to add settled ones, each once.
THEOREM PaymentsImplementLedger == Spec => ImplementsLedger
<1>1. Init => \A r \in Requests : Validated(r)
  BY DEF Init, Validated
<1>2. TypeOK /\ (\A r \in Requests : Validated(r)) /\ [Next]_vars
        => (\A r \in Requests : Validated(r))'
  BY ValidatedNext
<1>3. IndInv /\ (\A r \in Requests : Validated(r)) /\ [Next]_vars
        => [Book!Next]_([p \in Requests |-> Account(p)])
  BY LedgerNext DEF IndInv, StepsConsistent
<1>4. IndInv => TypeOK
  BY DEF IndInv
<1> QED
  BY <1>1, <1>2, <1>3, <1>4, LedgerInit, Inductive, PTL
     DEF Spec, ImplementsLedger, Book!Spec
=============================================================================
