------------------------- MODULE PaymentMoneyProofs -------------------------
(***************************************************************************)
(* Where the money is: theorems about PaymentService that relate the       *)
(* committed payments and the responses to what the gateways really moved. *)
(* They rest on the inductive invariant of PaymentServiceProofs and on     *)
(* MoneyInv below.                                                         *)
(***************************************************************************)
EXTENDS PaymentServiceProofs, FiniteSetTheorems

-----------------------------------------------------------------------------
(* The strengthening *)

\* The adapter a request is routed to, its key, and its amount in cents.
Gw(r) == GetGatewayOrDefault(req[r].gateway)
TheKey(r) == Trim[Key(r)]
Cents(r) == MinorUnits(req[r].amount)

\* A committed payment records what its request asked for, and an amount its
\* column can hold.
RowOK(p) ==
  p \in Rows(payments) =>
    /\ payments[p].key = TheKey(p)
    /\ payments[p].order = req[p].order
    /\ payments[p].amount = req[p].amount
    /\ payments[p].gateway = Gw(p)
    /\ req[p].amount > 0
    /\ req[p].amount <= MaxAmount

\* Stripe executed another call with the key and the amount of r.
Replayed(r) ==
  /\ TheKey(r) # Blank
  /\ \E m \in stripeMemo : m.paid /\ m.key = TheKey(r) /\ m.amount = Cents(r)

\* What a gateway's "success" stands for.
GotMoney(r) ==
  \/ Gw(r) = "mock" /\ r \in charges
  \/ Gw(r) = "stripe" /\ (r \in charges \/ Replayed(r))

\* What the gateway call of r and its answer mean, wherever r stands.
ChargeOK(r) ==
  /\ r \in charges =>
       \/ Gw(r) = "mock" /\ taken[r] = req[r].amount
       \/ Gw(r) = "stripe" /\ taken[r] = Cents(r) * UnitsPerCent
  /\ pc[r] \in {"begin", "recover"} \cup InTxPcs =>
       /\ result[r] = "ok" => GotMoney(r)
       /\ result[r] # "ok" /\ r \in charges => Gw(r) = "stripe"
  /\ payments[r].status = "COMPLETED" => GotMoney(r)
  /\ payments[r].status = "FAILED" /\ r \in charges => Gw(r) = "stripe"

\* What the guards on the way have checked.
GuardOK(r) ==
  /\ pc[r] \in WrittenPcs => Fits(draft[r])
  /\ pc[r] \in {"key", "recover"} => TheKey(r) # Blank

\* Stripe remembers the key of every charge, and a charge for every key it
\* remembers as paid.
MemoOK ==
  /\ \A m \in stripeMemo : m.paid =>
       \E c \in charges : /\ Gw(c) = "stripe"
                          /\ TheKey(c) = m.key
                          /\ taken[c] = m.amount * UnitsPerCent
  /\ \A c \in charges : Gw(c) = "stripe" /\ TheKey(c) # Blank =>
       \E m \in stripeMemo : m.key = TheKey(c)
  /\ StripeKeyChargedOnce

\* What the response of r says of the committed payment it names, and of the
\* money that moved for r.
ReplyOK(r) ==
  /\ pc[r] # "done" => reply[r].code = "none"
  /\ Answered(r) =>
       LET p == reply[r].payment IN
       /\ p \in Rows(payments)
       /\ (reply[r].code = "201") <=> (payments[p].status = "COMPLETED")
       /\ \/ payments[p].key # Blank /\ payments[p].key = TheKey(r)
          \/ payments[p].order = req[r].order
  /\ r \in charges /\ pc[r] = "done" =>
       \/ reply[r].code \in {"500", "dropped"}
       \/ /\ Answered(r)
          /\ \/ reply[r].payment = r
             \/ payments[reply[r].payment].key = TheKey(r)

MoneyInv ==
  /\ \A r \in Requests : Validated(r)
  /\ \A r \in Requests : RowOK(r)
  /\ \A r \in Requests : ChargeOK(r)
  /\ \A r \in Requests : GuardOK(r)
  /\ MemoOK
  /\ \A r \in Requests : ReplyOK(r)
-----------------------------------------------------------------------------
(* Amounts and answers *)

\* An amount that fits its column is sent to Stripe without wrapping around, as
\* the whole cents in it.
LEMMA CentsOf ==
  ASSUME NEW amount \in Int, amount > 0, amount <= MaxAmount
  PROVE  amount - MinorUnits(amount) * UnitsPerCent \in 0 .. (UnitsPerCent - 1)
<1> DEFINE cents == amount \div UnitsPerCent
           most == MaxAmount \div UnitsPerCent
<1>0. UnitsPerCent \in Nat /\ UnitsPerCent > 0 /\ Word \in Nat /\ Word > 0
  BY GatewayAssumption
<1>1. /\ cents \in Int
      /\ cents * UnitsPerCent <= amount
      /\ amount < cents * UnitsPerCent + UnitsPerCent
  BY <1>0
<1>2. /\ most \in Int /\ MaxAmount \in Int
      /\ most * UnitsPerCent <= MaxAmount
      /\ MaxAmount < most * UnitsPerCent + UnitsPerCent
      /\ most < Word \div 2
  BY <1>0, ServiceAssumption
<1>3. cents >= 0 /\ cents <= most
  <2> HIDE DEF cents, most
  <2>1. cents * UnitsPerCent < (most + 1) * UnitsPerCent
    BY <1>0, <1>1, <1>2
  <2>2. cents < most + 1
    BY <1>0, <1>1, <1>2, <2>1
  <2>3. 0 < (cents + 1) * UnitsPerCent
    BY <1>0, <1>1
  <2>4. 0 < cents + 1
    BY <1>0, <1>1, <2>3
  <2> QED
    BY <1>1, <1>2, <2>2, <2>4
<1>4. cents % Word = cents /\ cents < Word \div 2
  <2> HIDE DEF cents, most
  <2>1. cents < Word \div 2 /\ Word \div 2 <= Word
    BY <1>0, <1>1, <1>2, <1>3
  <2> QED
    BY <1>0, <1>1, <1>3, <2>1
<1>5. MinorUnits(amount) = cents
  BY <1>4 DEF MinorUnits, IntPart
<1> QED
  <2> HIDE DEF cents, most
  <2> QED
    BY <1>0, <1>1, <1>5

\* What an adapter's answer can be: nothing happened; the mock took the amount;
\* Stripe executed the call, and remembers a key it was given for the first time;
\* or Stripe replayed the success of an earlier call with the key.
LEMMA AnswerMeans ==
  ASSUME NEW gateway \in Adapters, NEW key, NEW amount \in Int, NEW memo,
         NEW a \in ProcessPayment(gateway, key, amount, memo)
  PROVE  \/ /\ ~a.success /\ a.moved = 0
            /\ \A m \in a.memo : ~m.paid
         \/ /\ gateway = "mock" /\ a.success /\ a.moved = amount
            /\ a.memo = {}
         \/ /\ gateway = "stripe" /\ MinorUnits(amount) > 0
            /\ a.moved = MinorUnits(amount) * UnitsPerCent
            /\ \/ Trim[key] = Blank /\ a.memo = {}
               \/ /\ \A m \in memo : m.key # Trim[key]
                  /\ a.memo = {[key |-> Trim[key], amount |-> MinorUnits(amount),
                                paid |-> TRUE]}
         \/ /\ gateway = "stripe" /\ a.success /\ a.moved = 0
            /\ a.memo = {} /\ Trim[key] # Blank
            /\ \E m \in memo : /\ m.key = Trim[key] /\ m.paid
                               /\ m.amount = MinorUnits(amount)
<1> DEFINE k == Trim[key]
           cents == MinorUnits(amount)
           prior == {m \in memo : m.key = k}
           fresh == {[key |-> k, amount |-> cents, paid |-> b] : b \in BOOLEAN}
<1>1. CASE a = Declined
  BY <1>1 DEF Declined
<1>2. CASE gateway = "mock"
  BY <1>1, <1>2 DEF ProcessPayment, MockProcessPayment, Charged
<1>3. CASE gateway = "paypal"
  BY <1>1, <1>3 DEF ProcessPayment, PayPalProcessPayment
<1>4. CASE gateway = "stripe"
  <2>0. cents \in Int
    BY MinorUnitsType
  <2>1. a \in StripeProcessPayment(key, amount, memo)
    BY <1>4 DEF ProcessPayment
  <2>2. \/ a = Declined
        \/ cents > 0 /\ k = Blank /\ a \in StripeExecutes(cents, {})
        \/ /\ cents > 0 /\ k # Blank /\ prior = {}
           /\ a \in StripeExecutes(cents, fresh)
        \/ /\ k # Blank
           /\ \E m \in prior : m.paid /\ m.amount = cents
           /\ a = [success |-> TRUE, moved |-> 0, memo |-> {}]
    BY <2>0, <2>1 DEF StripeProcessPayment
  <2>3. CASE cents > 0 /\ k = Blank /\ a \in StripeExecutes(cents, {})
    BY <1>4, <2>3 DEF StripeExecutes
  <2>4. CASE /\ cents > 0 /\ k # Blank /\ prior = {}
             /\ a \in StripeExecutes(cents, fresh)
    <3>1. \/ /\ a.moved = cents * UnitsPerCent
             /\ a.memo = {m \in fresh : m.paid}
          \/ /\ ~a.success /\ a.moved = 0
             /\ a.memo = {m \in fresh : ~m.paid}
      BY <2>4 DEF StripeExecutes
    <3>2. {m \in fresh : m.paid} = {[key |-> k, amount |-> cents, paid |-> TRUE]}
      <4>1. fresh = {[key |-> k, amount |-> cents, paid |-> TRUE],
                     [key |-> k, amount |-> cents, paid |-> FALSE]}
        OBVIOUS
      <4> HIDE DEF fresh
      <4> QED
        BY <4>1
    <3> QED
      BY <1>4, <2>4, <3>1, <3>2
  <2>5. CASE /\ k # Blank
             /\ \E m \in prior : m.paid /\ m.amount = cents
             /\ a = [success |-> TRUE, moved |-> 0, memo |-> {}]
    BY <1>4, <2>5
  <2> QED
    BY <1>1, <2>2, <2>3, <2>4, <2>5
<1> QED
  BY <1>2, <1>3, <1>4 DEF Adapters

-----------------------------------------------------------------------------
(* What a step leaves alone *)

\* What one request does changes no other request.
LEMMA Frame ==
  ASSUME TypeOK, NEW r \in Requests, Receive(r) \/ Serve(r) \/ Fault(r),
         NEW s \in Requests, s # r
  PROVE  UNCHANGED <<pc[s], draft[s], result[s], reply[s], taken[s], req[s],
                     seen[s], payments[s]>>
<1> USE DEF database, provider, memory, tx
<1>1. ASSUME NEW code, NEW p, Return(r, code, p)
      PROVE  UNCHANGED <<pc[s], draft[s], result[s], reply[s]>>
  BY <1>1 DEF Return, Goto, TypeOK
<1>2. CASE Receive(r)
  <2>1. /\ \E q : req' = [req EXCEPT ![r] = q]
        /\ \E y : seen' = [seen EXCEPT ![r] = y]
        /\ \E l : pc' = [pc EXCEPT ![r] = l]
        /\ \/ UNCHANGED reply
           \/ \E x : reply' = [reply EXCEPT ![r] = x]
        /\ UNCHANGED <<payments, taken, draft, result>>
    BY <1>2 DEF Receive, Goto
  <2> QED
    BY <2>1 DEF TypeOK
<1>3. CASE FindByKey(r) \/ FindByOrder(r) \/ Recover(r) \/ StatementFails(r)
           \/ CreatePaymentTooLong(r)
  <2>1. UNCHANGED <<payments, taken, req, seen>>
    BY <1>3 DEF FindByKey, FindByOrder, Recover, StatementFails,
         CreatePaymentTooLong
  <2>2. \/ \E code, p : Return(r, code, p)
        \/ (\E l : pc' = [pc EXCEPT ![r] = l]) /\ UNCHANGED <<draft, result, reply>>
    BY <1>3 DEF FindByKey, FindByOrder, Recover, StatementFails,
         CreatePaymentTooLong, ReturnPayment, ReturnError, Goto
  <2> QED
    BY <1>1, <2>1, <2>2 DEF TypeOK
<1>4. CASE Route(r)
  <2>1. UNCHANGED <<payments, taken, req, seen>>
    BY <1>4 DEF Route
  <2>2. \/ \E code, p : Return(r, code, p)
        \/ /\ \E l : pc' = [pc EXCEPT ![r] = l]
           /\ \E d : draft' = [draft EXCEPT ![r] = d]
           /\ UNCHANGED <<result, reply>>
    BY <1>4 DEF Route, ReturnError, Goto
  <2> QED
    BY <1>1, <2>1, <2>2 DEF TypeOK
<1>5. CASE Charge(r)
  <2>1. /\ \E l : pc' = [pc EXCEPT ![r] = l]
        /\ \E x : result' = [result EXCEPT ![r] = x]
        /\ \E x : taken' = [taken EXCEPT ![r] = x]
        /\ UNCHANGED <<payments, draft, req, reply, seen>>
    BY <1>5 DEF Charge, Goto
  <2> QED
    BY <2>1 DEF TypeOK
<1>6. CASE \/ Begin(r) \/ CreatePayment(r) \/ CreatePaymentConflict(r)
           \/ CreateTransaction(r)
  BY <1>6 DEF Begin, CreatePayment, CreatePaymentConflict, CreateTransaction,
       Goto, TypeOK
<1>7. CASE MarkProcessing(r) \/ Settle(r)
  BY <1>7 DEF MarkProcessing, Settle, UpdatePayment, Goto, TypeOK
<1>8. CASE Commit(r) \/ CommitAnswerLost(r)
  <2>1. /\ UNCHANGED <<taken, req, seen>>
        /\ payments' = [payments EXCEPT ![r] = txRow[r]]
        /\ \E code, p : Return(r, code, p)
    BY <1>8 DEF Commit, CommitAnswerLost, Committed, ReturnPayment, ReturnError
  <2> QED
    BY <1>1, <2>1 DEF TypeOK
<1> QED
  BY <1>2, <1>3, <1>4, <1>5, <1>6, <1>7, <1>8 DEF Serve, Fault

\* The input and the history of a request that has arrived stay.
LEMMA ArrivedStays ==
  ASSUME TypeOK, [Next]_vars, NEW s \in Requests, pc[s] # "idle"
  PROVE  UNCHANGED <<req[s], seen[s], Key(s), TheKey(s), Gw(s), Cents(s)>>
<1>1. UNCHANGED <<req[s], seen[s]>>
  <2>1. ASSUME NEW r \in Requests, Receive(r) PROVE UNCHANGED <<req[s], seen[s]>>
    <3>1. r # s
      BY <2>1 DEF Receive
    <3> QED
      BY <2>1, <3>1, Frame
  <2> QED
    BY <2>1, InputsStay
<1> QED
  BY <1>1 DEF Key, TheKey, Gw, Cents

\* Only gateway calls move money or make Stripe remember something.
LEMMA ProviderNext ==
  ASSUME [Next]_vars
  PROVE  UNCHANGED provider \/ \E r \in Requests : Charge(r)
BY DEF Next, Serve, Fault, Finished, vars, provider, Receive, FindByKey,
       FindByOrder, Route, Begin, CreatePayment, CreatePaymentConflict,
       CreatePaymentTooLong, MarkProcessing, CreateTransaction, Settle, Commit,
       Recover, StatementFails, CommitAnswerLost, Crash

\* Money that moved stays moved, and what Stripe remembers it keeps.
LEMMA ProviderStays ==
  ASSUME TypeOK, \A r \in Requests : StepOK(r), [Next]_vars
  PROVE  /\ stripeMemo \subseteq stripeMemo'
         /\ \A c \in charges : c \in charges' /\ taken'[c] = taken[c]
<1>1. CASE UNCHANGED provider
  BY <1>1 DEF provider, charges
<1>2. ASSUME NEW r \in Requests, Charge(r)
      PROVE  /\ stripeMemo \subseteq stripeMemo'
             /\ \A c \in charges : c \in charges' /\ taken'[c] = taken[c]
  <2>1. \A c \in charges : c # r
    BY <1>2 DEF Charge, StepOK, ChargedPcs, InTxPcs
  <2>2. \A c \in charges : taken'[c] = taken[c] /\ c \in Requests
    BY <1>2, <2>1 DEF Charge, TypeOK, charges
  <2> QED
    BY <1>2, <2>2 DEF Charge, charges
<1> QED
  BY <1>1, <1>2, ProviderNext

\* A request whose gateway call moved money has arrived, as has one that has a row.
LEMMA ChargedArrived ==
  ASSUME \A r \in Requests : StepOK(r)
  PROVE  /\ \A c \in charges : pc[c] # "idle"
         /\ \A p \in Requests : p \in Rows(payments) => pc[p] = "done"
BY DEF StepOK, charges, ChargedPcs, InTxPcs, Rows
-----------------------------------------------------------------------------
(* The parts of MoneyInv *)

\* A committed payment keeps recording its request: COMMIT writes the draft that
\* was built from it, after the INSERT checked that it fits.
LEMMA RowNext ==
  ASSUME IndInv, MoneyInv, [Next]_vars
  PROVE  \A p \in Requests : RowOK(p)'
<1> USE DEF IndInv, StepsConsistent
<1> SUFFICES ASSUME NEW p \in Requests, p \in Rows(payments)' PROVE RowOK(p)'
  BY DEF RowOK
<1>1. CASE p \in Rows(payments)
  <2>1. payments'[p] = payments[p] /\ pc[p] # "idle"
    BY <1>1, RowsStay, ChargedArrived
  <2>2. UNCHANGED <<req[p], TheKey(p), Gw(p)>>
    BY <2>1, ArrivedStays
  <2> QED
    BY <1>1, <2>1, <2>2 DEF MoneyInv, RowOK
<1>2. CASE p \notin Rows(payments)
  <2>1. ASSUME UNCHANGED database PROVE FALSE
    BY <1>2, <2>1 DEF database, Rows
  <2>2. PICK r \in Requests : pc[r] = "commit" /\ Committed(r)
    BY <2>1, DatabaseNext
  <2>3. payments' = [payments EXCEPT ![r] = txRow[r]]
    BY <2>2 DEF Committed
  <2>4. p = r
    BY <1>2, <2>3 DEF Rows, TypeOK
  <2>5. payments'[p] = draft[p]
    BY <2>2, <2>3, <2>4 DEF StepOK, WrittenPcs, TypeOK
  <2>6. /\ draft[p].key = TheKey(p)
        /\ draft[p].order = req[p].order
        /\ draft[p].amount = req[p].amount
        /\ draft[p].gateway = Gw(p)
    BY <2>2, <2>4 DEF StepOK, DraftPcs, InTxPcs, TheKey, Gw
  <2>7. Fits(draft[p]) /\ req[p].amount > 0
    BY <2>2, <2>4 DEF MoneyInv, GuardOK, Validated, WrittenPcs
  <2>8. UNCHANGED <<req[p], TheKey(p), Gw(p)>>
    BY <2>2, <2>4, ArrivedStays
  <2> QED
    BY <2>5, <2>6, <2>7, <2>8 DEF RowOK, Fits
<1> QED
  BY <1>1, <1>2

\* A step is one request's, a crash, or nothing.
LEMMA WhoSteps ==
  ASSUME [Next]_vars
  PROVE  \/ \E r \in Requests : Receive(r) \/ Serve(r) \/ Fault(r)
         \/ Crash
         \/ UNCHANGED vars
BY DEF Next, Finished

\* The points a request comes from when it gets somewhere by its own step.
LEMMA OwnStep ==
  ASSUME TypeOK, NEW r \in Requests, Receive(r) \/ Serve(r) \/ Fault(r),
         pc'[r] # "done"
  PROVE  \/ /\ Receive(r) /\ pc'[r] \in {"key", "order"}
            /\ pc'[r] = "key" => TheKey(r)' # Blank
         \/ FindByKey(r) /\ pc'[r] = "order"
         \/ FindByOrder(r) /\ pc'[r] = "route"
         \/ Route(r) /\ pc'[r] = "charge"
         \/ Charge(r) /\ pc'[r] = "begin"
         \/ Begin(r) /\ pc'[r] = "insert"
         \/ CreatePayment(r) /\ pc'[r] = "processing"
         \/ CreatePaymentConflict(r) /\ pc'[r] = "recover"
         \/ MarkProcessing(r) /\ pc'[r] = "audit"
         \/ CreateTransaction(r) /\ pc'[r] = "settle"
         \/ Settle(r) /\ pc'[r] = "commit"
<1>1. ASSUME NEW code, NEW p, Return(r, code, p) PROVE FALSE
  BY <1>1 DEF Return, Goto, TypeOK
<1>2. ASSUME Receive(r)
      PROVE pc'[r] \in {"key", "order"} /\ (pc'[r] = "key" => TheKey(r)' # Blank)
  <2>1. PICK q \in Inputs :
          /\ req' = [req EXCEPT ![r] = q]
          /\ \/ pc' = [pc EXCEPT ![r] = "done"]
             \/ pc' = [pc EXCEPT ![r] = IF Trim[EffectiveKey(q)] = Blank
                                        THEN "order" ELSE "key"]
    BY <1>2 DEF Receive, Goto
  <2>2. TheKey(r)' = Trim[EffectiveKey(q)]
    BY <2>1 DEF TheKey, Key, TypeOK
  <2> QED
    BY <2>1, <2>2 DEF TypeOK
<1>3. ASSUME FindByKey(r) PROVE pc'[r] = "order"
  BY <1>1, <1>3 DEF FindByKey, ReturnPayment, Goto, TypeOK
<1>4. ASSUME FindByOrder(r) PROVE pc'[r] = "route"
  BY <1>1, <1>4 DEF FindByOrder, ReturnPayment, Goto, TypeOK
<1>5. ASSUME Route(r) PROVE pc'[r] = "charge"
  BY <1>1, <1>5 DEF Route, ReturnError, Goto, TypeOK
<1>6. ASSUME \/ CreatePaymentTooLong(r) \/ Commit(r) \/ Recover(r) \/ Fault(r)
      PROVE FALSE
  BY <1>1, <1>6 DEF CreatePaymentTooLong, Commit, Recover, Fault, StatementFails,
       CommitAnswerLost, ReturnPayment, ReturnError
<1>7. /\ Charge(r) => pc'[r] = "begin"
      /\ Begin(r) => pc'[r] = "insert"
      /\ CreatePayment(r) => pc'[r] = "processing"
      /\ CreatePaymentConflict(r) => pc'[r] = "recover"
      /\ MarkProcessing(r) => pc'[r] = "audit"
      /\ CreateTransaction(r) => pc'[r] = "settle"
      /\ Settle(r) => pc'[r] = "commit"
  BY DEF Charge, Begin, CreatePayment, CreatePaymentConflict, MarkProcessing,
       CreateTransaction, Settle, Goto, TypeOK
<1> QED
  BY <1>2, <1>3, <1>4, <1>5, <1>6, <1>7 DEF Serve

\* What INSERT and the lookups checked stays true until it is used.
LEMMA GuardNext ==
  ASSUME IndInv, MoneyInv, [Next]_vars
  PROVE  \A r \in Requests : GuardOK(r)'
<1> USE DEF IndInv, StepsConsistent
<1> SUFFICES ASSUME NEW s \in Requests PROVE GuardOK(s)'
  OBVIOUS
<1>0. GuardOK(s) /\ StepOK(s)
  BY DEF MoneyInv
<1>1. CASE pc[s] # "idle" /\ UNCHANGED <<pc[s], draft[s]>>
  BY <1>0, <1>1, ArrivedStays DEF GuardOK, Fits
<1>2. CASE pc'[s] \in {"idle", "done"}
  BY <1>2 DEF GuardOK, WrittenPcs
<1>3. ASSUME Receive(s) \/ Serve(s) \/ Fault(s), pc'[s] # "done"
      PROVE  GuardOK(s)'
  <2>1. CASE pc'[s] = "key" /\ TheKey(s)' # Blank
    BY <2>1 DEF GuardOK, WrittenPcs
  <2>2. CASE CreatePaymentConflict(s) /\ pc'[s] = "recover"
    <3>1. draft[s].key = TheKey(s) /\ draft[s].key # Blank /\ pc[s] # "idle"
      BY <1>0, <2>2 DEF CreatePaymentConflict, KeyTaken, StepOK, DraftPcs, InTxPcs,
           TheKey
    <3> QED
      BY <2>2, <3>1, ArrivedStays DEF GuardOK, WrittenPcs
  <2>3. CASE CreatePayment(s) /\ pc'[s] = "processing"
    BY <2>3 DEF CreatePayment, memory, GuardOK, Fits
  <2>4. CASE CreateTransaction(s) /\ pc'[s] = "settle"
    BY <1>0, <2>4 DEF CreateTransaction, memory, GuardOK, Fits, WrittenPcs
  <2>5. CASE \/ MarkProcessing(s) /\ pc'[s] = "audit"
             \/ Settle(s) /\ pc'[s] = "commit"
    <3>1. PICK status : draft' = [draft EXCEPT ![s].status = status]
      BY <2>5 DEF MarkProcessing, Settle
    <3>2. draft[s] \in PaymentRow
      BY DEF TypeOK
    <3>3. draft'[s].key = draft[s].key /\ draft'[s].amount = draft[s].amount
      BY <3>1, <3>2 DEF TypeOK, PaymentRow
    <3>4. Fits(draft[s])
      BY <1>0, <2>5 DEF MarkProcessing, Settle, GuardOK, WrittenPcs
    <3> QED
      BY <2>5, <3>3, <3>4 DEF GuardOK, Fits
  <2>6. CASE pc'[s] \in {"order", "route", "charge", "begin", "insert"}
    BY <2>6 DEF GuardOK, WrittenPcs
  <2> QED
    BY <1>3, <2>1, <2>2, <2>3, <2>4, <2>5, <2>6, OwnStep
<1>4. ASSUME NEW r \in Requests, Receive(r) \/ Serve(r) \/ Fault(r), r # s
      PROVE  UNCHANGED <<pc[s], draft[s]>>
  BY <1>4, Frame
<1>5. ASSUME Crash PROVE pc'[s] \in {"idle", "done"}
  BY <1>5 DEF Crash, InFlight
<1>6. UNCHANGED vars => UNCHANGED <<pc[s], draft[s]>>
  BY DEF vars
<1> QED
  BY <1>1, <1>2, <1>3, <1>4, <1>5, <1>6, WhoSteps

\* A gateway's success stays one.
LEMMA GotStays ==
  ASSUME IndInv, [Next]_vars, NEW s \in Requests, pc[s] # "idle", GotMoney(s)
  PROVE  GotMoney(s)'
<1> USE DEF IndInv, StepsConsistent
<1>1. UNCHANGED <<TheKey(s), Gw(s), Cents(s)>>
  BY ArrivedStays
<1>2. s \in charges => s \in charges'
  BY ProviderStays
<1>3. Replayed(s) => Replayed(s)'
  BY <1>1, ProviderStays DEF Replayed
<1> QED
  BY <1>1, <1>2, <1>3 DEF GotMoney

\* Only its own gateway call moves money for a request.
LEMMA OwnCharge ==
  ASSUME TypeOK, [Next]_vars, NEW s \in Requests, ~Charge(s)
  PROVE  taken'[s] = taken[s] /\ (s \in charges' <=> s \in charges)
<1>1. ASSUME NEW r \in Requests, Charge(r) PROVE taken'[s] = taken[s]
  BY <1>1, Frame DEF Serve
<1>2. taken'[s] = taken[s]
  BY <1>1, ProviderNext DEF provider
<1> QED
  BY <1>2 DEF charges

\* A gateway call, in the terms of the invariant.
LEMMA ChargeMeans ==
  ASSUME IndInv, MoneyInv, NEW r \in Requests, Charge(r)
  PROVE  /\ pc[r] = "charge" /\ pc'[r] = "begin" /\ r \notin charges
         /\ UNCHANGED <<req, payments>>
         /\ \A s \in Requests : s # r => taken'[s] = taken[s]
         /\ taken'[r] \in Int
         /\ \/ /\ result'[r] = "fail" /\ taken'[r] = 0
               /\ \E new : /\ stripeMemo' = stripeMemo \cup new
                           /\ \A m \in new : ~m.paid
            \/ /\ Gw(r) = "mock" /\ result'[r] = "ok"
               /\ taken'[r] = req[r].amount /\ taken'[r] > 0
               /\ stripeMemo' = stripeMemo
            \/ /\ Gw(r) = "stripe"
               /\ taken'[r] = Cents(r) * UnitsPerCent /\ taken'[r] > 0
               /\ \/ TheKey(r) = Blank /\ stripeMemo' = stripeMemo
                  \/ /\ \A m \in stripeMemo : m.key # TheKey(r)
                     /\ stripeMemo' = stripeMemo \cup
                          {[key |-> TheKey(r), amount |-> Cents(r), paid |-> TRUE]}
            \/ /\ Gw(r) = "stripe" /\ result'[r] = "ok" /\ taken'[r] = 0
               /\ stripeMemo' = stripeMemo /\ Replayed(r)
<1> USE DEF IndInv, StepsConsistent
<1>1. PICK a \in ProcessPayment(draft[r].gateway, Key(r), draft[r].amount,
                                stripeMemo) :
          /\ result' = [result EXCEPT ![r] = IF a.success THEN "ok" ELSE "fail"]
          /\ taken' = [taken EXCEPT ![r] = a.moved]
          /\ stripeMemo' = stripeMemo \cup a.memo
  BY DEF Charge
<1>2. /\ pc[r] = "charge" /\ pc' = [pc EXCEPT ![r] = "begin"]
      /\ UNCHANGED <<req, payments>>
  BY DEF Charge, Goto, database
<1>3. r \notin charges
  BY <1>2 DEF StepOK, ChargedPcs, InTxPcs
<1>4. /\ draft[r].gateway = Gw(r) /\ draft[r].amount = req[r].amount
      /\ Gw(r) \in Adapters /\ req[r].amount \in Int
  BY <1>2 DEF StepOK, DraftPcs, TypeOK, PaymentRow, RequestType, Gw, Adapters
<1>5. a \in ProcessPayment(Gw(r), Key(r), req[r].amount, stripeMemo)
  BY <1>4
<1>6. req[r].amount > 0
  BY <1>2 DEF MoneyInv, Validated
<1>7. /\ result'[r] = IF a.success THEN "ok" ELSE "fail"
      /\ taken'[r] = a.moved
      /\ \A s \in Requests : s # r => taken'[s] = taken[s]
  BY <1>1 DEF TypeOK
<1>8. a.moved \in Int
  <2>1. Key(r) \in Texts
    BY KeyType DEF Key, TypeOK
  <2> QED
    BY <1>4, <1>5, <2>1, AnswerType DEF Answer
<1>9. Cents(r) \in Int /\ (Cents(r) > 0 => Cents(r) * UnitsPerCent > 0)
  BY <1>4, MinorUnitsType, GatewayAssumption DEF Cents
<1>10. pc'[r] = "begin"
  BY <1>2 DEF TypeOK
<1>11. \/ /\ ~a.success /\ a.moved = 0 /\ \A m \in a.memo : ~m.paid
       \/ /\ Gw(r) = "mock" /\ a.success /\ a.moved = req[r].amount
          /\ a.memo = {}
       \/ /\ Gw(r) = "stripe" /\ Cents(r) > 0
          /\ a.moved = Cents(r) * UnitsPerCent
          /\ \/ TheKey(r) = Blank /\ a.memo = {}
             \/ /\ \A m \in stripeMemo : m.key # TheKey(r)
                /\ a.memo = {[key |-> TheKey(r), amount |-> Cents(r),
                              paid |-> TRUE]}
       \/ /\ Gw(r) = "stripe" /\ a.success /\ a.moved = 0
          /\ a.memo = {} /\ Replayed(r)
  BY <1>4, <1>5, AnswerMeans DEF Cents, TheKey, Replayed
<1> QED
  BY <1>1, <1>2, <1>3, <1>6, <1>7, <1>8, <1>9, <1>10, <1>11

\* What a gateway call meant is not forgotten on the way to COMMIT, and is what
\* the committed status says.
LEMMA ChargeNext ==
  ASSUME IndInv, MoneyInv, [Next]_vars
  PROVE  \A r \in Requests : ChargeOK(r)'
<1> USE DEF IndInv, StepsConsistent
<1> SUFFICES ASSUME NEW s \in Requests PROVE ChargeOK(s)'
  OBVIOUS
<1> DEFINE Paying == {"begin", "recover"} \cup InTxPcs
<1>0. ChargeOK(s) /\ StepOK(s)
  BY DEF MoneyInv
<1>1. CASE Charge(s)
  <2>1. UNCHANGED <<req, Gw(s), TheKey(s), Cents(s), payments>>
    BY <1>1, ChargeMeans DEF Gw, TheKey, Key, Cents
  <2>2. /\ payments[s].status \notin {"COMPLETED", "FAILED"}
        /\ s \in charges' <=> taken'[s] > 0
    BY <1>0, <1>1, ChargeMeans DEF StepOK, charges
  <2>3. Replayed(s) /\ stripeMemo' = stripeMemo => Replayed(s)'
    BY <2>1 DEF Replayed
  <2>4. /\ s \in charges' =>
             \/ Gw(s) = "mock" /\ taken'[s] = req[s].amount
             \/ Gw(s) = "stripe" /\ taken'[s] = Cents(s) * UnitsPerCent
        /\ result'[s] = "ok" =>
             \/ Gw(s) = "mock" /\ s \in charges'
             \/ Gw(s) = "stripe" /\ (s \in charges' \/ Replayed(s)')
        /\ result'[s] # "ok" /\ s \in charges' => Gw(s) = "stripe"
    BY <1>1, <2>2, <2>3, ChargeMeans
  <2> QED
    BY <2>1, <2>2, <2>4 DEF ChargeOK, GotMoney
<1>2. CASE ~Charge(s)
  <2>1. taken'[s] = taken[s] /\ (s \in charges' <=> s \in charges)
    BY <1>2, OwnCharge
  <2>2. s \in charges' =>
          \/ Gw(s)' = "mock" /\ taken'[s] = (req[s].amount)'
          \/ Gw(s)' = "stripe" /\ taken'[s] = Cents(s)' * UnitsPerCent
    <3>1. ASSUME s \in charges'
          PROVE  s \in charges /\ UNCHANGED <<Gw(s), Cents(s), req[s]>>
      BY <2>1, <3>1, ChargedArrived, ArrivedStays
    <3> QED
      BY <1>0, <2>1, <3>1 DEF ChargeOK
  <2>3. ASSUME pc'[s] \in Paying
        PROVE  /\ pc[s] \in Paying
               /\ result'[s] = result[s]
    <3>1. ASSUME Receive(s) \/ Serve(s) \/ Fault(s)
          PROVE  pc[s] \in Paying /\ result'[s] = result[s]
      <4>1. pc'[s] # "done"
        BY <2>3 DEF InTxPcs
      <4>2. \/ Begin(s) \/ CreatePayment(s) \/ CreatePaymentConflict(s)
            \/ MarkProcessing(s) \/ CreateTransaction(s) \/ Settle(s)
        BY <1>2, <2>3, <3>1, <4>1, OwnStep DEF InTxPcs
      <4> QED
        BY <4>2 DEF Begin, CreatePayment, CreatePaymentConflict, MarkProcessing,
             CreateTransaction, Settle, InTxPcs, memory
    <3>2. ASSUME NEW r \in Requests, Receive(r) \/ Serve(r) \/ Fault(r), r # s
          PROVE  UNCHANGED <<pc[s], result[s]>>
      BY <3>2, Frame
    <3>3. ASSUME Crash PROVE FALSE
      BY <2>3, <3>3 DEF Crash, InFlight, InTxPcs
    <3>4. UNCHANGED vars => UNCHANGED <<pc[s], result[s]>>
      BY DEF vars
    <3> QED
      BY <2>3, <3>1, <3>2, <3>3, <3>4, WhoSteps
  <2>4. ASSUME pc'[s] \in Paying
        PROVE  /\ result'[s] = "ok" => GotMoney(s)'
               /\ result'[s] # "ok" /\ s \in charges' => Gw(s)' = "stripe"
    <3>1. pc[s] # "idle" /\ pc[s] \in Paying /\ result'[s] = result[s]
      BY <2>3, <2>4 DEF InTxPcs
    <3>2. UNCHANGED Gw(s)
      BY <3>1, ArrivedStays
    <3> QED
      BY <1>0, <2>1, <3>1, <3>2, GotStays DEF ChargeOK
  <2>5. ASSUME payments'[s].status \in {"COMPLETED", "FAILED"}
        PROVE  /\ payments'[s].status = "COMPLETED" => GotMoney(s)'
               /\ payments'[s].status = "FAILED" /\ s \in charges'
                    => Gw(s)' = "stripe"
    <3>1. CASE s \in Rows(payments)
      <4>1. payments'[s] = payments[s] /\ pc[s] # "idle"
        BY <3>1, RowsStay, ChargedArrived
      <4>2. UNCHANGED Gw(s)
        BY <4>1, ArrivedStays
      <4> QED
        BY <1>0, <2>1, <4>1, <4>2, GotStays DEF ChargeOK
    <3>2. CASE s \notin Rows(payments)
      <4>1. payments[s].status = "absent"
        BY <3>2 DEF Rows, TypeOK
      <4>2. PICK r \in Requests : pc[r] = "commit" /\ Committed(r)
        BY <2>5, <4>1, DatabaseNext DEF database
      <4>3. r = s
        BY <2>5, <4>1, <4>2 DEF Committed, TypeOK
      <4>4. payments'[s].status = IF result[s] = "ok" THEN "COMPLETED" ELSE "FAILED"
        BY <1>0, <4>2, <4>3 DEF Committed, StepOK, WrittenPcs, TypeOK
      <4>5. pc[s] \in Paying /\ pc[s] # "idle"
        BY <4>2, <4>3 DEF InTxPcs
      <4>6. UNCHANGED Gw(s)
        BY <4>5, ArrivedStays
      <4> QED
        BY <1>0, <2>1, <4>4, <4>5, <4>6, GotStays DEF ChargeOK
    <3> QED
      BY <3>1, <3>2
  <2> QED
    BY <2>2, <2>4, <2>5 DEF ChargeOK
<1> QED
  BY <1>1, <1>2

\* Stripe keeps one charge per key: it executes a call with a key only if it
\* remembers none with that key, and remembers the call when it does.
LEMMA MemoNext ==
  ASSUME IndInv, MoneyInv, [Next]_vars
  PROVE  MemoOK'
<1> USE DEF IndInv, StepsConsistent
<1>0. MemoOK
  BY DEF MoneyInv
<1>1. \A c \in charges : /\ c \in charges' /\ taken'[c] = taken[c]
                         /\ UNCHANGED <<Gw(c), TheKey(c)>>
  <2>1. \A c \in charges : c \in Requests /\ pc[c] # "idle"
    BY ChargedArrived DEF charges
  <2> QED
    BY <2>1, ArrivedStays, ProviderStays
<1>2. CASE UNCHANGED provider
  <2>1. charges' = charges /\ stripeMemo' = stripeMemo
    BY <1>2 DEF provider, charges
  <2>2. StripeKeyChargedOnce'
    <3> SUFFICES ASSUME NEW r \in charges, NEW s \in charges,
                        SameKey(r, s)', Gw(r)' = "stripe", Gw(s)' = "stripe"
                 PROVE  r = s
      BY <2>1 DEF StripeKeyChargedOnce, Gw
    <3>1. SameKey(r, s) /\ Gw(r) = "stripe" /\ Gw(s) = "stripe"
      BY <1>1 DEF SameKey, TheKey
    <3> QED
      BY <1>0, <3>1 DEF MemoOK, StripeKeyChargedOnce, Gw
  <2> QED
    BY <1>0, <1>1, <2>1, <2>2 DEF MemoOK
<1>3. ASSUME NEW r \in Requests, Charge(r) PROVE MemoOK'
  <2>1. UNCHANGED <<Gw(r), TheKey(r), Cents(r)>>
    BY <1>3, ChargeMeans DEF Gw, TheKey, Key, Cents
  <2>2. \A c \in charges' : c = r \/ c \in charges
    BY <1>3, ChargeMeans DEF charges
  <2>3. stripeMemo \subseteq stripeMemo'
    BY ProviderStays
  <2>4. ASSUME NEW m \in stripeMemo', m.paid
        PROVE  \E c \in charges' : /\ Gw(c)' = "stripe" /\ TheKey(c)' = m.key
                                   /\ taken'[c] = m.amount * UnitsPerCent
    <3>1. CASE m \in stripeMemo
      <4>1. PICK c \in charges : /\ Gw(c) = "stripe" /\ TheKey(c) = m.key
                                 /\ taken[c] = m.amount * UnitsPerCent
        BY <1>0, <2>4, <3>1 DEF MemoOK
      <4> QED
        BY <1>1, <4>1
    <3>2. CASE m \notin stripeMemo
      <4>1. /\ Gw(r) = "stripe" /\ taken'[r] = Cents(r) * UnitsPerCent
            /\ taken'[r] > 0
            /\ m = [key |-> TheKey(r), amount |-> Cents(r), paid |-> TRUE]
        BY <1>3, <2>4, <3>2, ChargeMeans
      <4>2. r \in charges'
        BY <4>1 DEF charges
      <4>3. m.key = TheKey(r) /\ m.amount = Cents(r)
        BY <4>1
      <4> QED
        BY <2>1, <4>1, <4>2, <4>3
    <3> QED
      BY <3>1, <3>2
  <2>5. ASSUME NEW c \in charges', Gw(c)' = "stripe", TheKey(c)' # Blank
        PROVE  \E m \in stripeMemo' : m.key = TheKey(c)'
    <3>1. CASE c \in charges
      BY <1>0, <1>1, <2>3, <2>5, <3>1 DEF MemoOK
    <3>2. CASE c = r
      <4>1. taken'[r] > 0
        BY <2>5, <3>2 DEF charges
      <4>2. Gw(r) = "stripe" /\ TheKey(r) # Blank
        BY <2>1, <2>5, <3>2
      <4>3. [key |-> TheKey(r), amount |-> Cents(r), paid |-> TRUE] \in stripeMemo'
        BY <1>3, <4>1, <4>2, ChargeMeans
      <4>4. [key |-> TheKey(r), amount |-> Cents(r), paid |-> TRUE].key = TheKey(r)
        OBVIOUS
      <4> QED
        BY <2>1, <3>2, <4>3, <4>4
    <3> QED
      BY <2>2, <3>1, <3>2
  <2>6. ASSUME NEW c \in charges, SameKey(c, r), Gw(c) = "stripe", Gw(r) = "stripe",
               r \in charges'
        PROVE  FALSE
    <3>1. TheKey(c) = TheKey(r) /\ TheKey(c) # Blank
      BY <2>6 DEF SameKey, TheKey
    <3>2. \E m \in stripeMemo : m.key = TheKey(r)
      BY <1>0, <2>6, <3>1 DEF MemoOK
    <3>3. taken'[r] > 0
      BY <2>6 DEF charges
    <3> QED
      BY <1>3, <2>6, <3>1, <3>2, <3>3, ChargeMeans
  <2>7. StripeKeyChargedOnce'
    <3> SUFFICES ASSUME NEW c \in charges', NEW d \in charges', c # d,
                        SameKey(c, d)', Gw(c)' = "stripe", Gw(d)' = "stripe"
                 PROVE  FALSE
      BY DEF StripeKeyChargedOnce, Gw
    <3>1. /\ SameKey(c, d) /\ SameKey(d, c)
          /\ Gw(c) = "stripe" /\ Gw(d) = "stripe"
      BY <1>1, <2>1, <2>2 DEF SameKey, TheKey
    <3>2. CASE c \in charges /\ d \in charges
      BY <1>0, <3>1, <3>2 DEF MemoOK, StripeKeyChargedOnce, Gw
    <3> QED
      BY <2>2, <2>6, <3>1, <3>2
  <2> QED
    BY <2>4, <2>5, <2>7 DEF MemoOK
<1> QED
  BY <1>2, <1>3, ProviderNext

\* A response that is an error names no payment.
LEMMA ErrorReply ==
  ASSUME TypeOK, NEW s \in Requests, pc'[s] = "done",
         reply'[s].code \in {"400", "500", "dropped"},
         s \in charges' => reply'[s].code \in {"500", "dropped"}
  PROVE  ReplyOK(s)'
BY DEF ReplyOK, Answered

\* A response that names a committed payment of the request's key, or of its
\* order if no money moved for the request, is sound.
LEMMA PaymentReply ==
  ASSUME TypeOK, NEW s \in Requests, NEW p \in Rows(payments)', pc'[s] = "done",
         reply'[s] = [code |-> StatusCode(payments'[p].status), payment |-> p],
         \/ TheKey(s)' # Blank /\ payments'[p].key = TheKey(s)'
         \/ /\ payments'[p].order = (req[s].order)'
            /\ s \in charges' => p = s
  PROVE  ReplyOK(s)'
<1>1. /\ reply'[s].payment = p
      /\ reply'[s].code = IF payments'[p].status = "COMPLETED" THEN "201" ELSE "202"
  BY DEF StatusCode
<1>2. /\ (reply'[s].code = "201") <=> (payments'[p].status = "COMPLETED")
      /\ Answered(s)'
  BY <1>1 DEF Answered
<1> QED
  BY <1>1, <1>2 DEF ReplyOK

\* Responses stay sound: rows do not change once committed, and each way to
\* return names a payment it just read or committed.
LEMMA ReplyNext ==
  ASSUME IndInv, MoneyInv, [Next]_vars
  PROVE  \A r \in Requests : ReplyOK(r)'
<1> USE DEF IndInv, StepsConsistent
<1> SUFFICES ASSUME NEW s \in Requests PROVE ReplyOK(s)'
  OBVIOUS
<1>0. ReplyOK(s) /\ GuardOK(s) /\ StepOK(s) /\ Rows(payments) \subseteq Requests
  BY DEF MoneyInv, Rows, TypeOK
<1>1. ASSUME UNCHANGED <<pc[s], reply[s]>> PROVE ReplyOK(s)'
  <2>1. CASE pc[s] # "done"
    BY <1>0, <1>1, <2>1 DEF ReplyOK, Answered
  <2>2. CASE pc[s] = "done"
    <3>1. UNCHANGED <<req[s], TheKey(s)>>
      BY <2>2, ArrivedStays
    <3>2. s \in charges' => s \in charges
      BY <2>2, OwnCharge DEF Charge
    <3>3. \A p \in Rows(payments) : p \in Rows(payments)' /\ payments'[p] = payments[p]
      BY RowsStay
    <3>4. Answered(s)' <=> Answered(s)
      BY <1>1 DEF Answered
    <3> QED
      BY <1>0, <1>1, <3>1, <3>2, <3>3, <3>4 DEF ReplyOK
  <2> QED
    BY <2>1, <2>2
<1>2. ASSUME Crash PROVE ReplyOK(s)'
  <2>1. CASE s \in InFlight
    <3>1. pc'[s] = "done" /\ reply'[s] = [code |-> "dropped", payment |-> None]
      BY <1>2, <2>1 DEF Crash
    <3> QED
      BY <3>1, ErrorReply
  <2>2. CASE s \notin InFlight
    BY <1>1, <1>2, <2>2 DEF Crash
  <2> QED
    BY <2>1, <2>2
<1>3. ASSUME Receive(s) \/ Serve(s) \/ Fault(s), pc'[s] # "done" PROVE ReplyOK(s)'
  <2>1. pc[s] # "done"
    BY <1>3, OwnStep DEF Receive, FindByKey, FindByOrder, Route, Charge, Begin,
         CreatePayment, CreatePaymentConflict, MarkProcessing, CreateTransaction,
         Settle
  <2>2. ASSUME NEW code, NEW p, Return(s, code, p) PROVE FALSE
    BY <1>3, <2>2 DEF Return, Goto, TypeOK
  <2>3. ASSUME Receive(s) PROVE reply' = reply
    BY <1>3, <2>3 DEF Receive, Goto, TypeOK
  <2>4. reply' = reply
    BY <1>3, <2>2, <2>3, OwnStep DEF FindByKey, FindByOrder, Route, Charge, Begin,
         CreatePayment, CreatePaymentConflict, MarkProcessing, CreateTransaction,
         Settle, ReturnPayment, ReturnError
  <2> QED
    BY <1>0, <1>3, <2>1, <2>4 DEF ReplyOK, Answered
<1>4. ASSUME NEW code, NEW p, Return(s, code, p)
      PROVE  pc'[s] = "done" /\ reply'[s] = [code |-> code, payment |-> p]
  BY <1>4 DEF Return, Goto, TypeOK
<1>5. ASSUME Receive(s), pc'[s] = "done" PROVE ReplyOK(s)'
  <2>1. reply' = [reply EXCEPT ![s] = [code |-> APIErrorFromErr("InvalidRequest"),
                                       payment |-> None]]
    BY <1>5 DEF Receive, Goto, TypeOK
  <2>2. reply'[s].code = "400"
    BY <2>1 DEF TypeOK, APIErrorFromErr
  <2>3. pc[s] = "idle" /\ ~Charge(s)
    BY <1>5 DEF Receive, Charge
  <2>4. s \notin charges'
    BY <2>3, OwnCharge, ChargedArrived
  <2> QED
    BY <1>5, <2>2, <2>4, ErrorReply
<1>6. ASSUME ReturnError(s, "Other") PROVE ReplyOK(s)'
  <2>1. pc'[s] = "done" /\ reply'[s] = [code |-> "500", payment |-> None]
    BY <1>4, <1>6 DEF ReturnError, APIErrorFromErr
  <2> QED
    BY <2>1, ErrorReply
<1>7. ASSUME NEW p \in GetPaymentByIdempotencyKey(Key(s)), pc[s] \in {"key", "recover"},
             ReturnPayment(s, p, payments[p])
      PROVE  ReplyOK(s)'
  <2>1. p \in Rows(payments) /\ payments[p].key = Key(s) /\ p \in Requests
    BY <1>0, <1>7 DEF GetPaymentByIdempotencyKey
  <2>2. payments[p].key = TheKey(s) /\ TheKey(s) # Blank
    <3>1. Key(p) \in Texts
      BY <2>1, KeyType DEF Key, TypeOK
    <3>2. payments[p].key = Trim[Key(p)]
      BY <2>1 DEF MoneyInv, RowOK, TheKey
    <3>3. Trim[Trim[Key(p)]] = Trim[Key(p)]
      BY <3>1, TrimAssumption
    <3> QED
      BY <1>0, <1>7, <2>1, <3>2, <3>3 DEF TheKey, GuardOK
  <2>3. p \in Rows(payments)' /\ payments'[p] = payments[p]
    BY <2>1, RowsStay
  <2>4. /\ pc'[s] = "done"
        /\ reply'[s] = [code |-> StatusCode(payments[p].status), payment |-> p]
    BY <1>4, <1>7 DEF ReturnPayment
  <2>5. TheKey(s)' = TheKey(s)
    BY <1>7, ArrivedStays
  <2> QED
    BY <2>2, <2>3, <2>4, <2>5, PaymentReply
<1>8. ASSUME FindByOrder(s), pc'[s] = "done" PROVE ReplyOK(s)'
  <2>1. PICK p \in GetPaymentByOrderID(req[s].order) :
          ReturnPayment(s, p, payments[p])
    BY <1>8 DEF FindByOrder, Goto, TypeOK
  <2>2. p \in Rows(payments) /\ payments[p].order = req[s].order
    BY <2>1 DEF GetPaymentByOrderID
  <2>3. p \in Rows(payments)' /\ payments'[p] = payments[p]
    BY <2>2, RowsStay
  <2>4. reply'[s] = [code |-> StatusCode(payments[p].status), payment |-> p]
    BY <1>4, <2>1 DEF ReturnPayment
  <2>5. pc[s] = "order" /\ UNCHANGED req
    BY <1>8 DEF FindByOrder
  <2>6. s \notin charges'
    BY <1>0, <2>5, OwnCharge DEF Charge, StepOK, ChargedPcs, InTxPcs
  <2> QED
    BY <1>8, <2>2, <2>3, <2>4, <2>5, <2>6, PaymentReply
<1>9. ASSUME Route(s), pc'[s] = "done" PROVE ReplyOK(s)'
  <2>1. ReturnError(s, "GatewayUnavailable")
    BY <1>9 DEF Route, Goto, TypeOK
  <2>2. reply'[s] = [code |-> "400", payment |-> None]
    BY <1>4, <2>1 DEF ReturnError, APIErrorFromErr
  <2>3. s \notin charges'
    BY <1>0, <1>9, OwnCharge DEF Route, Charge, StepOK, ChargedPcs, InTxPcs
  <2> QED
    BY <1>9, <2>2, <2>3, ErrorReply
<1>10. ASSUME Commit(s) PROVE ReplyOK(s)'
  <2>1. /\ pc[s] = "commit" /\ payments' = [payments EXCEPT ![s] = txRow[s]]
        /\ ReturnPayment(s, s, draft[s]) /\ req' = req
    BY <1>10 DEF Commit, Committed
  <2>2. /\ payments'[s] = draft[s] /\ draft[s].status # "absent"
        /\ draft[s].order = req[s].order
    BY <1>0, <2>1 DEF StepOK, WrittenPcs, DraftPcs, InTxPcs, TypeOK
  <2>3. s \in Rows(payments)'
    BY <2>1, <2>2 DEF Rows, TypeOK
  <2>4. /\ pc'[s] = "done"
        /\ reply'[s] = [code |-> StatusCode(draft[s].status), payment |-> s]
    BY <1>4, <2>1 DEF ReturnPayment
  <2> QED
    BY <2>1, <2>2, <2>3, <2>4, PaymentReply
<1>11. ASSUME Receive(s) \/ Serve(s) \/ Fault(s), pc'[s] = "done" PROVE ReplyOK(s)'
  <2>1. ASSUME \/ CreatePaymentTooLong(s) \/ Fault(s)
        PROVE  ReplyOK(s)'
    BY <1>6, <2>1 DEF CreatePaymentTooLong, Fault, StatementFails,
         CommitAnswerLost
  <2>2. ASSUME Recover(s) PROVE ReplyOK(s)'
    BY <1>6, <1>7, <2>2 DEF Recover
  <2>3. ASSUME FindByKey(s) PROVE ReplyOK(s)'
    BY <1>7, <1>11, <2>3 DEF FindByKey, Goto, TypeOK
  <2>4. /\ Charge(s) => pc'[s] = "begin"
        /\ Begin(s) => pc'[s] = "insert"
        /\ CreatePayment(s) => pc'[s] = "processing"
        /\ CreatePaymentConflict(s) => pc'[s] = "recover"
        /\ MarkProcessing(s) => pc'[s] = "audit"
        /\ CreateTransaction(s) => pc'[s] = "settle"
        /\ Settle(s) => pc'[s] = "commit"
    BY DEF Charge, Begin, CreatePayment, CreatePaymentConflict, MarkProcessing,
         CreateTransaction, Settle, Goto, TypeOK
  <2> QED
    BY <1>5, <1>8, <1>9, <1>10, <1>11, <2>1, <2>2, <2>3, <2>4 DEF Serve
<1>12. ASSUME NEW r \in Requests, Receive(r) \/ Serve(r) \/ Fault(r), r # s
       PROVE  ReplyOK(s)'
  <2>1. UNCHANGED <<pc[s], reply[s]>>
    BY <1>12, Frame
  <2> QED
    BY <1>1, <2>1
<1>13. ASSUME UNCHANGED vars PROVE ReplyOK(s)'
  BY <1>1, <1>13 DEF vars
<1> QED
  BY <1>2, <1>3, <1>11, <1>12, <1>13, WhoSteps
-----------------------------------------------------------------------------
(* Theorems *)

\* MoneyInv holds in every reachable state.
THEOREM MoneyInductive == Spec => [](IndInv /\ MoneyInv)
<1>1. Init => MoneyInv
  <2> SUFFICES ASSUME Init PROVE MoneyInv
    OBVIOUS
  <2>1. /\ charges = {} /\ Rows(payments) = {} /\ stripeMemo = {}
        /\ \A r \in Requests : /\ pc[r] = "idle" /\ reply[r] = NoReply
                               /\ payments[r].status = "absent"
    BY DEF Init, charges, Rows, NoRow
  <2>2. \A r \in Requests : Validated(r) /\ RowOK(r) /\ GuardOK(r) /\ ChargeOK(r)
    BY <2>1 DEF Validated, RowOK, GuardOK, ChargeOK, WrittenPcs, InTxPcs
  <2>3. MemoOK
    BY <2>1 DEF MemoOK, StripeKeyChargedOnce
  <2>4. \A r \in Requests : ReplyOK(r)
    BY <2>1 DEF ReplyOK, Answered, NoReply
  <2> QED
    BY <2>2, <2>3, <2>4 DEF MoneyInv
<1>2. IndInv /\ MoneyInv /\ [Next]_vars => MoneyInv'
  <2> SUFFICES ASSUME IndInv, MoneyInv, [Next]_vars PROVE MoneyInv'
    OBVIOUS
  <2>1. \A r \in Requests : Validated(r)'
    BY ValidatedNext DEF IndInv, MoneyInv
  <2> QED
    BY <2>1, RowNext, ChargeNext, GuardNext, MemoNext, ReplyNext DEF MoneyInv
<1> QED
  BY <1>1, <1>2, Inductive, PTL DEF Spec

\* A 201 or 202 of processPayment always names a committed payment of the
\* request's own key or order, and tells its status truly.
THEOREM ReplySoundHolds == Spec => []ReplySound
<1>1. MoneyInv => ReplySound
  BY DEF MoneyInv, ReplyOK, ReplySound, TheKey
<1> QED
  BY <1>1, MoneyInductive, PTL

\* Requests with one key, sent to Stripe by any number of racing handlers, move
\* money once.
THEOREM StripeKeyChargedOnceHolds == Spec => []StripeKeyChargedOnce
<1>1. MoneyInv => StripeKeyChargedOnce
  BY DEF MoneyInv, MemoOK
<1> QED
  BY <1>1, MoneyInductive, PTL

\* Money that moved for a request without a COMPLETED payment of its own was
\* never reported to that client as the request's own success.
THEOREM OrphanChargeExplainedHolds == Spec => []OrphanChargeExplained
<1>1. IndInv /\ MoneyInv => OrphanChargeExplained
  <2> SUFFICES ASSUME IndInv, MoneyInv, NEW r \in charges, pc[r] = "done",
                      payments[r].status # "COMPLETED",
                      reply[r].code \notin {"500", "dropped"}
               PROVE  \/ /\ Answered(r)
                         /\ reply[r].payment # r
                         /\ payments[reply[r].payment].key = Trim[Key(r)]
                      \/ /\ payments[r].status = "FAILED"
                         /\ payments[r].gateway = "stripe"
    BY DEF OrphanChargeExplained
  <2>1. r \in Requests
    BY DEF charges
  <2>2. /\ Answered(r)
        /\ reply[r].payment = r \/ payments[reply[r].payment].key = TheKey(r)
        /\ reply[r].payment \in Rows(payments)
    BY <2>1 DEF MoneyInv, ReplyOK
  <2>3. CASE reply[r].payment = r
    <3>1. payments[r].status = "FAILED"
      BY <2>2, <2>3 DEF IndInv, SettledAndAudited
    <3>2. payments[r].gateway = Gw(r) /\ Gw(r) = "stripe"
      BY <2>1, <2>2, <2>3, <3>1 DEF MoneyInv, RowOK, ChargeOK
    <3> QED
      BY <3>1, <3>2
  <2>4. CASE reply[r].payment # r
    BY <2>2, <2>4 DEF TheKey
  <2> QED
    BY <2>3, <2>4
<1> QED
  BY <1>1, MoneyInductive, PTL

\* Every COMPLETED payment stands for money a gateway really moved, of its
\* amount to the cent, and no charge stands behind two of them.
THEOREM PaidIsBackedHolds == Spec => []PaidIsBacked
<1>1. ASSUME IndInv, MoneyInv, NEW p \in Rows(payments),
             payments[p].status = "COMPLETED"
      PROVE  Backers(p) # {}
  <2>1. /\ p \in Requests /\ payments[p].key = TheKey(p)
        /\ payments[p].amount = req[p].amount /\ payments[p].gateway = Gw(p)
        /\ req[p].amount > 0 /\ req[p].amount <= MaxAmount /\ req[p].amount \in Int
    BY <1>1 DEF MoneyInv, RowOK, IndInv, TypeOK, Rows, RequestType
  <2>2. req[p].amount - Cents(p) * UnitsPerCent \in 0 .. (UnitsPerCent - 1)
    BY <2>1, CentsOf DEF Cents
  <2>3. GotMoney(p)
    BY <1>1, <2>1 DEF MoneyInv, ChargeOK
  <2>4. CASE Gw(p) = "mock" /\ p \in charges
    <3>1. taken[p] = req[p].amount
      BY <1>1, <2>1, <2>4 DEF MoneyInv, ChargeOK
    <3>2. p \in Backers(p)
      BY <2>1, <2>4, <3>1 DEF Backers
    <3> QED
      BY <3>2
  <2>5. CASE Gw(p) = "stripe" /\ p \in charges
    <3>1. taken[p] = Cents(p) * UnitsPerCent
      BY <1>1, <2>1, <2>5 DEF MoneyInv, ChargeOK
    <3>2. p \in Backers(p)
      BY <2>1, <2>2, <2>5, <3>1 DEF Backers
    <3> QED
      BY <3>2
  <2>6. CASE Gw(p) = "stripe" /\ Replayed(p)
    <3>1. PICK m \in stripeMemo : m.paid /\ m.key = TheKey(p) /\ m.amount = Cents(p)
      BY <2>6 DEF Replayed
    <3>2. PICK c \in charges : TheKey(c) = m.key /\ taken[c] = m.amount * UnitsPerCent
      BY <1>1, <3>1 DEF MoneyInv, MemoOK
    <3>3. c \in Backers(p)
      BY <2>1, <2>2, <2>6, <3>1, <3>2 DEF Backers, Replayed, TheKey
    <3> QED
      BY <3>3
  <2> QED
    BY <2>3, <2>4, <2>5, <2>6 DEF GotMoney
<1>2. ASSUME IndInv, MoneyInv, NEW p \in Rows(payments),
             NEW q \in Rows(payments) \ {p}, NEW c \in Backers(p), c \in Backers(q)
      PROVE  FALSE
  <2>1. /\ p \in Requests /\ q \in Requests
        /\ payments[p].key = TheKey(p) /\ payments[q].key = TheKey(q)
    BY <1>2 DEF MoneyInv, RowOK, IndInv, TypeOK, Rows
  <2>2. /\ c = p \/ (payments[p].key # Blank /\ payments[p].key = TheKey(c))
        /\ c = q \/ (payments[q].key # Blank /\ payments[q].key = TheKey(c))
    BY <1>2 DEF Backers, TheKey
  <2>3. payments[p].key # Blank /\ payments[p].key = payments[q].key
    BY <1>2, <2>1, <2>2
  <2> QED
    BY <1>2, <2>1, <2>3 DEF IndInv, KeyUnique
<1>3. IndInv /\ MoneyInv => PaidIsBacked
  BY <1>1, <1>2 DEF PaidIsBacked
<1> QED
  BY <1>3, MoneyInductive, PTL
=============================================================================
