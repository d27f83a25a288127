---------------------- MODULE PaymentSequentialProofs -----------------------
(***************************************************************************)
(* What PaymentService promises when requests are served one after the     *)
(* other (MaxInFlight = 1), with every fault still possible: what the two  *)
(* lookups of ProcessPayment found is still true when the row is written.  *)
(***************************************************************************)
EXTENDS PaymentMoneyProofs

-----------------------------------------------------------------------------
(* The strengthening *)

\* One request is served at a time.
Alone == \A r, s \in InFlight : r = s

Paid(p) == p \in Rows(payments) /\ payments[p].status = "COMPLETED"

\* An order has one COMPLETED payment, and no later payment of any status.
PaidIsLast ==
  \A p \in Rows(payments), q \in Rows(payments) :
    Paid(p) /\ payments[p].order = payments[q].order =>
      /\ Paid(q) => p = q
      /\ payments[q].created <= payments[p].created

\* The payment being built is younger than every committed one.
DraftIsYoungest(r) ==
  pc[r] \in DraftPcs =>
    /\ draft[r].created <= clock
    /\ \A q \in Rows(payments) : payments[q].created <= draft[r].created

\* What the lookups of r found is still true: its order is not paid, and its
\* key, if it was sent without white space, is on no row.
LookupsHold(r) ==
  /\ pc[r] \in {"route"} \cup DraftPcs =>
       \A p \in Requests : Paid(p) => payments[p].order # req[r].order
  /\ /\ pc[r] \in {"order", "route"} \cup DraftPcs
     /\ TheKey(r) # Blank /\ CleanKey(r)
     => \A p \in Rows(payments) : payments[p].key # TheKey(r)

\* An order that was paid when r arrived is paid, and r moves no money.
SeenPaid(r) ==
  seen[r].paid =>
    /\ \E p \in Requests : Paid(p) /\ payments[p].order = req[r].order
    /\ r \notin charges

\* The payment r was given is that of its key, or the one its order is paid by,
\* and then no payment of the order has the key.
GivenByKeyOrOrder(r) ==
  Answered(r) /\ TheKey(r) # Blank /\ CleanKey(r) =>
    LET p == reply[r].payment IN
    \/ payments[p].key = TheKey(r)
    \/ /\ Paid(p) /\ payments[p].order = req[r].order
       /\ \A q \in Rows(payments) :
            payments[q].key = TheKey(r) => payments[q].order # req[r].order

SeqInv ==
  /\ Alone
  /\ \A p \in Rows(payments) : payments[p].created <= clock
  /\ PaidIsLast
  /\ \A r \in Requests : DraftIsYoungest(r)
  /\ \A r \in Requests : LookupsHold(r)
  /\ \A r \in Requests : SeenPaid(r)
  /\ \A r \in Requests : GivenByKeyOrOrder(r)
  /\ RechargeOnlyAfterError

-----------------------------------------------------------------------------
(* One request at a time *)

\* A request is let in only when no other is being served.
LEMMA AloneNext ==
  ASSUME IsFiniteSet(Requests), MaxInFlight = 1, TypeOK, Alone, [Next]_vars
  PROVE  Alone'
<1>1. ASSUME NEW r \in Requests, Receive(r) PROVE Alone'
  <2>1. IsFiniteSet(InFlight)
    BY FS_Subset DEF InFlight
  <2>2. Cardinality(InFlight) \in Nat /\ Cardinality(InFlight) < 1
    BY <1>1, <2>1, FS_CardinalityType DEF Receive
  <2>3. InFlight = {}
    BY <2>1, <2>2, FS_EmptySet
  <2>4. \A s \in Requests : s # r => pc'[s] = pc[s]
    BY <1>1, Frame
  <2> QED
    BY <2>3, <2>4 DEF Alone, InFlight
<1>2. ASSUME NEW r \in Requests, Serve(r) \/ Fault(r) PROVE Alone'
  <2>1. pc[r] \notin {"idle", "done"}
    BY <1>2 DEF Serve, Fault, FindByKey, FindByOrder, Route, Charge, Begin,
         CreatePayment, CreatePaymentConflict, CreatePaymentTooLong,
         MarkProcessing, CreateTransaction, Settle, Commit, Recover,
         StatementFails, CommitAnswerLost, DbPcs, InTxPcs
  <2>2. \A s \in Requests : s # r => pc'[s] = pc[s]
    BY <1>2, Frame
  <2> QED
    BY <2>1, <2>2 DEF Alone, InFlight
<1>3. CASE Crash
  BY <1>3 DEF Crash, Alone, InFlight
<1>4. CASE UNCHANGED vars
  BY <1>4 DEF vars, Alone, InFlight
<1> QED
  BY <1>1, <1>2, <1>3, <1>4 DEF Next, Finished

\* While a request is served, the table is its own to write.
LEMMA SoleWriter ==
  ASSUME IndInv, Alone, [Next]_vars, NEW r \in Requests,
         pc[r] \notin {"idle", "done"}, pc'[r] # "done"
  PROVE  payments' = payments
<1> USE DEF IndInv, StepsConsistent
<1>1. ASSUME NEW s \in Requests, pc[s] = "commit", Committed(s) PROVE FALSE
  <2>1. s = r
    BY <1>1 DEF Alone, InFlight
  <2>2. r \in Rows(payments)'
    BY <1>1, <2>1 DEF Committed, Rows, TypeOK, StepOK, WrittenPcs, DraftPcs, InTxPcs
  <2>3. StepOK(r)'
    BY StepNext
  <2> QED
    BY <2>2, <2>3 DEF StepOK, Rows
<1> QED
  BY <1>1, DatabaseNext DEF database

\* What a COMMIT adds is the draft of the only request that is served.
LEMMA NewRow ==
  ASSUME IndInv, Alone, [Next]_vars, NEW p \in Rows(payments)',
         p \notin Rows(payments)
  PROVE  /\ p \in Requests /\ pc[p] = "commit" /\ UNCHANGED <<req[p], clock>>
         /\ payments'[p] = draft[p]
         /\ \A q \in Rows(payments)' : q # p => q \in Rows(payments)
<1> USE DEF IndInv, StepsConsistent
<1>1. ~UNCHANGED database
  BY DEF database, Rows
<1>2. PICK r \in Requests : pc[r] = "commit" /\ Committed(r)
  BY <1>1, DatabaseNext
<1>3. /\ payments' = [payments EXCEPT ![r] = txRow[r]]
      /\ txRow[r] = draft[r]
  BY <1>2 DEF Committed, StepOK, WrittenPcs
<1>4. \A q \in Rows(payments)' : q # r => q \in Rows(payments)
  BY <1>3 DEF Rows, TypeOK
<1>5. p = r
  BY <1>4
<1>6. payments'[p] = draft[p]
  BY <1>3, <1>5 DEF TypeOK
<1>7. UNCHANGED req[p]
  BY <1>2, <1>5, ArrivedStays
<1>8. UNCHANGED clock
  <2>1. ASSUME NEW s \in Requests, Route(s) PROVE FALSE
    <3>1. s = r
      BY <1>2, <2>1 DEF Alone, InFlight, Route
    <3> QED
      BY <1>2, <2>1, <3>1 DEF Route
  <2> QED
    BY <2>1 DEF Next, Serve, Fault, Finished, vars, Receive, FindByKey,
       FindByOrder, Charge, Begin, CreatePayment, CreatePaymentConflict,
       CreatePaymentTooLong, MarkProcessing, CreateTransaction, Settle, Commit,
       Recover, StatementFails, CommitAnswerLost, Crash
<1> QED
  BY <1>2, <1>4, <1>5, <1>6, <1>7, <1>8

\* The clock does not go back, and stays a number.
LEMMA ClockNext ==
  ASSUME TypeOK, [Next]_vars
  PROVE  clock' \in Nat /\ clock <= clock'
<1>1. clock' = clock \/ clock' = clock + 1
  BY DEF Next, Serve, Fault, Finished, vars, Receive, FindByKey, FindByOrder,
     Route, Charge, Begin, CreatePayment, CreatePaymentConflict,
     CreatePaymentTooLong, MarkProcessing, CreateTransaction, Settle, Commit,
     Recover, StatementFails, CommitAnswerLost, Crash
<1> QED
  BY <1>1 DEF TypeOK

\* A paid order stays paid by the same payment.
LEMMA PaidStays ==
  ASSUME IndInv, [Next]_vars, NEW p, Paid(p)
  PROVE  Paid(p)' /\ payments'[p] = payments[p]
BY RowsStay DEF Paid, IndInv, StepsConsistent
-----------------------------------------------------------------------------
(* The parts of SeqInv *)

\* Every committed payment was created by now, and the one that pays an order is
\* the last of the order: COMMIT adds the youngest, to an order that is not paid.
LEMMA PaidIsLastNext ==
  ASSUME IndInv, SeqInv, [Next]_vars
  PROVE  /\ \A p \in Rows(payments)' : payments'[p].created <= clock'
         /\ PaidIsLast'
<1> USE DEF IndInv, StepsConsistent
<1>0. \A p \in Rows(payments) : /\ p \in Rows(payments)'
                                /\ payments'[p] = payments[p]
                                /\ payments[p].created \in Int
  BY RowsStay DEF Rows, TypeOK, PaymentRow
<1>1. CASE \A p \in Rows(payments)' : p \in Rows(payments)
  <2>1. \A p \in Rows(payments)' : payments'[p].created <= clock'
    BY <1>0, <1>1, ClockNext DEF SeqInv, TypeOK
  <2>2. PaidIsLast'
    BY <1>0, <1>1 DEF SeqInv, PaidIsLast, Paid
  <2> QED
    BY <2>1, <2>2
<1>2. ASSUME NEW p \in Rows(payments)', p \notin Rows(payments)
      PROVE  /\ \A q \in Rows(payments)' : payments'[q].created <= clock'
             /\ PaidIsLast'
  <2>1. /\ p \in Requests /\ pc[p] = "commit" /\ UNCHANGED clock
        /\ payments'[p] = draft[p]
        /\ \A q \in Rows(payments)' : q # p => q \in Rows(payments)
    BY <1>2, NewRow DEF SeqInv
  <2>2. /\ draft[p].created <= clock
        /\ \A q \in Rows(payments) : payments[q].created <= draft[p].created
        /\ draft[p].created \in Int
    BY <2>1 DEF SeqInv, DraftIsYoungest, DraftPcs, InTxPcs, TypeOK, PaymentRow
  <2>3. draft[p].order = req[p].order
    BY <2>1 DEF StepOK, DraftPcs, InTxPcs
  <2>4. \A q \in Rows(payments) : Paid(q) => payments[q].order # draft[p].order
    BY <2>1, <2>3 DEF SeqInv, LookupsHold, DraftPcs, InTxPcs, Rows, TypeOK
  <2>5. \A q \in Rows(payments)' : payments'[q].created <= clock'
    BY <1>0, <2>1, <2>2 DEF SeqInv
  <2>6. ASSUME NEW q \in Rows(payments)', NEW s \in Rows(payments)', Paid(q)',
               payments'[q].order = payments'[s].order
        PROVE  /\ Paid(s)' => q = s
               /\ payments'[s].created <= payments'[q].created
    <3>1. CASE q = p /\ s = p
      BY <2>1, <2>2, <3>1
    <3>2. CASE q = p /\ s # p
      BY <1>0, <2>1, <2>2, <2>4, <2>6, <3>2 DEF Paid
    <3>3. CASE q # p /\ s = p
      BY <1>0, <2>1, <2>4, <2>6, <3>3 DEF Paid
    <3>4. CASE q # p /\ s # p
      BY <1>0, <2>1, <2>6, <3>4 DEF SeqInv, PaidIsLast, Paid
    <3> QED
      BY <3>1, <3>2, <3>3, <3>4
  <2> QED
    BY <2>5, <2>6 DEF PaidIsLast
<1> QED
  BY <1>1, <1>2

\* A draft stays the youngest: the clock gave it its time when every committed
\* payment was older, and nothing is committed before it.
LEMMA YoungestNext ==
  ASSUME IndInv, SeqInv, [Next]_vars
  PROVE  \A r \in Requests : DraftIsYoungest(r)'
<1> USE DEF IndInv, StepsConsistent
<1> SUFFICES ASSUME NEW s \in Requests, pc'[s] \in DraftPcs PROVE DraftIsYoungest(s)'
  BY DEF DraftIsYoungest
<1>0. /\ pc'[s] \notin {"idle", "done"}
      /\ \A q \in Rows(payments) : payments[q].created \in Int
      /\ draft[s].created \in Int
      /\ clock \in Nat /\ clock' \in Nat /\ clock <= clock'
  BY ClockNext DEF DraftPcs, InTxPcs, Rows, TypeOK, PaymentRow
<1>1. ASSUME pc[s] \in DraftPcs, draft'[s].created = draft[s].created
      PROVE  DraftIsYoungest(s)'
  <2>1. payments' = payments
    BY <1>0, <1>1, SoleWriter DEF SeqInv, DraftPcs, InTxPcs
  <2>2. /\ draft[s].created <= clock
        /\ \A q \in Rows(payments) : payments[q].created <= draft[s].created
    BY <1>1 DEF SeqInv, DraftIsYoungest
  <2>3. draft'[s].created <= clock'
    BY <1>0, <1>1, <2>2
  <2> QED
    BY <1>1, <2>1, <2>2, <2>3 DEF DraftIsYoungest, Rows
<1>2. ASSUME Receive(s) \/ Serve(s) \/ Fault(s) PROVE DraftIsYoungest(s)'
  <2>1. CASE Route(s) /\ pc'[s] = "charge"
    <3>1. ASSUME NEW code, NEW p, Return(s, code, p) PROVE FALSE
      BY <2>1, <3>1 DEF Return, Goto, TypeOK
    <3>2. /\ clock' = clock + 1 /\ payments' = payments
          /\ draft' = [draft EXCEPT ![s] =
               [status |-> "PENDING", order |-> req[s].order,
                key |-> nullString(Key(s)), amount |-> req[s].amount,
                gateway |-> GetGatewayOrDefault(req[s].gateway),
                created |-> clock']]
      BY <2>1, <3>1 DEF Route, ReturnError, database
    <3>3. draft'[s].created = clock'
      BY <3>2 DEF TypeOK
    <3>4. \A q \in Rows(payments) : payments[q].created <= clock'
      BY <1>0, <3>2 DEF SeqInv
    <3> QED
      BY <1>0, <3>2, <3>3, <3>4 DEF DraftIsYoungest, Rows
  <2>2. CASE \/ Charge(s) \/ Begin(s) \/ CreatePayment(s)
             \/ CreatePaymentConflict(s) \/ CreateTransaction(s)
    BY <1>1, <2>2 DEF Charge, Begin, CreatePayment, CreatePaymentConflict,
         CreateTransaction, memory, DraftPcs, InTxPcs
  <2>3. CASE MarkProcessing(s) \/ Settle(s)
    <3>1. PICK status : draft' = [draft EXCEPT ![s].status = status]
      BY <2>3 DEF MarkProcessing, Settle
    <3>2. draft[s] \in PaymentRow
      BY DEF TypeOK
    <3>3. draft'[s].created = draft[s].created
      BY <3>1, <3>2 DEF TypeOK, PaymentRow
    <3> QED
      BY <1>1, <2>3, <3>3 DEF MarkProcessing, Settle, DraftPcs, InTxPcs
  <2> QED
    BY <1>0, <1>2, <2>1, <2>2, <2>3, OwnStep DEF DraftPcs, InTxPcs
<1>3. ASSUME NEW r \in Requests, Receive(r) \/ Serve(r) \/ Fault(r), r # s
      PROVE  DraftIsYoungest(s)'
  <2>1. UNCHANGED <<pc[s], draft[s]>>
    BY <1>3, Frame
  <2> QED
    BY <1>1, <2>1
<1>4. ASSUME Crash PROVE FALSE
  BY <1>0, <1>4 DEF Crash, InFlight
<1>5. ASSUME UNCHANGED vars PROVE DraftIsYoungest(s)'
  BY <1>1, <1>5 DEF vars
<1> QED
  BY <1>2, <1>3, <1>4, <1>5, WhoSteps

\* What the lookups found stays true, for nobody else commits; and FindByOrder
\* sees the payment an order is paid by, for it is the last of the order.
LEMMA LookupsNext ==
  ASSUME IndInv, SeqInv, [Next]_vars
  PROVE  \A r \in Requests : LookupsHold(r)'
<1> USE DEF IndInv, StepsConsistent
<1> SUFFICES ASSUME NEW s \in Requests,
                    pc'[s] \in {"order", "route"} \cup DraftPcs
             PROVE  LookupsHold(s)'
  BY DEF LookupsHold
<1>0. LookupsHold(s) /\ pc'[s] \notin {"idle", "done"}
  BY DEF SeqInv, DraftPcs, InTxPcs
<1>1. ASSUME pc[s] \notin {"idle", "done"}
      PROVE  /\ payments' = payments
             /\ UNCHANGED <<req[s], TheKey(s), CleanKey(s)>>
             /\ \A p : Paid(p)' <=> Paid(p)
  <2>1. payments' = payments
    BY <1>0, <1>1, SoleWriter DEF SeqInv
  <2>2. UNCHANGED <<req[s], Key(s), TheKey(s)>>
    BY <1>1, ArrivedStays
  <2> QED
    BY <2>1, <2>2 DEF Paid, Rows, CleanKey
<1>2. ASSUME pc[s] \notin {"idle", "done"},
             pc'[s] \in {"route"} \cup DraftPcs =>
               \A p \in Requests : Paid(p) => payments[p].order # req[s].order,
             TheKey(s) # Blank /\ CleanKey(s) =>
               \A p \in Rows(payments) : payments[p].key # TheKey(s)
      PROVE  LookupsHold(s)'
  BY <1>1, <1>2 DEF LookupsHold, Rows
<1>3. ASSUME Receive(s) \/ Serve(s) \/ Fault(s) PROVE LookupsHold(s)'
  <2>1. CASE Receive(s) /\ pc'[s] \in {"key", "order"}
    <3>1. PICK q \in Inputs :
            /\ req' = [req EXCEPT ![s] = q]
            /\ \/ pc' = [pc EXCEPT ![s] = "done"]
               \/ pc' = [pc EXCEPT ![s] = IF Trim[EffectiveKey(q)] = Blank
                                          THEN "order" ELSE "key"]
      BY <2>1 DEF Receive, Goto
    <3>2. TheKey(s)' = Trim[EffectiveKey(q)]
      BY <3>1 DEF TheKey, Key, TypeOK
    <3>3. TheKey(s)' = Blank /\ pc'[s] = "order"
      BY <1>0, <3>1, <3>2 DEF TypeOK, DraftPcs, InTxPcs
    <3> QED
      BY <3>3 DEF LookupsHold, DraftPcs, InTxPcs
  <2>2. CASE FindByKey(s) /\ pc'[s] = "order"
    <3>1. GetPaymentByIdempotencyKey(Key(s)) = {}
      BY <2>2 DEF FindByKey, ReturnPayment, Return, Goto, TypeOK
    <3>2. TheKey(s) # Blank /\ CleanKey(s) =>
               \A p \in Rows(payments) : payments[p].key # TheKey(s)
      BY <3>1 DEF GetPaymentByIdempotencyKey, CleanKey, TheKey
    <3> QED
      BY <1>2, <2>2, <3>2 DEF FindByKey, DraftPcs, InTxPcs
  <2>3. CASE FindByOrder(s) /\ pc'[s] = "route"
    <3>1. {p \in GetPaymentByOrderID(req[s].order) :
             payments[p].status = "COMPLETED"} = {}
      BY <2>3 DEF FindByOrder, ReturnPayment, Return, Goto, TypeOK
    <3>2. ASSUME NEW p \in Requests, Paid(p), payments[p].order = req[s].order
          PROVE  FALSE
      <4>1. p \in GetPaymentByOrderID(req[s].order)
        BY <3>2 DEF GetPaymentByOrderID, SeqInv, PaidIsLast, Paid
      <4> QED
        BY <3>1, <3>2, <4>1 DEF Paid
    <3>3. pc[s] = "order"
      BY <2>3 DEF FindByOrder
    <3> QED
      BY <1>0, <1>2, <3>2, <3>3 DEF LookupsHold
  <2>4. CASE \/ Route(s) \/ Charge(s) \/ Begin(s) \/ CreatePayment(s)
             \/ CreatePaymentConflict(s) \/ MarkProcessing(s)
             \/ CreateTransaction(s) \/ Settle(s)
    <3>1. pc[s] \in {"route"} \cup DraftPcs
      BY <2>4 DEF Route, Charge, Begin, CreatePayment, CreatePaymentConflict,
           MarkProcessing, CreateTransaction, Settle, DraftPcs, InTxPcs
    <3> QED
      BY <1>0, <1>2, <3>1 DEF LookupsHold, DraftPcs, InTxPcs
  <2> QED
    BY <1>0, <1>3, <2>1, <2>2, <2>3, <2>4, OwnStep
<1>4. ASSUME UNCHANGED pc[s] PROVE LookupsHold(s)'
  BY <1>0, <1>2, <1>4 DEF LookupsHold, DraftPcs, InTxPcs
<1>5. ASSUME NEW r \in Requests, Receive(r) \/ Serve(r) \/ Fault(r), r # s
      PROVE  UNCHANGED pc[s]
  BY <1>5, Frame
<1>6. ASSUME Crash PROVE FALSE
  BY <1>0, <1>6 DEF Crash, InFlight
<1>7. UNCHANGED vars => UNCHANGED pc[s]
  BY DEF vars
<1> QED
  BY <1>3, <1>4, <1>5, <1>6, <1>7, WhoSteps

\* A request for a paid order moves no money: it would have to get past
\* FindByOrder.
LEMMA SeenPaidNext ==
  ASSUME IndInv, SeqInv, [Next]_vars
  PROVE  \A r \in Requests : SeenPaid(r)'
<1> USE DEF IndInv, StepsConsistent
<1> SUFFICES ASSUME NEW s \in Requests, seen'[s].paid PROVE SeenPaid(s)'
  BY DEF SeenPaid
<1>1. CASE Receive(s)
  <2>1. PICK q \in Inputs :
          /\ req' = [req EXCEPT ![s] = q]
          /\ seen' = [seen EXCEPT ![s] =
               [key |-> /\ Trim[EffectiveKey(q)] # Blank
                        /\ GetPaymentByIdempotencyKey(Trim[EffectiveKey(q)]) # {},
                paid |-> \E p \in Rows(payments) :
                           /\ payments[p].order = q.order
                           /\ payments[p].status = "COMPLETED"]]
    BY <1>1 DEF Receive
  <2>2. \E p \in Rows(payments) : /\ payments[p].order = q.order
                                  /\ payments[p].status = "COMPLETED"
    BY <2>1 DEF TypeOK
  <2>3. PICK p \in Requests : Paid(p) /\ payments[p].order = q.order
    BY <2>2 DEF Paid, Rows, TypeOK
  <2>4. Paid(p)' /\ payments'[p] = payments[p] /\ req'[s] = q
    BY <2>1, <2>3, PaidStays DEF TypeOK
  <2>5. s \notin charges'
    BY <1>1, OwnCharge, ChargedArrived DEF Receive, Charge
  <2> QED
    BY <2>3, <2>4, <2>5 DEF SeenPaid
<1>2. CASE ~Receive(s)
  <2>1. UNCHANGED <<req[s], seen[s]>>
    <3>1. ASSUME NEW r \in Requests, Receive(r) PROVE UNCHANGED <<req[s], seen[s]>>
      BY <1>2, <3>1, Frame
    <3> QED
      BY <3>1, InputsStay
  <2>2. SeenPaid(s) /\ LookupsHold(s)
    BY DEF SeqInv
  <2>3. PICK p \in Requests : Paid(p) /\ payments[p].order = req[s].order
    BY <2>1, <2>2 DEF SeenPaid
  <2>4. Paid(p)' /\ payments'[p] = payments[p]
    BY <2>3, PaidStays
  <2>5. ~Charge(s)
    BY <2>2, <2>3 DEF Charge, LookupsHold, DraftPcs
  <2>6. s \notin charges'
    BY <2>1, <2>2, <2>5, OwnCharge DEF SeenPaid
  <2> QED
    BY <2>1, <2>3, <2>4, <2>6 DEF SeenPaid
<1> QED
  BY <1>1, <1>2

\* What a request was given stays the payment of its key or of its order.
LEMMA GivenNext ==
  ASSUME IndInv, MoneyInv, SeqInv, [Next]_vars
  PROVE  \A r \in Requests : GivenByKeyOrOrder(r)'
<1> USE DEF IndInv, StepsConsistent
<1> SUFFICES ASSUME NEW s \in Requests, Answered(s)', TheKey(s)' # Blank, CleanKey(s)'
             PROVE  GivenByKeyOrOrder(s)'
  BY DEF GivenByKeyOrOrder
<1>0. MoneyInv'
  <2>1. \A r \in Requests : Validated(r)'
    BY ValidatedNext DEF MoneyInv
  <2> QED
    BY <2>1, RowNext, ChargeNext, GuardNext, MemoNext, ReplyNext DEF MoneyInv
<1>1. /\ reply'[s].payment \in Rows(payments)'
      /\ \/ payments'[reply'[s].payment].key = TheKey(s)'
         \/ payments'[reply'[s].payment].order = (req[s].order)'
      /\ pc'[s] = "done"
  BY <1>0 DEF MoneyInv, ReplyOK, Answered
<1>2. ASSUME UNCHANGED <<pc[s], reply[s]>> PROVE GivenByKeyOrOrder(s)'
  <2>0. PICK p : p = reply[s].payment
    OBVIOUS
  <2>1. UNCHANGED <<req[s], Key(s), TheKey(s)>>
    BY <1>1, <1>2, ArrivedStays
  <2>2. Answered(s) /\ TheKey(s) # Blank /\ CleanKey(s)
    BY <1>2, <2>1 DEF Answered, CleanKey
  <2>3. p \in Rows(payments)
    BY <2>0, <2>2 DEF MoneyInv, ReplyOK
  <2>4. payments'[p] = payments[p]
    BY <2>3, RowsStay
  <2>5. CASE payments[p].key = TheKey(s)
    BY <1>2, <2>0, <2>1, <2>4, <2>5 DEF GivenByKeyOrOrder
  <2>6. CASE /\ Paid(p) /\ payments[p].order = req[s].order
             /\ \A q \in Rows(payments) :
                  payments[q].key = TheKey(s) => payments[q].order # req[s].order
    <3>1. Paid(p)'
      BY <2>6, PaidStays
    <3>2. ASSUME NEW q \in Rows(payments)', payments'[q].key = TheKey(s)
          PROVE  payments'[q].order # req[s].order
      <4>1. CASE q \in Rows(payments)
        BY <2>6, <3>2, <4>1, RowsStay
      <4>2. CASE q \notin Rows(payments)
        <5>1. q \in Requests /\ pc[q] = "commit" /\ payments'[q] = draft[q]
          BY <4>2, NewRow DEF SeqInv
        <5>2. draft[q].order = req[q].order
          BY <5>1 DEF StepOK, DraftPcs, InTxPcs
        <5>3. p \in Requests
          BY <2>3 DEF Rows, TypeOK
        <5> QED
          BY <2>6, <5>1, <5>2, <5>3 DEF SeqInv, LookupsHold, DraftPcs, InTxPcs
      <4> QED
        BY <4>1, <4>2
    <3> QED
      BY <1>2, <2>0, <2>1, <2>4, <2>6, <3>1, <3>2 DEF GivenByKeyOrOrder
  <2> QED
    BY <2>0, <2>2, <2>5, <2>6 DEF SeqInv, GivenByKeyOrOrder
<1>3. ASSUME NEW code, NEW p, Return(s, code, p)
      PROVE  reply'[s].code = code /\ reply'[s].payment = p
  BY <1>3 DEF Return, TypeOK
<1>4. ASSUME FindByOrder(s) PROVE GivenByKeyOrOrder(s)'
  <2>1. PICK p \in GetPaymentByOrderID(req[s].order) :
          /\ payments[p].status = "COMPLETED"
          /\ ReturnPayment(s, p, payments[p])
    BY <1>1, <1>4 DEF FindByOrder, Goto, TypeOK
  <2>2. Paid(p) /\ payments[p].order = req[s].order
    BY <2>1 DEF GetPaymentByOrderID, Paid
  <2>3. /\ pc[s] = "order" /\ payments' = payments
        /\ UNCHANGED <<req, Key(s), TheKey(s), CleanKey(s)>>
    BY <1>4 DEF FindByOrder, database, Key, TheKey, CleanKey
  <2>4. \A q \in Rows(payments) : payments[q].key # TheKey(s)
    BY <2>3 DEF SeqInv, LookupsHold
  <2>5. Paid(p)'
    BY <2>2, PaidStays
  <2>6. reply'[s].payment = p
    BY <1>3, <2>1 DEF ReturnPayment
  <2> QED
    BY <2>2, <2>3, <2>4, <2>5, <2>6 DEF GivenByKeyOrOrder, Rows
<1>5. ASSUME NEW p \in GetPaymentByIdempotencyKey(Key(s)),
             ReturnPayment(s, p, payments[p]), pc[s] # "idle"
      PROVE  GivenByKeyOrOrder(s)'
  <2>1. /\ reply'[s].payment = p /\ payments[p].key = Key(s)
        /\ p \in Rows(payments)
    BY <1>3, <1>5 DEF ReturnPayment, GetPaymentByIdempotencyKey
  <2>2. UNCHANGED <<Key(s), TheKey(s)>> /\ payments'[p] = payments[p]
    BY <1>5, <2>1, RowsStay, ArrivedStays
  <2> QED
    BY <2>1, <2>2 DEF GivenByKeyOrOrder, CleanKey, TheKey
<1>6. ASSUME Commit(s) PROVE GivenByKeyOrOrder(s)'
  <2>1. /\ pc[s] = "commit" /\ payments' = [payments EXCEPT ![s] = txRow[s]]
        /\ ReturnPayment(s, s, draft[s])
    BY <1>6 DEF Commit, Committed
  <2>2. reply'[s].payment = s
    BY <1>3, <2>1 DEF ReturnPayment
  <2>3. payments'[s].key = TheKey(s)
    BY <2>1 DEF StepOK, WrittenPcs, DraftPcs, InTxPcs, TypeOK, TheKey
  <2>4. UNCHANGED TheKey(s)
    BY <2>1, ArrivedStays
  <2> QED
    BY <2>2, <2>3, <2>4 DEF GivenByKeyOrOrder
<1>7. ASSUME NEW err \in {"GatewayUnavailable", "Other"}, ReturnError(s, err)
      PROVE  FALSE
  <2>1. reply'[s].code = APIErrorFromErr(err)
    BY <1>3, <1>7 DEF ReturnError
  <2> QED
    BY <2>1 DEF Answered, APIErrorFromErr
<1>8. ASSUME Receive(s) \/ Serve(s) \/ Fault(s) PROVE GivenByKeyOrOrder(s)'
  <2>1. ASSUME Receive(s) PROVE FALSE
    <3>1. reply' = [reply EXCEPT ![s] = [code |-> APIErrorFromErr("InvalidRequest"),
                                         payment |-> None]]
      BY <1>1, <2>1 DEF Receive, Goto, TypeOK
    <3>2. reply'[s].code = "400"
      BY <3>1 DEF TypeOK, APIErrorFromErr
    <3> QED
      BY <3>2 DEF Answered
  <2>2. ASSUME FindByKey(s) PROVE GivenByKeyOrOrder(s)'
    BY <1>1, <1>5, <2>2 DEF FindByKey, Goto, TypeOK
  <2>3. ASSUME Recover(s) PROVE GivenByKeyOrOrder(s)'
    BY <1>5, <1>7, <2>3 DEF Recover
  <2>4. ASSUME Route(s) PROVE FALSE
    BY <1>1, <1>7, <2>4 DEF Route, Goto, TypeOK
  <2>5. ASSUME CreatePaymentTooLong(s) \/ Fault(s) PROVE FALSE
    BY <1>7, <2>5 DEF CreatePaymentTooLong, Fault, StatementFails,
         CommitAnswerLost
  <2>6. ASSUME \/ Charge(s) \/ Begin(s) \/ CreatePayment(s)
               \/ CreatePaymentConflict(s) \/ MarkProcessing(s)
               \/ CreateTransaction(s) \/ Settle(s)
        PROVE  FALSE
    BY <1>1, <2>6 DEF Charge, Begin, CreatePayment, CreatePaymentConflict,
         MarkProcessing, CreateTransaction, Settle, Goto, TypeOK
  <2> QED
    BY <1>4, <1>6, <1>8, <2>1, <2>2, <2>3, <2>4, <2>5, <2>6 DEF Serve
<1>9. ASSUME NEW r \in Requests, Receive(r) \/ Serve(r) \/ Fault(r), r # s
      PROVE  GivenByKeyOrOrder(s)'
  BY <1>2, <1>9, Frame
<1>10. ASSUME Crash PROVE GivenByKeyOrOrder(s)'
  <2>1. CASE s \in InFlight
    <3>1. reply'[s].code = "dropped"
      BY <1>10, <2>1 DEF Crash
    <3> QED
      BY <3>1 DEF Answered
  <2>2. CASE s \notin InFlight
    BY <1>2, <1>10, <2>2 DEF Crash
  <2> QED
    BY <2>1, <2>2
<1>11. ASSUME UNCHANGED vars PROVE GivenByKeyOrOrder(s)'
  BY <1>2, <1>11 DEF vars
<1> QED
  BY <1>8, <1>9, <1>10, <1>11, WhoSteps

\* A second charge with a key follows an error: had the first been answered with
\* a payment, that payment would carry the key, and the lookup would have found it.
LEMMA RechargeNext ==
  ASSUME IndInv, MoneyInv, SeqInv, [Next]_vars
  PROVE  RechargeOnlyAfterError'
<1> USE DEF IndInv, StepsConsistent
<1> DEFINE Failed(t) == reply[t].code \in {"500", "dropped"}
<1>0. \A t \in Requests : Failed(t) => Failed(t)'
  <2> SUFFICES ASSUME NEW t \in Requests, Failed(t) PROVE reply'[t] = reply[t]
    OBVIOUS
  <2>1. pc[t] = "done"
    BY DEF MoneyInv, ReplyOK
  <2>2. ASSUME NEW r \in Requests, Receive(r) \/ Serve(r) \/ Fault(r)
        PROVE  reply'[t] = reply[t]
    <3>1. r # t
      BY <2>1, <2>2 DEF Receive, Serve, Fault, FindByKey, FindByOrder, Route,
           Charge, Begin, CreatePayment, CreatePaymentConflict,
           CreatePaymentTooLong, MarkProcessing, CreateTransaction, Settle,
           Commit, Recover, StatementFails, CommitAnswerLost, DbPcs, InTxPcs
    <3> QED
      BY <2>2, <3>1, Frame
  <2>3. Crash => reply'[t] = reply[t]
    BY <2>1 DEF Crash, InFlight
  <2>4. UNCHANGED vars => reply'[t] = reply[t]
    BY DEF vars
  <2> QED
    BY <2>2, <2>3, <2>4, WhoSteps
<1>1. \A c \in charges : c \in Requests /\ UNCHANGED <<Key(c), TheKey(c)>>
  <2>1. \A c \in charges : c \in Requests /\ pc[c] # "idle"
    BY ChargedArrived DEF charges
  <2> QED
    BY <2>1, ArrivedStays
<1>2. ASSUME NEW r, NEW s \in charges, Charge(r), r \in Requests,
             SameKey(r, s), CleanKey(r), CleanKey(s)
      PROVE  Failed(s)
  <2>1. pc[r] = "charge" /\ r \notin charges
    BY <1>2, ChargeMeans
  <2>2. s \in Requests /\ s # r /\ pc[s] # "idle"
    BY <1>1, <1>2, <2>1, ChargedArrived
  <2>3. pc[s] = "done"
    BY <1>2, <2>1, <2>2 DEF SeqInv, Alone, InFlight
  <2>4. TheKey(r) = TheKey(s) /\ TheKey(r) # Blank
    BY <1>2 DEF SameKey, TheKey
  <2>5. \A p \in Rows(payments) : payments[p].key # TheKey(s)
    BY <1>2, <2>1, <2>4 DEF SeqInv, LookupsHold, DraftPcs
  <2>6. ASSUME ~Failed(s) PROVE FALSE
    <3>1. /\ reply[s].payment \in Rows(payments)
          /\ reply[s].payment = s \/ payments[reply[s].payment].key = TheKey(s)
      BY <1>2, <2>2, <2>3, <2>6 DEF MoneyInv, ReplyOK
    <3>2. payments[reply[s].payment].key = TheKey(s)
      BY <2>2, <3>1 DEF MoneyInv, RowOK
    <3> QED
      BY <2>5, <3>1, <3>2
  <2> QED
    BY <2>6
<1> SUFFICES ASSUME NEW r \in charges', NEW s \in charges', r # s, SameKey(r, s)',
                    CleanKey(r)', CleanKey(s)'
             PROVE  Failed(r)' \/ Failed(s)'
  BY DEF RechargeOnlyAfterError
<1>3. r \in Requests /\ s \in Requests
  BY DEF charges
<1>4. \A c \in Requests : c \in charges' => c \in charges \/ Charge(c)
  BY OwnCharge
<1>5. \A c \in Requests : Charge(c) => UNCHANGED <<Key(c), TheKey(c)>>
  BY ChargeMeans DEF Key, TheKey
<1>6. UNCHANGED <<Key(r), Key(s)>>
  BY <1>1, <1>3, <1>4, <1>5
<1>7. SameKey(r, s) /\ SameKey(s, r) /\ CleanKey(r) /\ CleanKey(s)
  BY <1>6 DEF SameKey, CleanKey
<1>8. CASE r \in charges /\ s \in charges
  BY <1>0, <1>3, <1>7, <1>8 DEF SeqInv, RechargeOnlyAfterError
<1>9. CASE Charge(r) /\ s \in charges
  BY <1>0, <1>2, <1>3, <1>7, <1>9
<1>10. CASE Charge(s) /\ r \in charges
  BY <1>0, <1>2, <1>3, <1>7, <1>10
<1>11. ~(Charge(r) /\ Charge(s))
  BY <1>3, Frame, ChargeMeans DEF Serve
<1> QED
  BY <1>3, <1>4, <1>8, <1>9, <1>10, <1>11
-----------------------------------------------------------------------------
(* Theorems *)

\* With one request in flight at a time, SeqInv holds in every reachable state.
THEOREM SequentialInductive ==
  ASSUME IsFiniteSet(Requests), MaxInFlight = 1
  PROVE  Spec => [](IndInv /\ MoneyInv /\ SeqInv)
<1>1. Init => SeqInv
  <2> SUFFICES ASSUME Init PROVE SeqInv
    OBVIOUS
  <2>1. /\ charges = {} /\ Rows(payments) = {} /\ InFlight = {}
        /\ \A r \in Requests : /\ pc[r] = "idle" /\ ~seen[r].paid
                               /\ reply[r].code = "none"
    BY DEF Init, charges, Rows, NoRow, InFlight, NoReply
  <2>2. Alone /\ PaidIsLast /\ RechargeOnlyAfterError
    BY <2>1 DEF Alone, PaidIsLast, RechargeOnlyAfterError
  <2>3. \A r \in Requests : /\ DraftIsYoungest(r) /\ LookupsHold(r)
                            /\ SeenPaid(r) /\ GivenByKeyOrOrder(r)
    BY <2>1 DEF DraftIsYoungest, LookupsHold, SeenPaid, GivenByKeyOrOrder,
         Answered, DraftPcs, InTxPcs
  <2> QED
    BY <2>1, <2>2, <2>3 DEF SeqInv
<1>2. IndInv /\ MoneyInv /\ SeqInv /\ [Next]_vars => SeqInv'
  <2> SUFFICES ASSUME IndInv, MoneyInv, SeqInv, [Next]_vars PROVE SeqInv'
    OBVIOUS
  <2>1. Alone'
    BY AloneNext DEF IndInv, SeqInv
  <2> QED
    BY <2>1, PaidIsLastNext, YoungestNext, LookupsNext, SeenPaidNext, GivenNext,
       RechargeNext DEF SeqInv
<1> QED
  BY <1>1, <1>2, MoneyInductive, PTL DEF Spec

\* Served one after the other, requests with one key move money a second time
\* only after one of their clients was told of an error.
THEOREM RechargeOnlyAfterErrorHolds ==
  ASSUME IsFiniteSet(Requests), MaxInFlight = 1
  PROVE  Spec => []RechargeOnlyAfterError
<1>1. SeqInv => RechargeOnlyAfterError
  BY DEF SeqInv
<1> QED
  BY <1>1, SequentialInductive, PTL

\* Served one after the other, a request for a paid order moves no money,
\* although FindByOrder looks at one row only.
THEOREM PaidOrderNeverChargedHolds ==
  ASSUME IsFiniteSet(Requests), MaxInFlight = 1
  PROVE  Spec => []PaidOrderNeverCharged
<1>1. SeqInv => PaidOrderNeverCharged
  BY DEF SeqInv, SeenPaid, PaidOrderNeverCharged
<1> QED
  BY <1>1, SequentialInductive, PTL

\* Served one after the other, duplicates whose key was used for one order only
\* are given one payment.
THEOREM SameKeySameReplyHolds ==
  ASSUME IsFiniteSet(Requests), MaxInFlight = 1
  PROVE  Spec => []SameKeySameReply
<1>1. IndInv /\ MoneyInv /\ SeqInv => SameKeySameReply
  <2> SUFFICES ASSUME IndInv, MoneyInv, SeqInv, NEW r \in Requests, NEW s \in Requests,
                      Answered(r), Answered(s), SameKey(r, s), CleanKey(r),
                      CleanKey(s), OneOrderKey(r)
               PROVE  reply[r].payment = reply[s].payment
    BY DEF SameKeySameReply
  <2> DEFINE p == reply[r].payment
             q == reply[s].payment
  <2>1. p \in Rows(payments) /\ q \in Rows(payments)
    BY DEF MoneyInv, ReplyOK
  <2>2. p \in Requests /\ q \in Requests
    BY <2>1 DEF IndInv, TypeOK, Rows
  <2>3. TheKey(r) = TheKey(s) /\ TheKey(r) # Blank
    BY DEF SameKey, TheKey
  <2>4. pc[s] = "done"
    BY DEF MoneyInv, ReplyOK, Answered
  <2>5. req[s].order = req[r].order
    BY <2>4 DEF OneOrderKey
  <2>6. ASSUME NEW x \in Rows(payments), payments[x].key = TheKey(r)
        PROVE  payments[x].order = req[r].order
    <3>1. x \in Requests /\ pc[x] = "done"
      BY ChargedArrived DEF IndInv, StepsConsistent, TypeOK, Rows
    <3>2. TheKey(x) = TheKey(r) /\ payments[x].order = req[x].order
      BY <2>6, <3>1 DEF MoneyInv, RowOK
    <3>3. SameKey(r, x)
      BY <2>3, <3>2 DEF SameKey, TheKey
    <3> QED
      BY <3>1, <3>2, <3>3 DEF OneOrderKey
  <2>7. /\ \/ payments[p].key = TheKey(r)
           \/ /\ Paid(p) /\ payments[p].order = req[r].order
              /\ \A x \in Rows(payments) :
                   payments[x].key = TheKey(r) => payments[x].order # req[r].order
        /\ \/ payments[q].key = TheKey(r)
           \/ /\ Paid(q) /\ payments[q].order = req[r].order
              /\ \A x \in Rows(payments) :
                   payments[x].key = TheKey(r) => payments[x].order # req[r].order
    BY <2>3, <2>5 DEF SeqInv, GivenByKeyOrOrder
  <2>8. CASE payments[p].key = TheKey(r) /\ payments[q].key = TheKey(r)
    BY <2>2, <2>3, <2>8 DEF IndInv, KeyUnique
  <2>9. CASE Paid(p) /\ Paid(q) /\ payments[p].order = payments[q].order
    BY <2>1, <2>9 DEF SeqInv, PaidIsLast
  <2> QED
    BY <2>1, <2>6, <2>7, <2>8, <2>9
<1> QED
  BY <1>1, SequentialInductive, PTL
=============================================================================
