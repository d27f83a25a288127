--------------------------- MODULE PaymentService ---------------------------
(***************************************************************************)
(* POST /api/v1/payments of the Go service: Handler.processPayment,        *)
(* PaymentService.ProcessPayment and the Store calls it makes, with any    *)
(* number of requests in flight against one PostgreSQL database.           *)
(*                                                                         *)
(* Requests are named by the uuid they give the payment they create.  One  *)
(* action is one database statement, one gateway call or one return of the *)
(* code; between two of them the other requests may do anything, and, with *)
(* Faults, a statement may fail, the answer of a COMMIT may be lost, and   *)
(* the process may die.                                                    *)
(***************************************************************************)
EXTENDS Gateway, FiniteSets

CONSTANTS
  Requests,    \* the requests clients ever send (= payment uuids)
  Inputs,      \* what a client may put in a request
  Oversized,   \* trimmed keys that do not fit idempotency_key VARCHAR(50)
  MaxAmount,   \* the largest amount of a NUMERIC(19,4) column
  None,        \* "no payment"
  MaxInFlight, \* bound: requests being served at once
  MaxConns,    \* connections of the pgx pool
  Faults       \* TRUE: failing statements, lost COMMIT answers and crashes

\* A request as processPayment sees it.  net/http trims header values, a key
\* in the JSON body arrives as it was sent.  "valid" stands for the JSON
\* binding and the checks on ids, scale and currency.
RequestType ==
  [valid : BOOLEAN, order : Orders, amount : Int, gateway : GatewayNames,
   xHeader : {Trim[t] : t \in Texts}, header : {Trim[t] : t \in Texts},
   body : Texts]

ASSUME ServiceAssumption ==
  /\ Inputs \subseteq RequestType
  /\ Inputs # {}
  /\ None \notin Requests
  /\ MaxAmount \in Nat
  /\ MaxAmount \div UnitsPerCent < Word \div 2
  /\ MaxInFlight \in Nat \ {0}
  /\ MaxConns \in Nat \ {0}
  /\ Faults \in BOOLEAN

VARIABLES
  \* durable: the committed tables, and what the providers did
  payments,     \* payments table: the row of each uuid
  transactions, \* transactions table, the audit log
  taken,        \* the money each request's gateway call moved
  stripeMemo,   \* Stripe's memory of idempotency keys
  clock,        \* the last CreatedAt given out
  \* per request, in memory
  req,          \* its input
  pc,           \* where ProcessPayment stands
  draft,        \* the *Payment being built
  result,       \* the gateway's answer
  \* per request, its open database transaction
  txRow,        \* the uncommitted payments row
  txLog,        \* the uncommitted audit rows
  \* per request, what the client observes, and history
  reply,        \* the response
  seen          \* what was already committed when the request arrived

memory == <<req, draft, result>>
tx == <<txRow, txLog>>
database == <<payments, transactions>>
provider == <<taken, stripeMemo>>
vars == <<payments, transactions, taken, stripeMemo, clock, req, pc, draft,
          result, txRow, txLog, reply, seen>>

-----------------------------------------------------------------------------
(* State *)

InTxPcs == {"insert", "processing", "audit", "settle", "commit"}
DbPcs == {"key", "order", "begin", "recover"} \cup InTxPcs
Pcs == {"idle", "route", "charge", "done"} \cup DbPcs

Transaction == [payment : Requests, type : {"CHARGE"}, amount : Int,
                success : BOOLEAN]

\* "dropped": the process died and the client saw the connection close.
Reply == [code : {"none", "201", "202", "400", "500", "dropped"},
          payment : Requests \cup {None}]
NoReply == [code |-> "none", payment |-> None]

InFlight == {r \in Requests : pc[r] \notin {"idle", "done"}}

\* The requests whose gateway call moved money.
charges == {r \in Requests : taken[r] > 0}

\* A transaction holds its pool connection from BEGIN to COMMIT or ROLLBACK;
\* statements outside a transaction borrow one.
InTx == {r \in Requests : pc[r] \in InTxPcs}
ConnFree == Cardinality(InTx) < MaxConns

\* The first of the three key sources that is not blank after trimming.
EffectiveKey(q) ==
  IF Trim[q.xHeader] # Blank THEN q.xHeader
  ELSE IF Trim[q.header] # Blank THEN q.header
  ELSE q.body

Key(r) == EffectiveKey(req[r])

\* SELECT ... WHERE idempotency_key = $1, on committed rows.
GetPaymentByIdempotencyKey(key) ==
  {p \in Rows(payments) : payments[p].key = key}

\* Mutant: ORDER BY created_at without DESC.
GetPaymentByOrderIDOldest(order) ==
  LET mine == {p \in Rows(payments) : payments[p].order = order}
  IN {p \in mine : \A q \in mine : payments[q].created >= payments[p].created}

\* SELECT ... WHERE order_id = $1 ORDER BY created_at DESC LIMIT 1.
GetPaymentByOrderID(order) ==
  LET mine == {p \in Rows(payments) : payments[p].order = order}
  IN {p \in mine : \A q \in mine : payments[q].created <= payments[p].created}

Init ==
  /\ payments = [r \in Requests |-> NoRow]
  /\ transactions = {}
  /\ taken = [r \in Requests |-> 0]
  /\ stripeMemo = {}
  /\ clock = 0
  /\ req = [r \in Requests |-> CHOOSE q \in Inputs : TRUE]  \* not yet sent
  /\ pc = [r \in Requests |-> "idle"]
  /\ draft = [r \in Requests |-> NoRow]
  /\ result = [r \in Requests |-> "none"]
  /\ txRow = [r \in Requests |-> NoRow]
  /\ txLog = [r \in Requests |-> {}]
  /\ reply = [r \in Requests |-> NoReply]
  /\ seen = [r \in Requests |-> [key |-> FALSE, paid |-> FALSE]]

Goto(r, l) == pc' = [pc EXCEPT ![r] = l]

\* Mutant: an error return leaves the transaction open.
ReturnWithoutRollback(r, code, p) ==
  /\ Goto(r, "done")
  /\ reply' = [reply EXCEPT ![r] = [code |-> code, payment |-> p]]
  /\ draft' = [draft EXCEPT ![r] = NoRow]
  /\ result' = [result EXCEPT ![r] = "none"]
  /\ UNCHANGED <<txRow, txLog>>

\* The handler returns: its memory is gone, and so is a transaction that was
\* not committed.
Return(r, code, p) ==
  /\ Goto(r, "done")
  /\ reply' = [reply EXCEPT ![r] = [code |-> code, payment |-> p]]
  /\ draft' = [draft EXCEPT ![r] = NoRow]
  /\ result' = [result EXCEPT ![r] = "none"]
  /\ txRow' = [txRow EXCEPT ![r] = NoRow]
  /\ txLog' = [txLog EXCEPT ![r] = {}]

\* 201 Created for a completed payment, 202 Accepted for any other.
StatusCode(status) == IF status = "COMPLETED" THEN "201" ELSE "202"

ReturnPayment(r, p, row) == Return(r, StatusCode(row.status), p)
ReturnError(r, err) == Return(r, APIErrorFromErr(err), None)

-----------------------------------------------------------------------------
(* Before the gateway is called *)

\* The checks on the bound request; the amount is the one that matters here.
validateProcessPaymentRequest(q) == q.valid /\ q.amount > 0

\* The handler binds and validates the request.  seen is history.
Receive(r) ==
  /\ pc[r] = "idle"
  /\ Cardinality(InFlight) < MaxInFlight
  /\ \E q \in Inputs :
       /\ req' = [req EXCEPT ![r] = q]
       /\ LET key == Trim[EffectiveKey(q)] IN
          /\ \/ /\ ~validateProcessPaymentRequest(q)
                /\ Goto(r, "done")
                /\ reply' = [reply EXCEPT ![r] =
                     [code |-> APIErrorFromErr("InvalidRequest"),
                      payment |-> None]]
             \/ /\ validateProcessPaymentRequest(q)
                /\ Goto(r, IF key = Blank THEN "order" ELSE "key")
                /\ UNCHANGED reply
          /\ seen' = [seen EXCEPT ![r] =
               [key |-> key # Blank /\ GetPaymentByIdempotencyKey(key) # {},
                paid |-> \E p \in Rows(payments) :
                           /\ payments[p].order = q.order
                           /\ payments[p].status = "COMPLETED"]]
  /\ UNCHANGED <<database, provider, clock, draft, result, tx>>

\* Mutant: only a successful payment counts as the original of a duplicate.
FindByKeyPaidOnly(r) ==
  /\ pc[r] = "key"
  /\ ConnFree
  /\ LET paid == {p \in GetPaymentByIdempotencyKey(Key(r)) :
                    payments[p].status = "COMPLETED"}
     IN \/ \E p \in paid : ReturnPayment(r, p, payments[p])
        \/ /\ paid = {}
           /\ Goto(r, "order")
           /\ UNCHANGED <<draft, result, tx, reply>>
  /\ UNCHANGED <<database, provider, clock, req, seen>>

\* The lookup uses the key as the client sent it.
FindByKey(r) ==
  /\ pc[r] = "key"
  /\ ConnFree
  /\ \/ \E p \in GetPaymentByIdempotencyKey(Key(r)) :
          ReturnPayment(r, p, payments[p])
     \/ /\ GetPaymentByIdempotencyKey(Key(r)) = {}
        /\ Goto(r, "order")
        /\ UNCHANGED <<draft, result, tx, reply>>
  /\ UNCHANGED <<database, provider, clock, req, seen>>

\* Mutant: the order is not looked up.
FindByOrderSkipped(r) ==
  /\ pc[r] = "order"
  /\ ConnFree
  /\ Goto(r, "route")
  /\ UNCHANGED <<database, provider, clock, memory, tx, reply, seen>>

FindByOrder(r) ==
  /\ pc[r] = "order"
  /\ ConnFree
  /\ LET paid == {p \in GetPaymentByOrderID(req[r].order) :
                    payments[p].status = "COMPLETED"}
     IN \/ \E p \in paid : ReturnPayment(r, p, payments[p])
        \/ /\ paid = {}
           /\ Goto(r, "route")
           /\ UNCHANGED <<draft, result, tx, reply>>
  /\ UNCHANGED <<database, provider, clock, req, seen>>

\* An unknown or disabled gateway is a 400; otherwise the payment is built.
Route(r) ==
  /\ pc[r] = "route"
  /\ LET gateway == GetGatewayOrDefault(req[r].gateway) IN
     \/ /\ gateway = NoGateway
        /\ ReturnError(r, "GatewayUnavailable")
        /\ UNCHANGED clock
     \/ /\ gateway # NoGateway
        /\ clock' = clock + 1
        /\ draft' = [draft EXCEPT ![r] =
             [status |-> "PENDING", order |-> req[r].order,
              key |-> nullString(Key(r)), amount |-> req[r].amount,
              gateway |-> gateway, created |-> clock']]
        /\ Goto(r, "charge")
        /\ UNCHANGED <<result, tx, reply>>
  /\ UNCHANGED <<database, provider, req, seen>>

\* The gateway is called before anything is written to the database.
Charge(r) ==
  /\ pc[r] = "charge"
  /\ \E answer \in ProcessPayment(draft[r].gateway, Key(r), draft[r].amount,
                                  stripeMemo) :
       /\ result' = [result EXCEPT
                       ![r] = IF answer.success THEN "ok" ELSE "fail"]
       /\ taken' = [taken EXCEPT ![r] = answer.moved]
       /\ stripeMemo' = stripeMemo \cup answer.memo
  /\ Goto(r, "begin")
  /\ UNCHANGED <<database, clock, req, draft, tx, reply, seen>>

-----------------------------------------------------------------------------
(* RunInTx(persistProcessedPayment) *)

Begin(r) ==
  /\ pc[r] = "begin"
  /\ ConnFree
  /\ Goto(r, "insert")
  /\ UNCHANGED <<database, provider, clock, memory, tx, reply, seen>>

\* An INSERT waits for every open transaction that inserted the same key.
KeyInserting(r) ==
  \E s \in Requests \ {r} : draft[r].key # Blank /\ txRow[s].key = draft[r].key

\* Mutant: the index is not unique.
KeyTakenNever(r) == FALSE

\* The unique index has a committed row with the key.
KeyTaken(r) ==
  draft[r].key # Blank /\ GetPaymentByIdempotencyKey(draft[r].key) # {}

\* The columns hold the key and the amount, which nobody checked before.
Fits(row) == row.key \notin Oversized /\ row.amount <= MaxAmount

CreatePayment(r) ==
  /\ pc[r] = "insert"
  /\ Fits(draft[r])
  /\ ~KeyInserting(r)
  /\ ~KeyTaken(r)
  /\ txRow' = [txRow EXCEPT ![r] = draft[r]]
  /\ Goto(r, "processing")
  /\ UNCHANGED <<database, provider, clock, memory, txLog, reply, seen>>

\* The unique index rejects the row: rollback, then look the key up again.
CreatePaymentConflict(r) ==
  /\ pc[r] = "insert"
  /\ Fits(draft[r])
  /\ ~KeyInserting(r)
  /\ KeyTaken(r)
  /\ Goto(r, "recover")
  /\ UNCHANGED <<database, provider, clock, memory, tx, reply, seen>>

\* A value that does not fit its column is an error that is not a unique
\* violation.
CreatePaymentTooLong(r) ==
  /\ pc[r] = "insert"
  /\ ~Fits(draft[r])
  /\ ReturnError(r, "Other")
  /\ UNCHANGED <<database, provider, clock, req, seen>>

\* The row is overwritten with the in-memory payment.
UpdatePayment(r) == txRow' = [txRow EXCEPT ![r] = draft'[r]]

MarkProcessing(r) ==
  /\ pc[r] = "processing"
  /\ draft' = [draft EXCEPT ![r].status = "PROCESSING"]
  /\ UpdatePayment(r)
  /\ Goto(r, "audit")
  /\ UNCHANGED <<database, provider, clock, req, result, txLog, reply, seen>>

CreateTransaction(r) ==
  /\ pc[r] = "audit"
  /\ txLog' = [txLog EXCEPT ![r] = @ \cup
       {[payment |-> r, type |-> "CHARGE", amount |-> draft[r].amount,
         success |-> result[r] = "ok"]}]
  /\ Goto(r, "settle")
  /\ UNCHANGED <<database, provider, clock, memory, txRow, reply, seen>>

\* Mutant: the settled status is set in memory and not written.
SettleInMemory(r) ==
  /\ pc[r] = "settle"
  /\ draft' = [draft EXCEPT
       ![r].status = IF result[r] = "ok" THEN "COMPLETED" ELSE "FAILED"]
  /\ Goto(r, "commit")
  /\ UNCHANGED <<database, provider, clock, req, result, tx, reply, seen>>

Settle(r) ==
  /\ pc[r] = "settle"
  /\ draft' = [draft EXCEPT
       ![r].status = IF result[r] = "ok" THEN "COMPLETED" ELSE "FAILED"]
  /\ UpdatePayment(r)
  /\ Goto(r, "commit")
  /\ UNCHANGED <<database, provider, clock, req, result, txLog, reply, seen>>

\* Mutant: RunInTx returns without COMMIT.
CommittedNothing(r) == UNCHANGED database

Committed(r) ==
  /\ payments' = [payments EXCEPT ![r] = txRow[r]]
  /\ transactions' = transactions \cup txLog[r]

\* The client is answered from the in-memory payment.
Commit(r) ==
  /\ pc[r] = "commit"
  /\ Committed(r)
  /\ ReturnPayment(r, r, draft[r])
  /\ UNCHANGED <<provider, clock, req, seen>>

\* After a unique violation, the row of the key as the client sent it is
\* returned; without one, the violation itself is reported.
Recover(r) ==
  /\ pc[r] = "recover"
  /\ ConnFree
  /\ \/ \E p \in GetPaymentByIdempotencyKey(Key(r)) :
          ReturnPayment(r, p, payments[p])
     \/ /\ GetPaymentByIdempotencyKey(Key(r)) = {}
        /\ ReturnError(r, "Other")
  /\ UNCHANGED <<database, provider, clock, req, seen>>

-----------------------------------------------------------------------------
(* Faults *)

\* A statement fails, or the client went away and its context is cancelled:
\* RunInTx rolls back and the error is a 500.
StatementFails(r) ==
  /\ Faults
  /\ pc[r] \in DbPcs
  /\ ReturnError(r, "Other")
  /\ UNCHANGED <<database, provider, clock, req, seen>>

\* COMMIT took effect but its answer did not arrive.
CommitAnswerLost(r) ==
  /\ Faults
  /\ pc[r] = "commit"
  /\ Committed(r)
  /\ ReturnError(r, "Other")
  /\ UNCHANGED <<provider, clock, req, seen>>

\* The process dies, or is stopped 20 s into a graceful shutdown.
Crash ==
  /\ Faults
  /\ InFlight # {}
  /\ pc' = [r \in Requests |-> IF r \in InFlight THEN "done" ELSE pc[r]]
  /\ reply' = [r \in Requests |->
       IF r \in InFlight THEN [code |-> "dropped", payment |-> None]
                         ELSE reply[r]]
  /\ draft' = [r \in Requests |-> NoRow]
  /\ result' = [r \in Requests |-> "none"]
  /\ txRow' = [r \in Requests |-> NoRow]
  /\ txLog' = [r \in Requests |-> {}]
  /\ UNCHANGED <<database, provider, clock, req, seen>>

-----------------------------------------------------------------------------
(* Specification *)

\* What the server does for a request it has received.
Serve(r) ==
  \/ FindByKey(r) \/ FindByOrder(r) \/ Route(r) \/ Charge(r) \/ Begin(r)
  \/ CreatePayment(r) \/ CreatePaymentConflict(r) \/ CreatePaymentTooLong(r)
  \/ MarkProcessing(r) \/ CreateTransaction(r) \/ Settle(r) \/ Commit(r)
  \/ Recover(r)

Fault(r) == StatementFails(r) \/ CommitAnswerLost(r)

\* Every request has been answered.
Finished == (\A r \in Requests : pc[r] = "done") /\ UNCHANGED vars

Next ==
  \/ \E r \in Requests : Receive(r) \/ Serve(r) \/ Fault(r)
  \/ Crash
  \/ Finished

Spec == Init /\ [][Next]_vars
-----------------------------------------------------------------------------
(* Properties *)

TypeOK ==
  /\ payments \in [Requests -> PaymentRow]
  /\ transactions \subseteq Transaction
  /\ taken \in [Requests -> Int]
  /\ stripeMemo \subseteq Memo
  /\ clock \in Nat
  /\ req \in [Requests -> RequestType]
  /\ pc \in [Requests -> Pcs]
  /\ draft \in [Requests -> PaymentRow]
  /\ result \in [Requests -> {"none", "ok", "fail"}]
  /\ txRow \in [Requests -> PaymentRow]
  /\ txLog \in [Requests -> SUBSET Transaction]
  /\ reply \in [Requests -> Reply]
  /\ seen \in [Requests -> [key : BOOLEAN, paid : BOOLEAN]]

\* Two requests carry the same idempotency key.
SameKey(r, s) ==
  /\ Trim[Key(r)] # Blank
  /\ Trim[Key(r)] = Trim[Key(s)]

\* The key has no surrounding white space, as every key sent in a header.
CleanKey(r) == Key(r) = Trim[Key(r)]

Answered(r) == reply[r].code \in {"201", "202"}

\* The database never shows a payment half done: whatever fails between the
\* four statements of persistProcessedPayment, a committed payment is COMPLETED
\* or FAILED and has exactly one CHARGE audit row, which agrees with it; and
\* there is no audit row without its payment.
SettledAndAudited ==
  /\ \A p \in Rows(payments) :
       /\ payments[p].status \in {"COMPLETED", "FAILED"}
       /\ {t \in transactions : t.payment = p} =
            {[payment |-> p, type |-> "CHARGE", amount |-> payments[p].amount,
              success |-> payments[p].status = "COMPLETED"]}
  /\ \A t \in transactions : t.payment \in Rows(payments)

\* However many duplicates race past the two lookups, at most one committed
\* payment carries an idempotency key.
KeyUnique ==
  \A p, q \in Requests :
    /\ p # q
    /\ payments[p].key # Blank
    => payments[q].key # payments[p].key

\* The charges that can be the one a completed payment stands for: its own, or
\* the one Stripe replayed to it.  Stripe takes whole cents, never more than
\* the recorded amount.
Backers(p) ==
  {c \in charges :
     \/ /\ c = p
        /\ payments[p].gateway = "mock"
        /\ taken[c] = payments[p].amount
     \/ /\ payments[p].gateway = "stripe"
        /\ payments[p].amount - taken[c] \in 0 .. (UnitsPerCent - 1)
        /\ \/ c = p
           \/ /\ payments[p].key # Blank
              /\ payments[p].key = Trim[Key(c)]}

\* Money recorded was moved: every COMPLETED payment stands for a charge of its
\* amount, to the cent, and no two of them for the same charge.
PaidIsBacked ==
  \A p \in Rows(payments) :
    payments[p].status = "COMPLETED" =>
      /\ Backers(p) # {}
      /\ \A q \in Rows(payments) \ {p} :
           payments[q].status = "COMPLETED" => Backers(p) \cap Backers(q) = {}

\* A 201 or 202 names a committed payment of the request's own key or order,
\* and is 201 exactly when that payment is COMPLETED.
ReplySound ==
  \A r \in Requests : Answered(r) =>
    LET p == reply[r].payment IN
    /\ p \in Rows(payments)
    /\ (reply[r].code = "201") <=> (payments[p].status = "COMPLETED")
    /\ \/ payments[p].key # Blank /\ payments[p].key = Trim[Key(r)]
       \/ payments[p].order = req[r].order

\* Racing duplicates sent to Stripe move money once, because the key goes with
\* the call.
StripeKeyChargedOnce ==
  \A r, s \in charges :
    /\ SameKey(r, s)
    /\ GetGatewayOrDefault(req[r].gateway) = "stripe"
    /\ GetGatewayOrDefault(req[s].gateway) = "stripe"
    => r = s

\* A duplicate that arrives after the payment of its key was committed never
\* reaches a gateway, even if that payment FAILED or is of another order.
DuplicateNeverCharges ==
  \A r \in Requests : seen[r].key /\ CleanKey(r) => r \notin charges

\* Money that moved for a request without a COMPLETED payment of its own is
\* never reported as that request's success: the client saw an error or a closed
\* connection, or was given the payment of a duplicate that won the race, or
\* Stripe's answer did not say "succeeded" and the payment is FAILED.
OrphanChargeExplained ==
  \A r \in charges :
    pc[r] = "done" /\ payments[r].status # "COMPLETED" =>
      \/ reply[r].code \in {"500", "dropped"}
      \/ /\ Answered(r)
         /\ reply[r].payment # r
         /\ payments[reply[r].payment].key = Trim[Key(r)]
      \/ /\ payments[r].status = "FAILED"
         /\ payments[r].gateway = "stripe"

\* Requests served one after the other: a key moves money a second time only
\* if the client of one of the two was told of an error.
RechargeOnlyAfterError ==
  \A r, s \in charges :
    r # s /\ SameKey(r, s) /\ CleanKey(r) /\ CleanKey(s)
      => \E t \in {r, s} : reply[t].code \in {"500", "dropped"}

\* A request for an order that has a COMPLETED payment moves no money.
PaidOrderNeverCharged ==
  \A r \in Requests : seen[r].paid => r \notin charges

\* Every request sent with the key of r is for the order of r.
OneOrderKey(r) ==
  \A t \in Requests :
    pc[t] # "idle" /\ SameKey(r, t) => req[t].order = req[r].order

\* Duplicates are given the same payment, if their key was used for one order
\* only.
SameKeySameReply ==
  \A r, s \in Requests :
    /\ Answered(r) /\ Answered(s)
    /\ SameKey(r, s) /\ CleanKey(r) /\ CleanKey(s)
    /\ OneOrderKey(r)
    => reply[r].payment = reply[s].payment

\* What a client may see of the tables: an account per committed payment.
Account(p) == [status |-> payments[p].status, amount |-> payments[p].amount,
               refunded |-> 0]

Book == INSTANCE Ledger WITH
          Accounts <- Requests,
          Amounts <- {q.amount : q \in Inputs},
          account <- [p \in Requests |-> Account(p)]

\* Whatever happens in between, the only thing a payment does to the database is
\* to add its settled row, once.
ImplementsLedger == Book!Spec

(* The inductive strengthening the proofs rest on *)

ChargedPcs == {"begin", "recover", "done"} \cup InTxPcs
DraftPcs == {"charge", "begin", "recover"} \cup InTxPcs
WrittenPcs == {"processing", "audit", "settle", "commit"}

\* What ProcessPayment has established for r where it stands.
StepOK(r) ==
  /\ r \in charges => pc[r] \in ChargedPcs
  /\ payments[r].status # "absent" => pc[r] = "done"
  /\ payments[r].status = "absent" => payments[r] = NoRow
  /\ pc[r] \in DraftPcs =>
       /\ draft[r].status # "absent"
       /\ draft[r].order = req[r].order
       /\ draft[r].key = Trim[Key(r)]
       /\ draft[r].amount = req[r].amount
       /\ draft[r].gateway = GetGatewayOrDefault(req[r].gateway)
  /\ txRow[r] = IF pc[r] \in WrittenPcs THEN draft[r] ELSE NoRow
  /\ txLog[r] =
       IF pc[r] \in {"settle", "commit"}
       THEN {[payment |-> r, type |-> "CHARGE", amount |-> draft[r].amount,
              success |-> result[r] = "ok"]}
       ELSE {}
  /\ pc[r] = "commit" =>
       draft[r].status = IF result[r] = "ok" THEN "COMPLETED" ELSE "FAILED"

\* The key of an uncommitted row is on no other row, committed or not.
OpenKeyUnique ==
  \A r, s \in Requests :
    r # s /\ txRow[r].key # Blank =>
      txRow[s].key # txRow[r].key /\ payments[s].key # txRow[r].key

\* A duplicate that was known on arrival stops at its first lookup.
SeenStops(r) ==
  seen[r].key =>
    /\ Trim[Key(r)] # Blank
    /\ GetPaymentByIdempotencyKey(Trim[Key(r)]) # {}
    /\ CleanKey(r) => pc[r] \in {"key", "done"} /\ r \notin charges

\* Between any two steps: every request is where its transaction and its memory
\* say it is, uncommitted keys are reserved, and known duplicates go nowhere.
StepsConsistent ==
  /\ \A r \in Requests : StepOK(r)
  /\ OpenKeyUnique
  /\ \A r \in Requests : SeenStops(r)

(* What the repository's documents promise, and the code does not keep *)

\* "Duplicate requests (same idempotency key) must return the original result,
\* never double-charge": no two requests with one key both move money.
NeverDoubleCharge ==
  \A r, s \in charges : SameKey(r, s) => r = s

\* The same promise for a duplicate that arrives after the payment of its key
\* was committed, for keys as clients may send them.
LateDuplicateNeverCharges ==
  \A r \in Requests : seen[r].key => r \notin charges
=============================================================================
