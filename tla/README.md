# Verification of shopping-cart-payment

TLA+ models of the payment service, the TLC runs that check them on small
instances and the theorems TLAPS proves about them. The models are translated
from the Go service under `src/go`; the Java service under `src/src/main/java`
is the implementation it replaces and shares its database schema.

Run a model with `tlc -config payment_races.cfg MCPaymentService` and check the
proofs with `tlapm PaymentServiceProofs.tla`, and likewise the other modules whose
name ends in `Proofs`. `PROJECT.json` lists components, runs, mutants (plausible
bugs that each property detects), the source lines of every definition, findings,
hazards and theorems.

## 1. Inventory

| Component | State it keeps | Operations | What makes it correct |
|---|---|---|---|
| `PaymentService.ProcessPayment` (`go/internal/payment/service.go`) and its handler | none in memory between requests; one `*Payment`, the gateway's answer and a transaction per request | look up the key, look up the order, route, charge, then one transaction: insert, PROCESSING, audit row, settle; recover from a unique violation | a key is on one payment; a committed payment is settled and audited; duplicates are not charged and get the original; every answer tells the truth |
| `RefundService.ProcessRefund` (`refund.go`) and its handler | as above, with a `*Refund` and the locked `*Payment` | look up the correlation id, read and check the payment, then one transaction: lock the row, check again, sum the refunds, insert, REFUND_PENDING, PROCESSING, call the gateway, audit row, settle | refunds never exceed the payment; the payment's status tells the state of its refunds; a finished payment stays finished |
| `Store` (`store.go`) and PostgreSQL | tables payments, refunds, transactions; a pool of connections | `RunInTx`, INSERT, UPDATE, SELECT, SELECT ... FOR UPDATE | all or nothing; one row per key; waiting ends |
| Gateways (`go/internal/gateway`) | Stripe's memory of idempotency keys (external) | route by name; charge, for Stripe in whole cents; refund; tokenize | money moves at most once per key where the provider deduplicates; what is recorded was charged, to the cent |
| Rate limiter (`httpx/middleware.go`) | map from client address to token bucket, under a mutex | get or create, allow, sweep every minute | a client cannot exceed its budget |
| Read endpoints (`handler.go`) | none | a payment by id or order, its refunds | two reads by one client fit together |
| Server (`cmd/server/main.go`) | the pool, the listener, the signal channel | load, connect, listen, drain within 20 s, close the pool | accepted requests are answered; the end of a process and an outage lose the record of money only in known ways; shutdown ends |
| Configuration (`config.go`) | none | texts of the environment with defaults | no gateway moves money unless the operator asked for it |
| Health (`health.go`) | none | constant answers; readiness pings the pool | a draining process is ready until it has drained |
| Encryption (`crypto/encryption.go`) | switched on or not, a key | decode the key, encrypt, decrypt | nothing in the clear while it is on; what comes out was put in |
| Masking, JSON, headers, request log | none | formatting | |
| Java service | as the Go service | as the Go service, with other transaction boundaries | the same promises |

How they interact. The router, the store and the pool are shared by all request
goroutines, and the server starts and ends them all; each request runs `ProcessPayment` or `ProcessRefund` to its end in
its own goroutine. The services share the payments table: a payment writes its
row once, a refund later locks and rewrites it. Gateways are called
synchronously. `ProcessPayment` calls the gateway *before* its transaction,
`ProcessRefund` *inside* it, with the row locked.

What is hard. Duplicates that race past the lookups; a charge whose record
fails to be written; a COMMIT whose answer is lost; a crash between the charge
and the COMMIT; Stripe answers that are lost or not yet "succeeded"; transactions
that hold a connection while they wait for a row or a key; statuses read before
a lock and used after it; the order of `created_at`, which is taken before the
gateway call; keys compared as sent and stored trimmed. `PROJECT.json` lists
each at its line under `hazards`, with the properties that would notice.

## 2. Modules

| Module | What it is |
|---|---|
| `PaymentTypes` | statuses, the payment row, `nullString`, `APIErrorFromErr`. Texts are members of a set with a function `Trim`, the only thing the code does with them |
| `Router` | the adapter a gateway name leads to |
| `Gateway` | for each adapter the set of answers it can give: what it reports, how much money moved, what Stripe remembers; `MinorUnits` is `Shift(2).IntPart()` with the width of its integer |
| `Money` | exact sums of amounts in ten-thousandths, the scale of the columns |
| `Ledger` | the abstract specification: accounts that are opened once and refunded until nothing is left or a refund fails |
| `PaymentService` | POST /api/v1/payments |
| `RefundService` | POST /api/v1/payments/{id}/refund |
| `Service` | both services on one payments table and one pool, with the reads and `UpdatePaymentStatus` |
| `RateLimiter` | the rate limiting middleware, its map of token buckets and the goroutine that sweeps it |
| `Config` | what `Load` and `main` make of an environment |
| `Server` | `main()` from start to end, over and over, with requests in flight; extends `Config` and instantiates `Router` |
| `Encryption` | the encryption service and what is stored through it, over restarts |
| `MCPaymentService`, `MCRefundService`, `MCService`, `MCRateLimiter`, `MCServer`, `MCEncryption` | instances for TLC |
| `PaymentServiceProofs` | theorems about payments: types, the tables, duplicates, the refinement of `Ledger` |
| `PaymentMoneyProofs` | theorems that relate the payments and the responses to the money that moved; extends the former |
| `PaymentSequentialProofs` | theorems about requests served one after the other; extends the former |
| `RefundServiceProofs` | theorems about refunds, on lemmas about sums of amounts |
| `ServiceProofs` | theorems about both services on one table, with `UpdatePaymentStatus` and the reads; instantiates the proofs of both |
| `ServerProofs`, `RateLimiterProofs`, `EncryptionProofs` | theorems about these modules |

Both services are modelled the same way. A request is named by the uuid of the
row it creates. `pc[r]` says where the handler stands. One action is one
database statement, one gateway call, or one return, so any other request can
run between two of them; code between two such points touches only the
request's own memory. `draft`, `result`, `locked` and `remaining` are local
variables of the Go function, `txRow`/`txPayment`/`txRefund`/`txLog` are the
rows its open transaction has written (read committed: nobody else sees them),
`payments`/`refunds`/`transactions` the committed tables. `taken` (with
`charges`, the requests for which it is not zero) and `gatewayRefunds` are what
the providers really did, which the code cannot see.
`seen` is history: what was already committed when the request arrived.

PaymentService, action by action:

| Action | Code |
|---|---|
| `Receive` | `processPayment` binds and validates the request and chooses the key among two headers and the body |
| `FindByKey`, `FindByOrder` | `service.go:32-46` |
| `Route` | `service.go:48-73`, `CreatedAt` included |
| `Charge` | `service.go:75-105` and the adapter |
| `Begin` | `RunInTx` takes a connection |
| `CreatePayment`, `CreatePaymentConflict`, `CreatePaymentTooLong` | the INSERT succeeds, violates the unique index, or does not fit VARCHAR(50) or NUMERIC(19,4). It waits while another open transaction holds the key |
| `MarkProcessing`, `CreateTransaction`, `Settle` | `persistProcessedPayment` |
| `Commit` | COMMIT and the answer |
| `Recover` | `service.go:116-123` |
| `StatementFails` | a statement fails or the client's context is cancelled: rollback, 500 |
| `CommitAnswerLost` | the COMMIT takes effect, the caller sees an error |
| `Crash` | the process dies: everything in flight is dropped, open transactions are rolled back |

RefundService has `FindByCorrelation`, `GetPayment`, `Begin`,
`GetPaymentForUpdate` (which waits for the row), `CheckRemaining`,
`CreateRefund`, `MarkRefundPending`, `MarkProcessing`, `CallGateway`,
`CreateTransaction`, `SettlePayment`, `SettleRefund`, `Commit` and the same
faults. `InitialPayments` are tables that `PaymentService` can have committed;
`InitialAssumption` states what is used of them, and it is what
`SettledAndAuditedHolds` proves of `PaymentService` together with the amount
check of its handler. In `Service` the table starts empty instead.

`Ledger` is what a reader of the committed tables may rely on. An account is
the status, the amount and the refunded total of a payment; `Account` in
`PaymentService` and `RefundService` is the refinement mapping, and
`ImplementsLedger` the ledger's specification under it: of all the steps of the
two services only a COMMIT is visible, and it is one `Pay`, `Refund` or
`RefundFails`.

`Service` uses the actions of the two services as they are and adds the shared
pool (a statement outside a transaction, and `Begin`, need a connection that
neither service holds), a crash that takes both, `UpdateReads` and
`UpdateWrites` for the two statements of `UpdatePaymentStatus`, and clients that
read a payment (`GetPayment` by id, `GetPaymentByOrderID` by order) and then its
refunds (`GetRefundsByPayment`). `UpdatePaymentStatus` has no caller in the
repository; it is an exported operation and part of the model so that its effect
on refunds is known. `LedgerKept` is the ledger with its writes let through.

`Server` keeps of a request what the life of the process can interrupt: lookups
and routing, the gateway call, the transaction, the answer, and when it holds a
connection. A payment calls the gateway without one, a refund with one. Every way
in which a request fails in a process that lives on (a refusal, a row that is
missing, an overlong key, a statement that fails, a client that goes away) is
`Fail`, which sets its flag `failed`; `Finish` ends the transaction with what the
database kept of it and what the client will be told, and `Commit` can end
recorded, recorded with the answer lost, in a unique violation that is answered
with the other request's payment, failed, or cut off. What each of these means for
the money is the matter of `PaymentService` and `RefundService`.
`phase` follows `main()`: `Start`, `Connect`, `Notify`, then `Signal` (Shutdown
begins), `Drained` or `GraceOver` (Shutdown returns), and `Closed` (the deferred
`db.Close()` returns, which waits for connections in use). The listener's
goroutine has actions of its own (`Listen`, `AcceptFails`), since it may accept
requests before `signal.Notify` was called. `logger.Fatal` (`ListenError`, a
failing `Connect`), a signal that comes too early (`EarlySignal`) and `Kill` end
the process at once. `Outage` and `Return` are the database. `events` records
what has happened to the process, `fate` what had happened when a request ended;
`outcome` is what the handler is about to answer, and is cleared once it has.
Restarts are not bounded; the requests of a new process are fresh ones.

`Encryption` describes a key text by what the two decoders look at (alphabet,
length, padding, and line ends, which the base64 decoder skips and the other
refuses) and by what it spells, so that two texts can decode to one key; and a
clear text by whether and to how many bytes it decodes as
base64, which `Decrypt` looks at. AES-GCM is taken to be perfect. No Go package
constructs the service yet: `Write`, `Read` and `Restart` are its callers and
its operator.

RateLimiter counts time in ticks of 1/`RateLimitPerSecond` seconds, so a bucket
gains one token per tick and the fractions of a token between two ticks are left
out. `getLimiter` (get or create under the mutex, refresh `lastSeen`), `Allow`
(refill and take a token, under the bucket's own mutex) and the two halves of a
sweep (`SweepStarts` computes the cutoff, `SweepDeletes` takes the mutex) are
separate actions, so a sweep can come between the two halves of a request.
`golang.org/x/time/rate` is external and modelled as a token bucket. `Tick`
lets no runnable goroutine wait longer than `MaxStall`; without such a bound a
request stalled for the whole TTL could spend a token of a forgotten bucket, and
with it this cannot happen (section 4).
`LimiterAssumption` asks for `MaxStall + Burst <= TTL`, which the defaults (10
minutes at 10 per second, burst 20) meet for stalls of up to nearly ten minutes.

## 3. Runs

| Run | Instance | Checks |
|---|---|---|
| `payment_races` | 2 requests in flight, 16 kinds of input (keys blank, padded, too long, in a header or the body; all gateways, an unknown one, the default; 2 orders; amounts of no cent, whole and broken cents and one that wraps; refused requests), faults | the safety invariants of a payment, and that it implements `Ledger` |
| `payment_sequential` | 3 requests one after the other, 8 inputs, faults | what a client that waits for its answers and retries may rely on |
| `refund_races` | 2 full, partial, excessive or refused refunds of 2 payments on several gateways and statuses, faults | the sum, the payment's status, settled and audited refunds, truthful answers, duplicates, and that it implements `Ledger` |
| `service` | 2 payments of one order with the same key or without one, 2 refunds, an `UpdatePaymentStatus`, a client that reads; 2 connections | what only the two services together can break |
| `service_liveness` | 2 racing duplicates of a payment, 2 racing refunds, 2 connections, faults | the audit log tells every account; every request is answered |
| `rate_limiter` | 4 requests of 2 clients, burst 2, TTL 3, a sweep every 2 ticks, 7 ticks | no client gets more than its budget in any interval, none is refused below it, idle clients are forgotten |
| `server` | a payment, a refund and a readiness probe; 5 environments (nothing set, texts that do not parse, the mock, Stripe by default, an unusable port); any number of restarts, kills and outages | what the life of a process adds to the ways of losing records and dropping requests; draining; who enables gateways; shutdown ends |
| `encryption` | 2 columns, 3 starts, 11 key texts (good, too short, too long, hexadecimal, undecodable, empty, some of them with a line end), 4 texts | nothing in the clear; reads over changes of the key; no key text is taken for another |

Bounds. Two racing requests are enough for every pairwise race here (a key, an
order, a row, a connection); three sequential requests are needed for
"original, retry, retry of the retry". 3 units refunded as 1, 2, 3 or 4 by two
requests reach "less", "exact" and "too much". With two units to the cent
(`UnitsPerCent`, 100 in the code) an amount can have a broken cent, with integers
of eight values (`Word`, 2^64) one can wrap, and `MaxAmount` is small enough
that the column refuses it: the order of the three bounds is that of the code.
More requests and larger numbers are what the proofs are for.
In `rate_limiter` seven ticks (`MaxTime`) are time for a client to empty its
bucket, be forgotten by a sweep and come back; four requests exceed the burst.
In `server` one request of a kind suffices, since the life of the process treats
them alike and they share nothing else there. Three starts in `encryption` allow
for a write, another key, and the first one again. In `service`, `MaxInFlight`
keeps payments one after the other (their races are in `payment_races`), while
refunds, the update and the reads interleave with them freely.
Symmetry is over request names, which no definition tells apart, and is not used
in the runs with fairness.

Fairness. `FairSpec` of `Service` has weak fairness of each request's own server
steps: goroutines are scheduled, PostgreSQL and the gateway clients answer in the
end. Clients need not send anything and no fault has to happen. Weak fairness
suffices for the waits (a row, a key, a connection) because whoever is waited
for always gets on and, with finitely many requests, the wait ends. `FairSpec`
of `Server` is weak fairness of the process's own steps (`Own`): as long as some
request can get on, the 20 seconds can pass or `db.Close()` can return, one of
these happens in the end. Nobody has to start or signal the process, and the
database need not come back.

What the composed runs show beyond their parts. A retry with the key of a
payment (one without surrounding spaces) is never charged, even when the payment was refunded since; a new
request for the order is, once the refunds are over (`COMPLETED` is the only
status the order lookup counts), and if a refund *failed* the order is then paid
twice: `PaidOrderChargedOnlyAfterRefund` says exactly that. Its other case,
`DeclaredPaid`, is an order whose charge failed and that `UpdatePaymentStatus`
declared COMPLETED. `UpdatePaymentStatus`
can write a stale `COMPLETED` over `REFUNDED`; refunds add up the refunds table
and do not trust the status, so `NoOverRefund` survives it. `LossExplained`
lists what the life of the process *adds* to the ways in which money moves and is
not recorded: a sudden end, an outage and, for payments only, the end of the 20
seconds; a refund in that position is still recorded, because `db.Close()` waits
for its connection. The ways a request has of its own, in a process that lives on
(a conflict, an overlong key, a failing statement, a client that goes away), carry
the flag `failed` there and are told apart in `OrphanChargeExplained` and
`LostRefundReported`.

### What the code does not keep

Four runs end in a counterexample that shows a sentence of the repository's own
documents or tests to be untrue; `PROJECT.json` quotes it under `findings`.

| Run | What happens |
|---|---|
| `payment_double_charge` | two concurrent requests with one key both charge (mock); the unique index only prevents the second *row*. With Stripe the key goes along and `StripeKeyChargedOnce` holds |
| `payment_padded_key` | a key with a space in the JSON body is looked up untrimmed and stored trimmed: its duplicates are charged again. `DuplicateNeverCharges` is the same property for keys without such spaces, and holds |
| `payment_paid_order` | of two concurrent attempts the failed one has the later `created_at`; a third request charges the paid order. One after the other it cannot happen (`payment_sequential`) |
| `refund_shared_correlation` | the correlation id of a refund of another payment answers this one |

Two *concurrent* refunds with one correlation id both happen: the lookup is
outside the transaction and `refunds.correlation_id` has no unique index. What
bounds the damage is `NoOverRefund`; what a sequential retry may rely on is
`LateDuplicateNeverRefunds`.

A key that is used again *for another order* can have two answers. Say payment `p`
has paid order 1, without a key. A request with key `k` for order 1 is given `p`,
which the order lookup finds; one with `k` for order 2 is charged and its payment
gets the key; and the first one, sent again, is now given *that* payment, which is
of order 2. `.github/copilot-instructions.md:21` says "Duplicate requests (same
idempotency key) must return the original result". `SameKeySameReply` therefore
speaks of keys that were used for one order only (`OneOrderKey`). It takes four
requests to get there, one more than `payment_sequential` has; the attempt to
prove the property without the hypothesis found it, and TLC confirmed it. What
holds of every key is `ReplySound`: the payment is of the request's key or order.

A charge whose transaction fails, or whose process dies first, leaves no row of
any kind, although `memory-bank/projectbrief.md:13` asks for a record of every
gateway interaction; `OrphanChargeExplained` says what is true instead: such a
charge is never reported as a success. And `decodeKey` says a key "must be base64
or hex" (`encryption.go:51`), but the 64 hexadecimal digits of a 32 byte key are
also valid base64, for 48 bytes; base64 is tried first, so the process refuses the
key with "must be 32 bytes" (`encryption.go:38`). No hexadecimal key works. What
makes this harmless is `NoAmbiguousKey`: a text that both decoders accept never
becomes a key, so the wrong guess always ends in a refusal to start and never in
another key.

## 4. Proofs

### Payments

`PaymentServiceProofs` proves, for every set of requests, texts, gateways, any
pool size and with or without faults:

* `TypeCorrect`: `Spec => []TypeOK`;
* `Inductive`: `Spec => []IndInv`, with
  `IndInv == TypeOK /\ SettledAndAudited /\ KeyUnique /\ StepsConsistent`;
* `SettledAndAuditedHolds`, `KeyUniqueHolds` and `DuplicateNeverChargesHolds`;
* `PaymentsImplementLedger`: `Spec => ImplementsLedger`.

Assumptions: `TrimAssumption` (trimming is idempotent and leaves the blank text
alone), `RouterAssumption` (adapter names are lower case), `GatewayAssumption` and
`ServiceAssumption` (types of the constants). TLC evaluates them in every run.

The invariants are not inductive as they stand. `KeyUnique` speaks of committed
rows, and a COMMIT publishes a row that was checked earlier: `OpenKeyUnique`
adds that the key of an uncommitted row is on no other row, which the wait for
open inserts keeps. `SettledAndAudited` needs to know what a transaction about to
commit holds: `StepOK` ties the uncommitted row and audit row to `draft`,
`result` and `pc`. `DuplicateNeverCharges` needs that a duplicate known on
arrival never gets past its first lookup: `SeenStops`, which rests on committed
rows never disappearing. The proof has one step per action. The refinement needs
the same invariant at one place, the COMMIT, where `StepOK` says the new row is
settled, and `Validated`, that a request past its handler has a positive amount.

### Payments and money

`PaymentMoneyProofs` proves, under the same assumptions, `MoneyInductive`
(`Spec => [](IndInv /\ MoneyInv)`) and from it `ReplySoundHolds`,
`StripeKeyChargedOnceHolds`, `OrphanChargeExplainedHolds` and `PaidIsBackedHolds`.

These properties compare a row or a response with a charge that happened many
steps, and possibly another request, earlier. `MoneyInv` carries the connection:

* `RowOK`: a committed row has the trimmed key, the order, the amount and the
  adapter of its request, and the amount fits NUMERIC(19,4).
* `ChargeOK`: what each adapter's answer means from the call to the COMMIT. A
  "success" of the mock is a charge of the amount; one of Stripe is a charge of
  the whole cents in it, or the replay of one that another call with the key made
  (`Replayed`).
* `MemoOK`: Stripe remembers the key of every charge it made with one, and for
  every key it remembers as paid there is a charge of that many cents.
* `GuardOK`: `fits` was checked before a row was written, and only a request with
  a key waits for the row of another.
* `ReplyOK`: what a response says of the payment it names. Committed rows never
  change in this module, so it stays true.

`PaidIsBacked` needs arithmetic too: `CentsOf` shows that an amount the column
accepts is sent to Stripe without wrapping and less than a cent below itself.
That two payments never share a charge rests on `KeyUnique`: a replayed charge is
told by its key, and one committed payment has the key.

`PaymentSequentialProofs` has the three properties a client relies on that waits
for its answer before it retries: `RechargeOnlyAfterErrorHolds`,
`PaidOrderNeverChargedHolds` and `SameKeySameReplyHolds`. They assume finitely
many requests (`MaxInFlight` bounds a cardinality) and `MaxInFlight = 1`; they are
false without it, which is what `payment_double_charge` and `payment_paid_order`
show. Every fault of the model remains possible. `SeqInv` says why one at a time
makes the difference: what the two lookups found is still true when the row is
written (`LookupsHold`), because nobody else can COMMIT (`SoleWriter`); the payment
being built is the youngest (`DraftIsYoungest`), so that the latest payment of an
order is its COMPLETED one, if it has one (`PaidIsLast`), and this is the row
`GetPaymentByOrderID` returns. `GivenByKeyOrOrder` relates the answers of two
duplicates; it is where a key of two orders had to be excluded.

### Refunds

`RefundServiceProofs` proves, for every finite set of refund requests, every set
of payments and amounts, any pool size and with or without faults:

* `RefundTypeCorrect`: `Spec => []TypeOK`;
* `RefundInductive`: `Spec => []IndInv`, with `IndInv` the conjunction of
  `TypeOK`, `RefundStepsConsistent` and the three invariants below;
* `NoOverRefundHolds`, `StatusMatchesRefundsHolds`,
  `RefundSettledAndAuditedHolds`, `RefundStepsConsistentHolds`;
* `FinishedPaymentsStayHolds`, an action property, from the same invariant;
* `RefundsImplementLedger`: `Spec => ImplementsLedger`. The COMMIT of a refund is
  a `Refund` of what `remaining` allows or a `RefundFails`; the amounts of the
  ledger's step are those of `CommitTotals`;
* `RefundRepliesInductive`, and from it `RefundReplySoundHolds`,
  `LostRefundReportedHolds` and `LateDuplicateNeverRefundsHolds`.

Assumptions: those on texts and gateways, `RefundAssumption` (types of the
constants, finitely many requests) and `InitialAssumption` (what a payment can
have left behind).

`NoOverRefund` is not inductive: COMMIT adds an amount that was checked many
steps earlier. `RefundStepOK` carries the check across them: while `r` holds the
row, `locked` has the amount of the committed row, `remaining` is exactly that
amount less what is refunded now, and the amount of `r` is not more. It survives
the commits of others only because nobody else holds the same row
(`RowExclusive`), which `GetPaymentForUpdate` keeps by waiting. `TypeOK` itself
needs `RefundStepOK`: `remaining` is a natural number because the request's
amount is positive and was not refused. The proof splits a step into `Advance`,
`Rollback` (a return without COMMIT), `CommitReturn` and `Crash`; only
`CommitReturn` writes the tables (`TablesNext`). What it does to the sums is
`CommitTotals`, which rests on `TotalAdd`: a sum grows by
exactly the amount that is added. Sums are cardinalities of sets of units, so
that this follows from the library's facts about finite sets without induction.

What the clients are told needs little beside it (`ReplyOK`): a response names a
committed refund, committed refunds are never written again (`RefundsStay`), and a
duplicate known on arrival never gets past the lookup, because a correlation id
that has a latest refund always has one (`CorrelationStays`).

### Both services together

`ServiceProofs` proves of `Service`, for any payment requests, any finite set of
refund requests, any `Updates`, clients and pool size, with and without faults:

| Theorem | Property | Hypothesis |
|---|---|---|
| `ServiceInductive` | `SInv` | |
| `NoOverRefundHolds` | `NoOverRefund` | |
| `AuditTellsAccountHolds` | `AuditTellsAccount` | |
| `RetryNeverCharges` | `RetryAfterRefundNeverCharges` | |
| `ReportsAgreeHolds` | `ReportsAgree` | `UpdatePaymentStatus` sets neither `REFUNDED` nor `REFUND_FAILED` |
| `ServiceKeepsLedger` | `LedgerKept` | it does not set `REFUND_PENDING` |
| `PaidOrderHolds` | `PaidOrderChargedOnlyAfterRefund` | it sets only `COMPLETED`; `MaxInFlight = 1` |

The hypotheses on `UpdatePaymentStatus` are needed: with one of the excluded
statuses (`FAILED` in the last case) TLC finds a counterexample on the instance of
`service`. A status it makes up is shown to a client; a refund starts from
`REFUND_PENDING` a second time; a paid order marked `FAILED` between the arrival
of a request and its lookup is charged. `CompositionAssumption` states what the
constants of the two services have in common.

Each service was proved correct on tables nobody else writes. The two modules are
instantiated here, as `PP` and `RP`, and `SamePurchases` and `SameReturns` say
that the definitions they reason about are those `Service` is made of. A step of
one service keeps that service's half of `SInv` by the lemmas of its own module
(`PurchaseNext`, `ReturnNext`). What is new is that it keeps the other half, and
that `UpdateWrites` keeps both (`PurchasesFrame`, `ReturnsFrame`). The halves are not
the invariants of the modules: `SettledAndAudited` and `StatusMatchesRefunds` are
false here, since refunds settle payments again and `UpdatePaymentStatus` writes
any status. `PurchasesOK` and `ReturnsOK` keep what does not speak of the status.

All frame conditions come down to `SameButStatus`: once committed, a row changes
in its status only. Two writers put back a whole row that they read earlier, so
this needs an invariant about memory. `LockedKept` says it of the row a refund has
locked and `UpdatesKept` of the row `UpdatePaymentStatus` has read *without* a lock.
A refund also relies on the status of its row staying refundable while it holds
the lock (`LockedStay`); `UpdateWrites` keeps that by waiting for the row.
`NoOverRefund` then holds for the reason it holds of refunds alone, the sum
checked under the lock; `SInv` relies on no status but that of a locked row.

`AuditTellsAccount` adds `StatusTold` for payments that were not updated: their
CHARGE row was written when they were FAILED or COMPLETED, and only the commit of
a refund changes the status since. `RetryAfterRefundNeverCharges` adds
`RepliesToSeen`. `ReportsAgree` adds `StatusesBacked` (the status claims no refund
that the table lacks, at the moment it is shown) and `ReportsOK` (nor later:
committed refunds are never written again and their sum never falls,
`RefundsKept`, and it cannot grow past the amount, `NoOverRefund`).
`LedgerKept` adds `NoPending`, and uses the commit steps of both refinements.

`PaidOrderChargedOnlyAfterRefund` needs most. `OneByOne` has five parts: there is
one payment in flight (`Alone`); the row being built is the youngest
(`DraftYoungest`); a charged payment is COMPLETED until its refunds are over
(`StatusOfCharge`), therefore a request that passes the lookup by order has found
the youngest payment's refunds over, and, each younger payment having passed the
same lookup, those of all older ones too (`OlderOver`); and the payment that made
the order paid when the request arrived is still there (`PaidSeen`).
`ChargesBacked` takes this from the gateway call to the end of time; refunds that
are over stay over (`MarksStay`).

### Server

`ServerProofs` proves `ServerInductive` (`Spec => []ServerInv`) and from it
`ServerTypeOKHolds`, `LossExplainedHolds`, `DropExplainedHolds`,
`ServesWhileDrainingHolds` and `MoneyNeedsOperatorHolds`, for any sets of payments,
refunds and probes, any environments and any number of restarts, kills and
outages. It assumes `ServerAssumption` (the three kinds of requests are disjoint,
names are names) and `RouterAssumption`.

The properties speak of requests that have ended, of any process so far, and
cannot be inductive: why a request may fail is decided while it runs. `ServerInv`
adds three parts. `ProcessOK` says in which phases the pool and the listener are
open and that an outage is on record. `RequestOK` says who holds a connection (a
payment between BEGIN and COMMIT, a refund during its gateway call too), that only
an outage cuts one, and `Lost`: if money moved and is not recorded, then the
request failed by itself (`failed`) or the reason has happened by the time it is
answered, and not just by the time it ends. `ErrorOK` says the same of errors. That requests run only in a process that serves
or has given up waiting (`Serving`) is what makes `Drained` harmless.
`MoneyNeedsOperator` follows from `Load` and the router: which texts lead to an
adapter is decided by cases in `RoutedName` and `Adapter`, and `MovedBySwitch`
says it of the money that moved.

### Rate limiter

`RateLimiterProofs` proves `LimiterInductive` (`Spec => []LimiterInv`) and from it
`LimiterTypeOKHolds`, `MapBoundedHolds`, `BudgetKeptHolds` and
`RefusedOverBudgetHolds`, for any clients, finitely many requests, any burst, TTL,
period and clock bound that satisfy `LimiterAssumption`.

`BudgetKept` counts the requests served in an interval; nothing in the state
says so. `LimiterInv` has the two halves of the accounting for each client: since
any tick, what it was given is at most what the burst, the ticks since and the
tokens it has left allow (`WithinBudget`), and since *some* tick it is no less
(`BudgetUsed`), which is what a refusal needs. A client without a bucket counts as
one with a full bucket, so the accounting survives a sweep if a bucket that is
dropped is full and nobody still holds it. `IdleIsFull` shows both from
`MaxStall + Burst <= TTL`: the cutoff is at least TTL old (`SweepOK`), a bucket is
used at most `MaxStall` after `lastSeen` (`MapOK`), and the remaining `Burst`
ticks have filled it. `HoldsOK` is the consequence for interleavings: the bucket a
request holds is always the one in the map, so there are never two of a client.

### Encryption

`EncryptionProofs` proves, for every set of key texts, texts and columns and any
number of restarts, `EncryptionInductive` (`Spec => []IndInv`) and from it
`ReadBackHolds`, `EnabledNeverClearHolds` and `NoAmbiguousKeyHolds`. `IndInv`
adds `Consistent` to `TypeOK` and `ReadBack`: the service is what its
configuration makes of it, and a column holds what a service of the
configuration it was written under made of the text. `ReadBack` compares decoded
keys, not key texts: a key that is spelled differently after a restart, say with a
final newline, still opens what was written. `NoAmbiguousKey` is arithmetic on
lengths: what both decoders accept has no padding, so as base64 it spells a
multiple of three bytes, which 32 is not.

### Only model-checked

* Liveness (`PurchaseAnswered`, `ReturnAnswered`, `ShutdownEnds`): fairness and
  ENABLED are out of the prover's reach.

What the proofs need beside the runs' properties (`TypeOK` and `StepsConsistent`
of payments and refunds, `FinishedPaymentsStay`) is proved and not listed in the
runs. `MoneyInv`, `SeqInv`, `ServerInv`, `LimiterInv` and `ReplyOK` were checked by
TLC on the instances of `payment_races`, `payment_sequential`, `server`,
`rate_limiter` and `refund_races` before they were proved, and `SInv`, `OneByOne`
and the other invariants of `ServiceProofs` on that of `service`.

## 5. Not modelled

* The lists of a customer's payments and `GetRefund`: single SELECTs; liveness
  and info answers, metrics, headers and logs: no state.
* Tokenization: nothing calls it.
* The masks of `PciDataMasker` and `DatabaseURI`: formatting of strings.
* Settings other than those in `Config`: they are constants here (rate limit,
  mock gateway) or used by nothing (RabbitMQ, OAuth2, webhook secret).
* Currencies whose minor unit is not a hundredth: `MinorUnits` is modelled as the
  code computes it, for two decimal places. JSON layout, card data, timestamps
  other than `created_at`: no property depends on them. `valid` stands for the
  checks on them.
* Several replicas: requests of two replicas interleave as those of one, since
  only the database is shared; a crash here takes all requests in flight.
* Clock skew: `created_at` is modelled as strictly increasing.
* The Java service, which the Go service replaces; deployment and CI.

## 6. Plan

The modules above are the models planned, and every safety property of the
passing runs is proved; what TLC alone shows is listed at the end of section 4. Two extensions would say something new. The weakest
hypothesis on `UpdatePaymentStatus` under which a paid order is not charged again
depends on *when* it writes, not only on what; it is worth stating once the
operation has a caller. And `ReturnsOK` and `PurchasesOK` should be enough for a
second writer of the payments table, such as the Java service during a migration,
to be composed in the same way.
