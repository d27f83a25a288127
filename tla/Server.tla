------------------------------- MODULE Server -------------------------------
(***************************************************************************)
(* go/cmd/server/main.go: the process, from Load() to the end of main(),   *)
(* over restarts with other environments, outages of the database and      *)
(* kills.  Requests are what PaymentService, RefundService and health do,  *)
(* reduced to what the life of the process can interrupt: when they need   *)
(* a connection, when they hold one, when money moves, when the            *)
(* transaction that records it commits and when the client is answered.    *)
(* What can go wrong with a request in a process that lives on - refusals, *)
(* conflicts, statements that fail, a client that goes away - is one flag  *)
(* here; what comes of it is told in PaymentService and RefundService.     *)
(***************************************************************************)
EXTENDS Config

CONSTANTS
  Payments,     \* POST /payments
  Refunds,      \* POST /payments/{id}/refund
  Probes,       \* GET /actuator/health/readiness
  Names,        \* gateway names a request can carry
  GatewayNames, \* those and what the configuration can give
  Lower,        \* strings.ToLower on them
  Environments, \* what an operator starts the process with
  UsablePorts,  \* the ports ListenAndServe can bind
  None          \* no environment

Requests == Payments \cup Refunds \cup Probes

ASSUME ServerAssumption ==
  /\ Payments \cap Refunds = {}
  /\ Probes \cap (Payments \cup Refunds) = {}
  /\ Unset \in Names /\ Names \subseteq GatewayNames
  /\ None \notin Environments

VARIABLES
  phase,     \* where main() stands
  env,       \* the environment of the running process, or None
  listener,  \* the goroutine that runs ListenAndServe
  poolOpen,  \* whether the pool gives out connections
  events,    \* what has happened to the running process
  db,        \* whether the database can be reached
  req        \* Requests -> the request; see RequestType

process == <<phase, env, listener, poolOpen>>
vars == <<process, events, db, req>>

Down == "down"
Phases == {Down, "connecting", "starting", "serving", "draining", "closing"}
Pcs == {"idle", "lookup", "gateway", "begin", "commit", "ping", "respond",
        "answered", "dropped"}
Events == {"outage", "earlySignal", "graceOver", "fatal", "killed"}

RequestType ==
  [pc : Pcs,
   name : Names,                      \* the gateway name it carries
   conn : {"none", "held", "cut"},    \* its connection; an outage cuts it
   outcome : {"none", "ok", "error"}, \* what the handler is about to answer
   moved : SUBSET (Environments \X Names), \* what its money moved under, if any
   recorded : BOOLEAN,                \* whether its transaction has committed
   failed : BOOLEAN,                  \* whether it failed by itself; see Fail
   fate : SUBSET Events]              \* events of the process when it ended

Fresh == [pc |-> "idle", name |-> Unset, conn |-> "none", outcome |-> "none",
          moved |-> {}, recorded |-> FALSE, failed |-> FALSE, fate |-> {}]

Running == {r \in Requests : req[r].pc \notin {"idle", "answered", "dropped"}}
Held == {r \in Requests : req[r].conn # "none"}

config == Load(env)

Routing == INSTANCE Router WITH
             BlankName <- Unset, DefaultName <- config.default,
             Enabled <- EnabledAdapters(config)

Init ==
  /\ phase = Down
  /\ env = None
  /\ listener = "none"
  /\ poolOpen = FALSE
  /\ events = {}
  /\ db = TRUE
  /\ req = [r \in Requests |-> Fresh]

-----------------------------------------------------------------------------
(* main() *)

\* With any environment.  The requests of the new process are other requests
\* than those of the one before.
Start ==
  /\ phase = Down
  /\ env' \in Environments
  /\ phase' = "connecting"
  /\ events' = IF db THEN {} ELSE {"outage"}
  /\ req' = [r \in Requests |-> Fresh]
  /\ UNCHANGED <<listener, poolOpen, db>>

\* The process is gone and whatever was in flight with it; the database rolls
\* open transactions back.
Exit(because) ==
  /\ phase' = Down
  /\ env' = None
  /\ listener' = "none"
  /\ poolOpen' = FALSE
  /\ events' = {}
  /\ req' = [r \in Requests |->
       IF r \in Running
       THEN [req[r] EXCEPT !.pc = "dropped", !.name = Unset, !.conn = "none",
                           !.outcome = "none", !.fate = events \cup because]
       ELSE req[r]]
  /\ UNCHANGED db

\* pgxpool.New and Ping; a failure is fatal.
Connect ==
  /\ phase = "connecting"
  /\ \/ /\ db
        /\ phase' = "starting"
        /\ poolOpen' = TRUE
        /\ UNCHANGED <<env, listener, events, db, req>>
     \/ ~db /\ Exit({"fatal"})

\* The goroutine binds the port.  It may do so before or after main() has
\* called signal.Notify, and after Shutdown it does not serve any more.
Listen ==
  /\ phase \in {"starting", "serving"}
  /\ listener = "none"
  /\ listener' = IF config.serverPort \in UsablePorts THEN "open" ELSE "failed"
  /\ UNCHANGED <<phase, env, poolOpen, events, db, req>>

\* Accept fails for good.
AcceptFails ==
  /\ listener = "open"
  /\ listener' = "failed"
  /\ UNCHANGED <<phase, env, poolOpen, events, db, req>>

Notify ==
  /\ phase = "starting"
  /\ phase' = "serving"
  /\ UNCHANGED <<env, listener, poolOpen, events, db, req>>

\* The select receives the listener's error: logger.Fatal exits at once.
ListenError ==
  /\ phase = "serving"
  /\ listener = "failed"
  /\ Exit({"fatal"})

\* Mutant: the pool is closed before the server is shut down.
SignalClosesPool ==
  /\ phase = "serving"
  /\ phase' = "draining"
  /\ listener' = "none"
  /\ poolOpen' = FALSE
  /\ UNCHANGED <<env, events, db, req>>

\* SIGTERM once Notify was called: Shutdown closes the listener and waits for
\* the requests in flight.  Further signals stay in the channel.
Signal ==
  /\ phase = "serving"
  /\ phase' = "draining"
  /\ listener' = "none"
  /\ UNCHANGED <<env, poolOpen, events, db, req>>

\* SIGTERM before that has its default effect.
EarlySignal ==
  /\ phase \in {"connecting", "starting"}
  /\ Exit({"earlySignal"})

\* Shutdown returns and the deferred db.Close() begins.
ClosePool(because) ==
  /\ phase = "draining"
  /\ phase' = "closing"
  /\ poolOpen' = FALSE
  /\ events' = events \cup because
  /\ UNCHANGED <<env, listener, db, req>>

\* Mutant: Shutdown waits for nobody.
DrainedAtOnce == ClosePool({})

Drained == Running = {} /\ ClosePool({})

\* The 20 seconds are over.
GraceOver == Running # {} /\ ClosePool({"graceOver"})

\* db.Close() returns when every connection was given back, and main() ends.
Closed == phase = "closing" /\ Held = {} /\ Exit({})

\* SIGKILL, or the machine is gone.
Kill == phase # Down /\ Exit({"killed"})

-----------------------------------------------------------------------------
(* The database *)

Outage ==
  /\ db
  /\ db' = FALSE
  /\ events' = events \cup {"outage"}
  /\ req' = [r \in Requests |->
       IF r \in Held THEN [req[r] EXCEPT !.conn = "cut"] ELSE req[r]]
  /\ UNCHANGED process

Return == ~db /\ db' = TRUE /\ UNCHANGED <<process, events, req>>

-----------------------------------------------------------------------------
(* Requests *)

Goto(r, step) == req' = [req EXCEPT ![r].pc = step]

\* The handler has its answer.
Answer(r, outcome) ==
  req' = [req EXCEPT ![r].pc = "respond", ![r].outcome = outcome]

\* The request is over: its transaction, if it has one, has ended one way or the
\* other, the connection goes back and the handler has its answer.
Finish(r, recorded, outcome, failed) ==
  req' = [req EXCEPT ![r].pc = "respond", ![r].conn = "none",
                     ![r].recorded = recorded, ![r].outcome = outcome,
                     ![r].failed = failed]

\* The request fails by itself: it is refused, a statement fails (a unique
\* violation, a value too large for its column, any other error), or its client
\* goes away and its context is cancelled.  What it wrote is rolled back.
Fail(r) == Finish(r, FALSE, "error", TRUE)

\* A request is received while the listener is open, on its way to the handler
\* of a payment, a refund or the readiness probe.
Receive(r) ==
  /\ listener = "open"
  /\ req[r].pc = "idle"
  /\ \/ r \in Probes /\ Goto(r, "ping")
     \/ /\ r \notin Probes
        /\ \E name \in Names :
             req' = [req EXCEPT ![r].pc = "lookup", ![r].name = name]
  /\ UNCHANGED <<process, events, db>>

\* Whether a connection can be had, and whether asking for one can fail: the
\* pool is closed, the database is away, or it was and the pool still has
\* connections from before.
CanAcquire == poolOpen /\ db
CanFail == ~poolOpen \/ ~db \/ "outage" \in events

Gateway(r) == Routing!GetGatewayOrDefault(req[r].name)

\* The lookups, which may find the request served already, and the routing that
\* follows them.  A payment calls the gateway next, a refund begins its
\* transaction.
Lookup(r) ==
  /\ req[r].pc = "lookup"
  /\ \/ /\ CanAcquire
        /\ IF Gateway(r) = Routing!NoGateway THEN Answer(r, "error")
           ELSE Goto(r, IF r \in Payments THEN "gateway" ELSE "begin")
     \/ CanAcquire /\ Answer(r, "ok")
     \/ CanFail /\ Answer(r, "error")
     \/ Fail(r)

\* The gateways that can move money one way or the other.
Moving(r) == IF r \in Payments THEN {"mock", "stripe"} ELSE {"mock"}

\* The gateway is called: a payment holds no connection then, a refund does and
\* may fail before it calls.
CallGateway(r) ==
  LET next == IF r \in Payments THEN "begin" ELSE "commit" IN
  /\ req[r].pc = "gateway"
  /\ \/ Goto(r, next)
     \/ /\ Gateway(r) \in Moving(r)
        /\ req' = [req EXCEPT ![r].pc = next,
                              ![r].moved = {<<env, req[r].name>>}]
     \/ r \in Refunds /\ Fail(r)

Begin(r) ==
  LET next == IF r \in Payments THEN "commit" ELSE "gateway" IN
  /\ req[r].pc = "begin"
  /\ \/ /\ CanAcquire
        /\ req' = [req EXCEPT ![r].pc = next, ![r].conn = "held"]
     \/ CanFail /\ Answer(r, "error")
     \/ Fail(r)

\* Whether the statements of the request reach the database.
Connected(r) == db /\ req[r].conn = "held"

\* Mutant: a transaction that fails keeps its connection.
CommitOrLeak(r) ==
  /\ req[r].pc = "commit"
  /\ \/ Connected(r) /\ Finish(r, TRUE, "ok", FALSE)
     \/ req' = [req EXCEPT ![r].pc = "respond", ![r].outcome = "error",
                           ![r].failed = TRUE]

\* The statements of the transaction and its COMMIT, whose answer may be lost; a
\* rollback after a unique violation, where a payment is answered with the one
\* that has its key; any other rollback; or the end of a transaction whose
\* statements do not reach the database any more.
Commit(r) ==
  /\ req[r].pc = "commit"
  /\ \/ Connected(r) /\ Finish(r, TRUE, "ok", FALSE)
     \/ Connected(r) /\ Finish(r, TRUE, "error", TRUE)
     \/ /\ r \in Payments /\ CanAcquire /\ Connected(r)
        /\ Finish(r, FALSE, "ok", TRUE)
     \/ Fail(r)
     \/ ~Connected(r) /\ Finish(r, FALSE, "error", FALSE)

\* 200 when the database answers a ping, 503 otherwise.
readiness(r) ==
  /\ req[r].pc = "ping"
  /\ \/ CanAcquire /\ Answer(r, "ok")
     \/ CanFail /\ Answer(r, "error")
     \/ Fail(r)

Respond(r) ==
  /\ req[r].pc = "respond"
  /\ req' = [req EXCEPT ![r].pc = "answered", ![r].name = Unset,
                        ![r].outcome = "none", ![r].fate = events]

Serve(r) ==
  /\ \/ Lookup(r) \/ CallGateway(r) \/ Begin(r) \/ Commit(r)
     \/ readiness(r) \/ Respond(r)
  /\ UNCHANGED <<process, events, db>>

-----------------------------------------------------------------------------
(* Specification *)

Next ==
  \/ Start \/ Connect \/ Listen \/ AcceptFails \/ Notify \/ ListenError
  \/ Signal \/ EarlySignal \/ Drained \/ GraceOver \/ Closed \/ Kill
  \/ Outage \/ Return
  \/ \E r \in Requests : Receive(r) \/ Serve(r)

Spec == Init /\ [][Next]_vars

\* Goroutines are scheduled, gateways answer, statements end, the 20 seconds
\* pass: as long as the process can take a step of its own it takes one again and
\* again.  Nobody has to start or to signal it, and nothing has to fail or to be
\* repaired.
Own == \/ \E r \in Requests : Serve(r)
       \/ Drained \/ GraceOver \/ Closed

FairSpec == Spec /\ WF_vars(Own)

-----------------------------------------------------------------------------
(* Properties *)

\* The state is of its type; the pool is open while requests are accepted, and a
\* connection is never kept by a request that has ended.
TypeOK ==
  /\ phase \in Phases
  /\ env \in Environments \cup {None}
  /\ phase = Down <=> env = None
  /\ listener \in {"none", "open", "failed"}
  /\ listener = "open" => poolOpen
  /\ poolOpen \in BOOLEAN /\ db \in BOOLEAN
  /\ events \in SUBSET Events
  /\ req \in [Requests -> RequestType]
  /\ Held \subseteq Running

\* What can end a process without asking anyone.
Sudden == {"killed", "fatal", "earlySignal"}

Ended(r) == req[r].pc \in {"answered", "dropped"}

\* The life of the process adds its own ways of losing the record of money that
\* moved to those the services have: it ended suddenly, the database was away
\* or, for a payment, Shutdown gave up waiting before its transaction began.  A
\* refund is recorded even then: it calls the gateway with a connection in hand,
\* and db.Close() waits for it.  What a request loses by failing itself is the
\* matter of OrphanChargeExplained and LostRefundReported.
LossExplained ==
  \A r \in Requests :
    Ended(r) /\ req[r].moved # {} /\ ~req[r].recorded =>
      \/ req[r].failed
      \/ req[r].fate \cap (Sudden \cup {"outage"}) # {}
      \/ r \in Payments /\ "graceOver" \in req[r].fate

\* A request that was accepted is answered unless the process ended suddenly or
\* Shutdown gave up waiting for it.
DropExplained ==
  \A r \in Requests :
    req[r].pc = "dropped" => req[r].fate \cap (Sudden \cup {"graceOver"}) # {}

\* As long as Shutdown waits, a process that ends serves like any other: of the
\* requests that do not fail by themselves (by a refusal, a conflict, a failing
\* statement or a client that went away), only an outage makes a probe fail, or
\* a request whose gateway is enabled.
ServesWhileDraining ==
  \A r \in Running :
    /\ req[r].outcome = "error"
    /\ ~req[r].failed
    /\ events \cap {"outage", "graceOver"} = {}
    => r \notin Probes /\ Gateway(r) = Routing!NoGateway

\* The text an operator sets to switch an adapter on.
SwitchedOn(e, name) ==
  CASE name = "mock" -> e.MOCK_GATEWAY_ENABLED \in TrueTexts
    [] name = "stripe" -> /\ e.STRIPE_ENABLED \in TrueTexts
                          /\ e.STRIPE_API_KEY # Unset
    [] OTHER -> FALSE

\* Money moves only through an adapter that the environment of that process
\* switched on in so many words and gave its credentials; a default, a text that
\* is no boolean or a key alone never do.
MoneyNeedsOperator ==
  \A r \in Requests : \A m \in req[r].moved :
    LET default == m[1].PAYMENT_GATEWAY_DEFAULT
        name == IF m[2] # Unset THEN m[2]
                ELSE IF default # Unset THEN default
                ELSE "mock"
    IN SwitchedOn(m[1], Lower[name])

\* A process that was asked to end does end: no request keeps its connection,
\* for which db.Close() would wait for ever.
ShutdownEnds == phase \in {"draining", "closing"} ~> phase = Down
=============================================================================
