---------------------------- MODULE ServerProofs ----------------------------
(***************************************************************************)
(* Proofs about Server, for any number of requests, environments, restarts *)
(* and outages.  ServerInv says how far the life of the process and the    *)
(* steps of a request can be apart: who holds a connection, why asking for *)
(* one can fail, and how the record of money that moved can be lost to a   *)
(* request that did not fail by itself.                                    *)
(***************************************************************************)
EXTENDS Server, TLAPS

-----------------------------------------------------------------------------
(* The inductive invariant *)

\* The pool is open from Ping to the end of Shutdown, the listener only until
\* Shutdown begins, and an outage of the running process is on record.
ProcessOK ==
  /\ poolOpen <=> phase \in {"starting", "serving", "draining"}
  /\ listener # "none" => phase \in {"starting", "serving"}
  /\ ~db /\ phase # Down => "outage" \in events

\* Requests are under way only in a process that serves, or that closes its pool
\* because the grace period was over.
Serving ==
  \/ phase \in {"starting", "serving", "draining"}
  \/ phase = "closing" /\ "graceOver" \in events

\* A connection is held from BEGIN to COMMIT, where a refund calls its gateway,
\* and only an outage cuts it.
ConnOK(r) ==
  /\ req[r].conn # "none" <=>
       \/ req[r].pc = "commit"
       \/ req[r].pc = "gateway" /\ r \notin Payments
  /\ req[r].conn = "cut" => "outage" \in events

\* Why the money that r moved is not recorded although its transaction is over.
Lost(r, because) ==
  req[r].moved # {} /\ ~req[r].recorded =>
    \/ req[r].failed
    \/ because \cap (Sudden \cup {"outage"}) # {}
    \/ r \in Payments /\ "graceOver" \in because

\* What the steps of r have established where it stands.
RequestOK(r) ==
  /\ r \in Running => Serving
  /\ req[r].pc = "idle" => req[r] = Fresh
  /\ ConnOK(r)
  /\ r \in Probes =>
       req[r].pc \in {"idle", "ping", "respond", "answered", "dropped"}
  /\ req[r].pc \in {"lookup", "ping"} => req[r].moved = {}
  /\ r \notin Payments /\ req[r].pc \in {"begin", "gateway"} => req[r].moved = {}
  /\ req[r].pc = "respond" => Lost(r, events)
  /\ Ended(r) => Lost(r, req[r].fate)
  /\ req[r].pc = "dropped" => req[r].fate \cap (Sudden \cup {"graceOver"}) # {}

\* An error of a request that did not fail by itself has one reason before the
\* process gives up on it.
ErrorOK(r) ==
  r \in Running /\ req[r].outcome = "error" /\ ~req[r].failed =>
    \/ events \cap {"outage", "graceOver"} # {}
    \/ r \notin Probes /\ Gateway(r) = Routing!NoGateway

ServerInv ==
  /\ TypeOK
  /\ ProcessOK
  /\ \A r \in Requests : RequestOK(r) /\ ErrorOK(r)

-----------------------------------------------------------------------------
(* Types *)

\* Exit ends the process and every request of it.
LEMMA ExitFields ==
  ASSUME TypeOK, NEW because \in SUBSET Events, Exit(because), NEW r \in Requests
  PROVE  /\ r \notin Running => req'[r] = req[r]
         /\ r \in Running =>
              /\ req'[r].pc = "dropped" /\ req'[r].conn = "none"
              /\ req'[r].fate = events \cup because
              /\ req'[r].moved = req[r].moved /\ req'[r].recorded = req[r].recorded
              /\ req'[r].failed = req[r].failed
         /\ req'[r] \in RequestType
<1>1. req[r] \in RequestType /\ events \cup because \in SUBSET Events
  BY DEF TypeOK
<1>2. CASE r \notin Running
  BY <1>1, <1>2 DEF Exit
<1>3. CASE r \in Running
  <2> DEFINE Drop(q) == [req[q] EXCEPT !.pc = "dropped", !.name = Unset,
                                       !.conn = "none", !.outcome = "none",
                                       !.fate = events \cup because]
  <2>1. req' = [q \in Requests |-> IF q \in Running THEN Drop(q) ELSE req[q]]
    BY DEF Exit
  <2>2. ASSUME NEW d, d = Drop(r)
        PROVE  /\ d \in RequestType
               /\ d.pc = "dropped" /\ d.conn = "none" /\ d.fate = events \cup because
               /\ d.moved = req[r].moved /\ d.recorded = req[r].recorded
               /\ d.failed = req[r].failed
    <3>1. PICK x, f : x = req[r] /\ f = events \cup because
      OBVIOUS
    <3>2. d = [x EXCEPT !.pc = "dropped", !.name = Unset, !.conn = "none",
                        !.outcome = "none", !.fate = f]
      BY <2>2, <3>1, Zenon
    <3>3. x \in RequestType /\ f \in SUBSET Events
      BY <1>1, <3>1
    <3> HIDE DEF Drop
    <3> QED
      BY <3>1, <3>2, <3>3, ServerAssumption DEF RequestType, Pcs
  <2> HIDE DEF Drop
  <2> QED
    BY <1>3, <2>1, <2>2
<1> QED
  BY <1>2, <1>3

LEMMA ExitType ==
  ASSUME TypeOK, NEW because \in SUBSET Events, Exit(because)
  PROVE  TypeOK'
<1>1. \A r \in Requests : req'[r] \in RequestType /\ req'[r].conn = "none"
  BY ExitFields DEF TypeOK, Held
<1>2. req' = [r \in Requests |-> req'[r]]
  BY DEF Exit
<1>3. req' \in [Requests -> RequestType]
  BY <1>1, <1>2
<1>4. Held' = {}
  BY <1>1 DEF Held
<1> QED
  BY <1>3, <1>4 DEF Exit, TypeOK, Phases, Down

\* What a step of request r does to the others.
Apart(r) ==
  /\ req' \in [Requests -> RequestType]
  /\ \A s \in Requests \ {r} : req'[s] = req[s]

\* The fields a step of r leaves alone.
Keeps(r, fields) == \A f \in fields : req'[r][f] = req[r][f]

Fields == {"pc", "name", "conn", "outcome", "moved", "recorded", "failed", "fate"}

\* n is m with one field of request r set to v.
FieldSet(m, n, r, field, v) ==
  /\ n \in [Requests -> RequestType]
  /\ \A s \in Requests \ {r} : n[s] = m[s]
  /\ n[r][field] = v
  /\ \A f \in Fields \ {field} : n[r][f] = m[r][f]

LEMMA SetPc ==
  ASSUME NEW m \in [Requests -> RequestType], NEW r \in Requests, NEW n,
         NEW v \in Pcs, n = [m EXCEPT ![r].pc = v]
  PROVE  FieldSet(m, n, r, "pc", v)
BY DEF FieldSet, Fields, RequestType

LEMMA SetName ==
  ASSUME NEW m \in [Requests -> RequestType], NEW r \in Requests, NEW n,
         NEW v \in Names, n = [m EXCEPT ![r].name = v]
  PROVE  FieldSet(m, n, r, "name", v)
BY DEF FieldSet, Fields, RequestType

LEMMA SetConn ==
  ASSUME NEW m \in [Requests -> RequestType], NEW r \in Requests, NEW n,
         NEW v \in {"none", "held", "cut"}, n = [m EXCEPT ![r].conn = v]
  PROVE  FieldSet(m, n, r, "conn", v)
BY DEF FieldSet, Fields, RequestType

LEMMA SetOutcome ==
  ASSUME NEW m \in [Requests -> RequestType], NEW r \in Requests, NEW n,
         NEW v \in {"none", "ok", "error"}, n = [m EXCEPT ![r].outcome = v]
  PROVE  FieldSet(m, n, r, "outcome", v)
BY DEF FieldSet, Fields, RequestType

LEMMA SetMoved ==
  ASSUME NEW m \in [Requests -> RequestType], NEW r \in Requests, NEW n,
         NEW v \in SUBSET (Environments \X Names), n = [m EXCEPT ![r].moved = v]
  PROVE  FieldSet(m, n, r, "moved", v)
BY DEF FieldSet, Fields, RequestType

LEMMA SetRecorded ==
  ASSUME NEW m \in [Requests -> RequestType], NEW r \in Requests, NEW n,
         NEW v \in BOOLEAN, n = [m EXCEPT ![r].recorded = v]
  PROVE  FieldSet(m, n, r, "recorded", v)
BY DEF FieldSet, Fields, RequestType

LEMMA SetFailed ==
  ASSUME NEW m \in [Requests -> RequestType], NEW r \in Requests, NEW n,
         NEW v \in BOOLEAN, n = [m EXCEPT ![r].failed = v]
  PROVE  FieldSet(m, n, r, "failed", v)
BY DEF FieldSet, Fields, RequestType

LEMMA SetFate ==
  ASSUME NEW m \in [Requests -> RequestType], NEW r \in Requests, NEW n,
         NEW v \in SUBSET Events, n = [m EXCEPT ![r].fate = v]
  PROVE  FieldSet(m, n, r, "fate", v)
BY DEF FieldSet, Fields, RequestType

LEMMA GotoFields ==
  ASSUME TypeOK, NEW r \in Requests, NEW l \in Pcs, Goto(r, l)
  PROVE  /\ Apart(r)
         /\ req'[r].pc = l
         /\ Keeps(r, {"name", "conn", "outcome", "moved", "recorded", "failed", "fate"})
<1>1. FieldSet(req, req', r, "pc", l)
  BY SetPc DEF Goto, TypeOK
<1> QED
  BY <1>1 DEF FieldSet, Fields, Apart, Keeps

LEMMA AnswerFields ==
  ASSUME TypeOK, NEW r \in Requests, NEW o \in {"ok", "error"}, Answer(r, o)
  PROVE  /\ Apart(r)
         /\ req'[r].pc = "respond" /\ req'[r].outcome = o
         /\ Keeps(r, {"name", "conn", "moved", "recorded", "failed", "fate"})
<1>1. PICK m : m = [req EXCEPT ![r].pc = "respond"]
  OBVIOUS
<1>2. FieldSet(req, m, r, "pc", "respond")
  BY <1>1, SetPc DEF TypeOK, Pcs
<1>3. req' = [m EXCEPT ![r].outcome = o]
  BY <1>1, Zenon DEF Answer
<1>4. FieldSet(m, req', r, "outcome", o)
  <2>1. m \in [Requests -> RequestType]
    BY <1>2, <1>3 DEF FieldSet
  <2> QED
    BY <1>2, <1>3, <2>1, SetOutcome
<1> QED
  BY <1>2, <1>4 DEF FieldSet, Fields, Apart, Keeps
\* The handler of a payment or a refund is given the gateway name it carries.
LEMMA ReceiveFields ==
  ASSUME TypeOK, NEW r \in Requests, NEW name \in Names,
         req' = [req EXCEPT ![r].pc = "lookup", ![r].name = name]
  PROVE  /\ Apart(r)
         /\ req'[r].pc = "lookup"
         /\ Keeps(r, {"conn", "outcome", "moved", "recorded", "failed", "fate"})
<1>1. PICK m : m = [req EXCEPT ![r].pc = "lookup"]
  OBVIOUS
<1>2. FieldSet(req, m, r, "pc", "lookup")
  BY <1>1, SetPc DEF TypeOK, Pcs
<1>3. req' = [m EXCEPT ![r].name = name]
  BY <1>1, Zenon
<1>4. FieldSet(m, req', r, "name", name)
  <2>1. m \in [Requests -> RequestType]
    BY <1>2, <1>3 DEF FieldSet
  <2> QED
    BY <1>2, <1>3, <2>1, SetName
<1> QED
  BY <1>2, <1>4 DEF FieldSet, Fields, Apart, Keeps

LEMMA MovedFields ==
  ASSUME TypeOK, NEW r \in Requests, NEW l \in Pcs, env \in Environments,
         req' = [req EXCEPT ![r].pc = l, ![r].moved = {<<env, req[r].name>>}]
  PROVE  /\ Apart(r)
         /\ req'[r].pc = l /\ req'[r].moved = {<<env, req[r].name>>}
         /\ Keeps(r, {"name", "conn", "outcome", "recorded", "failed", "fate"})
<1>1. PICK m, x : m = [req EXCEPT ![r].pc = l] /\ x = {<<env, req[r].name>>}
  OBVIOUS
<1>2. FieldSet(req, m, r, "pc", l)
  BY <1>1, SetPc DEF TypeOK
<1>3. req' = [m EXCEPT ![r].moved = x]
  BY <1>1, Zenon
<1>4. x \in SUBSET (Environments \X Names)
  BY <1>1 DEF TypeOK, RequestType
<1>5. FieldSet(m, req', r, "moved", x)
  <2>1. m \in [Requests -> RequestType]
    BY <1>2, <1>3, <1>4 DEF FieldSet
  <2> QED
    BY <1>2, <1>3, <1>4, <2>1, SetMoved
<1> QED
  BY <1>1, <1>2, <1>5 DEF FieldSet, Fields, Apart, Keeps

LEMMA BeginFields ==
  ASSUME TypeOK, NEW r \in Requests, NEW l \in Pcs,
         req' = [req EXCEPT ![r].pc = l, ![r].conn = "held"]
  PROVE  /\ Apart(r)
         /\ req'[r].pc = l /\ req'[r].conn = "held"
         /\ Keeps(r, {"name", "outcome", "moved", "recorded", "failed", "fate"})
<1>1. PICK m : m = [req EXCEPT ![r].pc = l]
  OBVIOUS
<1>2. FieldSet(req, m, r, "pc", l)
  BY <1>1, SetPc DEF TypeOK
<1>3. req' = [m EXCEPT ![r].conn = "held"]
  BY <1>1, Zenon
<1>4. FieldSet(m, req', r, "conn", "held")
  <2>1. m \in [Requests -> RequestType]
    BY <1>2, <1>3 DEF FieldSet
  <2> QED
    BY <1>2, <1>3, <2>1, SetConn
<1> QED
  BY <1>2, <1>4 DEF FieldSet, Fields, Apart, Keeps

\* The request is over, and the connection given back.
LEMMA FinishFields ==
  ASSUME TypeOK, NEW r \in Requests, NEW d \in BOOLEAN,
         NEW o \in {"none", "ok", "error"}, NEW b \in BOOLEAN, Finish(r, d, o, b)
  PROVE  /\ Apart(r)
         /\ req'[r].pc = "respond" /\ req'[r].conn = "none"
         /\ req'[r].recorded = d /\ req'[r].outcome = o /\ req'[r].failed = b
         /\ Keeps(r, {"name", "moved", "fate"})
<1>1. PICK m : m = [req EXCEPT ![r].pc = "respond"]
  OBVIOUS
<1>2. PICK n : n = [m EXCEPT ![r].conn = "none"]
  OBVIOUS
<1>3. PICK w : w = [n EXCEPT ![r].recorded = d]
  OBVIOUS
<1>4. PICK x : x = [w EXCEPT ![r].outcome = o]
  OBVIOUS
<1>5. req' = [x EXCEPT ![r].failed = b]
  BY <1>1, <1>2, <1>3, <1>4, Zenon DEF Finish
<1>6. FieldSet(req, m, r, "pc", "respond")
  BY <1>1, SetPc DEF TypeOK, Pcs
<1>7. FieldSet(m, n, r, "conn", "none")
  <2>1. m \in [Requests -> RequestType]
    BY <1>2, <1>6 DEF FieldSet
  <2> QED
    BY <1>2, <1>6, <2>1, SetConn
<1>8. FieldSet(n, w, r, "recorded", d)
  <2>1. n \in [Requests -> RequestType]
    BY <1>3, <1>7 DEF FieldSet
  <2> QED
    BY <1>3, <1>7, <2>1, SetRecorded
<1>9. FieldSet(w, x, r, "outcome", o)
  <2>1. w \in [Requests -> RequestType]
    BY <1>4, <1>8 DEF FieldSet
  <2> QED
    BY <1>4, <1>8, <2>1, SetOutcome
<1>10. FieldSet(x, req', r, "failed", b)
  <2>1. x \in [Requests -> RequestType]
    BY <1>5, <1>9 DEF FieldSet
  <2> QED
    BY <1>5, <1>9, <2>1, SetFailed
<1> QED
  BY <1>6, <1>7, <1>8, <1>9, <1>10 DEF FieldSet, Fields, Apart, Keeps

LEMMA FailFields ==
  ASSUME TypeOK, NEW r \in Requests, Fail(r)
  PROVE  /\ Apart(r)
         /\ req'[r].pc = "respond" /\ req'[r].conn = "none" /\ req'[r].failed
         /\ Keeps(r, {"name", "moved", "fate"})
BY FinishFields DEF Fail

\* The transaction is over.  What it loses without failing by itself it loses to
\* the database.
LEMMA CommitFields ==
  ASSUME TypeOK, NEW r \in Requests, Commit(r)
  PROVE  /\ Apart(r)
         /\ req'[r].pc = "respond" /\ req'[r].conn = "none"
         /\ ~req'[r].recorded \/ req'[r].outcome = "error" =>
              req'[r].failed \/ ~Connected(r)
         /\ Keeps(r, {"name", "moved", "fate"})
<1>1. \E d \in BOOLEAN, o \in {"ok", "error"}, b \in BOOLEAN :
        /\ Finish(r, d, o, b)
        /\ (d = TRUE /\ o = "ok") \/ b = TRUE \/ ~Connected(r)
  BY Zenon DEF Commit, Fail
<1>2. ASSUME NEW d \in BOOLEAN, NEW o \in {"ok", "error"}, NEW b \in BOOLEAN,
             Finish(r, d, o, b),
             (d = TRUE /\ o = "ok") \/ b = TRUE \/ ~Connected(r)
      PROVE  /\ Apart(r)
             /\ req'[r].pc = "respond" /\ req'[r].conn = "none"
             /\ ~req'[r].recorded \/ req'[r].outcome = "error" =>
                  req'[r].failed \/ ~Connected(r)
             /\ Keeps(r, {"name", "moved", "fate"})
  BY <1>2, FinishFields
<1> QED
  BY <1>1, <1>2

LEMMA RespondFields ==
  ASSUME TypeOK, NEW r \in Requests, Respond(r)
  PROVE  /\ Apart(r)
         /\ req'[r].pc = "answered" /\ req'[r].fate = events
         /\ Keeps(r, {"conn", "moved", "recorded", "failed"})
<1>1. PICK m, e : m = [req EXCEPT ![r].pc = "answered"] /\ e = events
  OBVIOUS
<1>2. PICK n : n = [m EXCEPT ![r].name = Unset]
  OBVIOUS
<1>3. PICK w : w = [n EXCEPT ![r].outcome = "none"]
  OBVIOUS
<1>4. req' = [w EXCEPT ![r].fate = e]
  BY <1>1, <1>2, <1>3, Zenon DEF Respond
<1>5. FieldSet(req, m, r, "pc", "answered")
  BY <1>1, SetPc DEF TypeOK, Pcs
<1>6. FieldSet(m, n, r, "name", Unset)
  <2>1. m \in [Requests -> RequestType]
    BY <1>2, <1>5 DEF FieldSet
  <2> QED
    BY <1>2, <1>5, <2>1, SetName, ServerAssumption
<1>7. FieldSet(n, w, r, "outcome", "none")
  <2>1. n \in [Requests -> RequestType]
    BY <1>3, <1>6 DEF FieldSet
  <2> QED
    BY <1>3, <1>6, <2>1, SetOutcome
<1>8. e \in SUBSET Events
  BY <1>1 DEF TypeOK
<1>9. FieldSet(w, req', r, "fate", e)
  <2>1. w \in [Requests -> RequestType]
    BY <1>4, <1>7, <1>8 DEF FieldSet
  <2> QED
    BY <1>4, <1>7, <1>8, <2>1, SetFate
<1>10. Apart(r)
  BY <1>5, <1>6, <1>7, <1>9 DEF FieldSet, Apart
<1>11. req'[r].pc = "answered" /\ req'[r].fate = events
  BY <1>1, <1>5, <1>6, <1>7, <1>9 DEF FieldSet, Fields
<1>12. ASSUME NEW f \in {"conn", "moved", "recorded", "failed"}
       PROVE  req'[r][f] = req[r][f]
  <2>1. f \in Fields \ {"pc", "name", "outcome", "fate"}
    BY DEF Fields
  <2> QED
    BY <1>5, <1>6, <1>7, <1>9, <2>1 DEF FieldSet
<1> QED
  BY <1>10, <1>11, <1>12 DEF Keeps

\* An outage cuts the connections that are held and touches nothing else.
LEMMA OutageFields ==
  ASSUME TypeOK, Outage, NEW r \in Requests
  PROVE  /\ req' \in [Requests -> RequestType]
         /\ req'[r].conn = IF r \in Held THEN "cut" ELSE req[r].conn
         /\ Keeps(r, {"pc", "name", "outcome", "moved", "recorded", "failed", "fate"})
<1> DEFINE Cut(q) == [req[q] EXCEPT !.conn = "cut"]
<1>1. req' = [q \in Requests |-> IF q \in Held THEN Cut(q) ELSE req[q]]
  BY DEF Outage
<1>2. ASSUME NEW q \in Requests
      PROVE  /\ Cut(q) \in RequestType /\ Cut(q).conn = "cut"
             /\ \A f \in {"pc", "name", "outcome", "moved", "recorded", "failed", "fate"} :
                  Cut(q)[f] = req[q][f]
  BY DEF TypeOK, RequestType
<1> HIDE DEF Cut
<1>3. req' \in [Requests -> RequestType]
  BY <1>1, <1>2 DEF TypeOK
<1> QED
  BY <1>1, <1>2, <1>3 DEF Keeps
-----------------------------------------------------------------------------
(* Routing *)

\* The name under which environment e routes a request that carries name n.
RoutedName(e, n) ==
  IF n # Unset THEN n
  ELSE IF e.PAYMENT_GATEWAY_DEFAULT # Unset THEN e.PAYMENT_GATEWAY_DEFAULT
  ELSE "mock"

Adapter(e, n) ==
  IF Lower[RoutedName(e, n)] \in EnabledAdapters(Load(e))
  THEN Lower[RoutedName(e, n)] ELSE "none"

\* The router in the running process depends on its environment and the name
\* alone.
LEMMA GatewayIs ==
  ASSUME NEW r
  PROVE  Gateway(r) = Adapter(env, req[r].name)
<1>1. config.default = stringEnv(env.PAYMENT_GATEWAY_DEFAULT, "mock")
  BY DEF config, Load
<1>2. EnabledAdapters(config) \subseteq {"mock", "stripe", "paypal"}
  BY DEF EnabledAdapters
<1>3. EnabledAdapters(config) = EnabledAdapters(Load(env))
  BY DEF config
<1> QED
  BY <1>1, <1>2, <1>3 DEF Gateway, Adapter, RoutedName, stringEnv,
     Routing!GetGatewayOrDefault, Routing!GetDefaultGateway, Routing!GetGateway,
     Routing!Adapters, Routing!NoGateway

LEMMA GatewayIsNext ==
  ASSUME NEW r
  PROVE  Gateway(r)' = Adapter(env', req'[r].name)
<1>1. config'.default = stringEnv(env'.PAYMENT_GATEWAY_DEFAULT, "mock")
  BY DEF config, Load
<1>2. EnabledAdapters(config') \subseteq {"mock", "stripe", "paypal"}
  BY DEF EnabledAdapters
<1>3. EnabledAdapters(config') = EnabledAdapters(Load(env'))
  BY DEF config
<1> QED
  BY <1>1, <1>2, <1>3 DEF Gateway, Adapter, RoutedName, stringEnv,
     Routing!GetGatewayOrDefault, Routing!GetDefaultGateway, Routing!GetGateway,
     Routing!Adapters, Routing!NoGateway

\* An adapter that is enabled was switched on and given its key.
LEMMA EnabledIsSwitchedOn ==
  ASSUME NEW e, NEW n, Adapter(e, n) \in {"mock", "stripe"}
  PROVE  SwitchedOn(e, Lower[RoutedName(e, n)])
<1>1. PICK a : a = Lower[RoutedName(e, n)]
  OBVIOUS
<1>2. a \in EnabledAdapters(Load(e)) /\ a \in {"mock", "stripe"}
  BY <1>1 DEF Adapter
<1>3. CASE a = "mock"
  <2>1. Load(e).mock
    BY <1>2, <1>3 DEF EnabledAdapters
  <2>2. Load(e).mock = boolEnv(e.MOCK_GATEWAY_ENABLED, FALSE)
    BY DEF Load
  <2>3. boolEnv(e.MOCK_GATEWAY_ENABLED, FALSE)
    BY <2>1, <2>2, Zenon
  <2> QED
    BY <1>1, <1>3, <2>3 DEF SwitchedOn, boolEnv
<1>4. CASE a = "stripe"
  <2>1. Load(e).stripe /\ Load(e).stripeKey # Unset
    BY <1>2, <1>4 DEF EnabledAdapters
  <2>2. /\ Load(e).stripe = boolEnv(e.STRIPE_ENABLED, FALSE)
        /\ Load(e).stripeKey = stringEnv(e.STRIPE_API_KEY, Unset)
    BY DEF Load
  <2>3. stringEnv(e.STRIPE_API_KEY, Unset) # Unset
    BY <2>1, <2>2, Zenon
  <2>4. boolEnv(e.STRIPE_ENABLED, FALSE)
    BY <2>1, <2>2, Zenon
  <2>5. e.STRIPE_ENABLED \in TrueTexts
    BY <2>4 DEF boolEnv
  <2>6. e.STRIPE_API_KEY # Unset
    BY <2>3 DEF stringEnv
  <2> QED
    BY <1>1, <1>4, <2>5, <2>6 DEF SwitchedOn
<1> QED
  BY <1>2, <1>3, <1>4
-----------------------------------------------------------------------------
(* The invariant is inductive *)

\* The process of a request that is under way has an environment.
LEMMA RunningHasEnv ==
  ASSUME ServerInv, NEW r \in Running
  PROVE  Serving /\ phase # Down /\ env \in Environments
BY DEF ServerInv, TypeOK, RequestOK, Running, Serving, Down

\* What a step of a handler leaves alone, and that it holds a connection only
\* between BEGIN and COMMIT.
LEMMA ServeFields ==
  ASSUME ServerInv, NEW r \in Requests, Serve(r)
  PROVE  Apart(r) /\ r \in Running /\ ConnOK(r)'
<1> USE DEF ServerInv
<1>1. /\ req[r].pc \in {"lookup", "gateway", "begin", "commit", "ping", "respond"}
      /\ r \in Running /\ UNCHANGED events
  BY DEF Serve, Lookup, CallGateway, Begin, Commit, readiness, Respond, Running
<1>2. ConnOK(r) /\ env \in Environments
  BY <1>1, RunningHasEnv DEF RequestOK
<1>3. ASSUME req[r].pc \in {"lookup", "ping", "begin"}, Answer(r, "error") \/ Answer(r, "ok")
      PROVE  Apart(r) /\ ConnOK(r)'
  BY <1>1, <1>2, <1>3, AnswerFields DEF ConnOK, Keeps
<1>0. ASSUME Fail(r) PROVE Apart(r) /\ ConnOK(r)'
  BY <1>0, <1>1, FailFields DEF ConnOK
<1>4. CASE Lookup(r)
  <2>1. ASSUME NEW l \in {"gateway", "begin"}, Goto(r, l),
               l = IF r \in Payments THEN "gateway" ELSE "begin"
        PROVE  Apart(r) /\ ConnOK(r)'
    <3>1. Apart(r) /\ req'[r].pc = l /\ req'[r].conn = req[r].conn
      BY <2>1, GotoFields DEF Pcs, Keeps
    <3> QED
      BY <1>1, <1>2, <1>4, <2>1, <3>1 DEF ConnOK, Lookup
  <2> QED
    BY <1>0, <1>1, <1>3, <1>4, <2>1 DEF Lookup
<1>5. CASE CallGateway(r)
  <2>1. PICK l \in {"begin", "commit"} :
          l = IF r \in Payments THEN "begin" ELSE "commit"
    OBVIOUS
  <2>2. \/ Apart(r) /\ req'[r].pc = l /\ req'[r].conn = req[r].conn
        \/ Fail(r)
    <3>0. l \in Pcs
      BY <2>1 DEF Pcs
    <3>1. CASE Goto(r, l)
      <4>1. Apart(r) /\ req'[r].pc = l /\ Keeps(r, {"name", "conn", "outcome"})
        BY <3>0, <3>1, GotoFields DEF Keeps
      <4> QED
        BY <4>1 DEF Keeps
    <3>2. CASE req' = [req EXCEPT ![r].pc = l, ![r].moved = {<<env, req[r].name>>}]
      BY <1>2, <3>0, <3>2, MovedFields DEF Keeps
    <3> QED
      BY <1>5, <2>1, <3>1, <3>2 DEF CallGateway
  <2> QED
    BY <1>0, <1>1, <1>2, <1>5, <2>1, <2>2 DEF ConnOK, CallGateway
<1>6. CASE Begin(r)
  <2>1. PICK l : l = IF r \in Payments THEN "commit" ELSE "gateway"
    OBVIOUS
  <2>2. CASE req' = [req EXCEPT ![r].pc = l, ![r].conn = "held"]
    <3>1. Apart(r) /\ req'[r].pc = l /\ req'[r].conn = "held"
      BY <2>1, <2>2, BeginFields DEF Pcs
    <3> QED
      BY <1>1, <2>1, <3>1 DEF ConnOK
  <2> QED
    BY <1>0, <1>1, <1>3, <1>6, <2>1, <2>2 DEF Begin
<1>7. CASE Commit(r)
  BY <1>1, <1>7, CommitFields DEF ConnOK
<1>8. CASE readiness(r)
  BY <1>0, <1>1, <1>3, <1>8 DEF readiness
<1>9. CASE Respond(r)
  BY <1>1, <1>2, <1>9, RespondFields DEF ConnOK, Keeps, Respond
<1> QED
  BY <1>1, <1>4, <1>5, <1>6, <1>7, <1>8, <1>9 DEF Serve

\* A request that arrives.
LEMMA ReceiveStep ==
  ASSUME ServerInv, NEW r \in Requests, Receive(r)
  PROVE  /\ Apart(r) /\ req[r] = Fresh
         /\ req'[r].pc = IF r \in Probes THEN "ping" ELSE "lookup"
         /\ Keeps(r, {"conn", "outcome", "moved", "recorded", "failed", "fate"})
<1>1. req[r] = Fresh
  BY DEF ServerInv, RequestOK, Receive
<1>2. CASE r \in Probes
  BY <1>1, <1>2, GotoFields DEF Receive, ServerInv, Pcs, Keeps
<1>3. CASE r \notin Probes
  BY <1>1, <1>3, ReceiveFields DEF Receive, ServerInv
<1> QED
  BY <1>2, <1>3

LEMMA TypeNext ==
  ASSUME ServerInv, [Next]_vars
  PROVE  TypeOK'
<1> USE DEF ServerInv
<1>1. CASE UNCHANGED vars
  BY <1>1 DEF vars, process, TypeOK, Held, Running
<1>2. CASE Start
  <2>1. Fresh \in RequestType
    BY ServerAssumption DEF Fresh, RequestType, Pcs
  <2>2. req' \in [Requests -> RequestType] /\ Held' = {}
    BY <1>2, <2>1 DEF Start, Held, Fresh
  <2>3. events' \in SUBSET Events
    BY <1>2 DEF Start, Events
  <2> QED
    BY <1>2, <2>2, <2>3, ServerAssumption DEF Start, TypeOK, Phases, Down
<1>3. ASSUME NEW because \in SUBSET Events, Exit(because)
      PROVE  TypeOK'
  BY <1>3, ExitType
<1>4. CASE ListenError \/ EarlySignal \/ Closed \/ Kill \/ (Connect /\ ~db)
  <2>1. {"fatal"} \in SUBSET Events /\ {"earlySignal"} \in SUBSET Events
        /\ {"killed"} \in SUBSET Events /\ {} \in SUBSET Events
    BY DEF Events
  <2> QED
    BY <1>3, <1>4, <2>1 DEF ListenError, EarlySignal, Closed, Kill, Connect
<1>5. ASSUME UNCHANGED <<req, env, db>>, phase # Down, phase' \in Phases \ {Down},
             listener' \in {"none", "open", "failed"}, poolOpen' \in BOOLEAN,
             listener' = "open" => poolOpen', events' \in SUBSET Events
      PROVE  TypeOK'
  <2>1. Held' = Held /\ Running' = Running
    BY <1>5 DEF Held, Running
  <2> QED
    BY <1>5, <2>1 DEF TypeOK
<1>6. CASE Connect /\ db
  BY <1>5, <1>6 DEF Connect, TypeOK, Phases, Down
<1>7. CASE Listen \/ AcceptFails \/ Notify \/ Signal
  BY <1>5, <1>7 DEF Listen, AcceptFails, Notify, Signal, TypeOK, ProcessOK, Phases,
     Down, Events
<1>8. CASE Drained \/ GraceOver
  BY <1>5, <1>8 DEF Drained, GraceOver, ClosePool, TypeOK, ProcessOK, Phases, Down,
     Events
<1>9. CASE Outage
  <2>1. \A r \in Requests : /\ req'[r].conn # "none" <=> req[r].conn # "none"
                            /\ req'[r].pc = req[r].pc
    BY <1>9, OutageFields DEF Keeps, Held
  <2>2. req' \in [Requests -> RequestType]
    <3>1. CASE Requests = {}
      BY <1>9, <3>1 DEF Outage
    <3> QED
      BY <1>9, <3>1, OutageFields
  <2>3. Held' \subseteq Running'
    BY <2>1 DEF Held, Running, TypeOK
  <2> QED
    BY <1>9, <2>2, <2>3 DEF Outage, TypeOK, process, Events
<1>10. CASE Return
  BY <1>10 DEF Return, TypeOK, process, Held, Running
<1>11. ASSUME NEW r \in Requests, Apart(r), UNCHANGED <<process, events, db>>,
              req'[r].conn # "none" => req'[r].pc \notin {"idle", "answered", "dropped"}
       PROVE  TypeOK'
  BY <1>11 DEF TypeOK, Apart, process, Held, Running
<1>12. ASSUME NEW r \in Requests, Receive(r)
       PROVE  TypeOK'
  BY <1>11, <1>12, ReceiveStep DEF Receive, Keeps, Fresh
<1>13. ASSUME NEW r \in Requests, Serve(r)
       PROVE  TypeOK'
  BY <1>11, <1>13, ServeFields DEF Serve, ConnOK
<1> QED
  BY <1>1, <1>2, <1>4, <1>6, <1>7, <1>8, <1>9, <1>10, <1>12, <1>13 DEF Next

LEMMA ProcessNext ==
  ASSUME ServerInv, [Next]_vars
  PROVE  ProcessOK'
<1> USE DEF ServerInv, ProcessOK, Down
<1>1. ASSUME NEW because, Exit(because)
      PROVE  ProcessOK'
  BY <1>1 DEF Exit
<1>2. CASE Connect \/ ListenError \/ EarlySignal \/ Closed \/ Kill
  BY <1>1, <1>2 DEF Connect, ListenError, EarlySignal, Closed, Kill
<1>3. CASE Start
  BY <1>3 DEF Start
<1>4. CASE Listen \/ AcceptFails \/ Notify \/ Signal
  BY <1>4 DEF Listen, AcceptFails, Notify, Signal
<1>5. CASE Drained \/ GraceOver
  BY <1>5 DEF Drained, GraceOver, ClosePool
<1>6. CASE Outage \/ Return
  BY <1>6 DEF Outage, Return, process
<1>7. CASE UNCHANGED <<process, events, db>>
  BY <1>7 DEF process
<1> QED
  BY <1>2, <1>3, <1>4, <1>5, <1>6, <1>7 DEF Next, vars, Receive, Serve

\* What is known of a request that does not move stays known.
LEMMA RequestFrame ==
  ASSUME NEW s \in Requests, RequestOK(s), req'[s] = req[s], events \subseteq events',
         s \in Running => Serving'
  PROVE  RequestOK(s)'
<1>1. s \in Running' <=> s \in Running
  BY DEF Running
<1>2. Lost(s, events) => Lost(s, events')
  BY DEF Lost
<1>3. req[s].pc = "respond" => Lost(s, events)'
  BY <1>2 DEF RequestOK, Lost
<1>4. Ended(s)' => Lost(s, req[s].fate)'
  BY DEF RequestOK, Lost, Ended
<1> QED
  BY <1>1, <1>3, <1>4 DEF RequestOK, ConnOK, Ended

\* A request that ends with the process lost its money for a reason.
LEMMA ExitRequest ==
  ASSUME ServerInv, NEW because \in SUBSET Events, Exit(because),
         because \cap Sudden # {} \/ (phase = "closing" /\ Held = {}),
         NEW s \in Requests
  PROVE  RequestOK(s)'
<1> USE DEF ServerInv
<1>1. CASE s \notin Running
  BY <1>1, ExitFields, RequestFrame DEF Running, RequestOK, Lost, ConnOK, Ended
<1>2. CASE s \in Running
  <2>1. /\ req'[s].pc = "dropped" /\ req'[s].conn = "none"
        /\ req'[s].fate = events \cup because
        /\ req'[s].moved = req[s].moved /\ req'[s].recorded = req[s].recorded
        /\ req'[s].failed = req[s].failed
    BY <1>2, ExitFields
  <2>2. \/ (events \cup because) \cap Sudden # {}
        \/ "graceOver" \in events /\ s \notin Held
    BY <1>2, RunningHasEnv DEF Serving
  <2>3. "graceOver" \in events /\ s \notin Held /\ s \notin Payments /\ req[s].moved # {}
          => req[s].pc = "respond"
    BY <1>2 DEF RequestOK, ConnOK, Held, Running, TypeOK, RequestType, Pcs
  <2>4. Lost(s, req[s].fate)'
    BY <2>1, <2>2, <2>3 DEF Lost, RequestOK
  <2>5. ~(s \in Running)'
    BY <2>1 DEF Running
  <2> QED
    BY <1>2, <2>1, <2>2, <2>4, <2>5, ServerAssumption
       DEF RequestOK, ConnOK, Ended
<1> QED
  BY <1>1, <1>2

\* Asking for a connection fails only after an outage or when the grace period
\* is over.
LEMMA FailureHasReason ==
  ASSUME ServerInv, NEW r \in Running, CanFail
  PROVE  events \cap {"outage", "graceOver"} # {}
<1>1. Serving /\ phase # Down
  BY RunningHasEnv
<1> QED
  BY <1>1 DEF ServerInv, ProcessOK, CanFail, Serving

\* After a step of its handler a request has moved money, and not recorded it,
\* only where RequestOK allows it.
LEMMA ServeMoney ==
  ASSUME ServerInv, NEW r \in Requests, Serve(r)
  PROVE  /\ req'[r].pc \in {"gateway", "begin", "commit", "respond", "answered"}
         /\ r \in Probes => req'[r].pc \in {"respond", "answered"}
         /\ r \notin Payments /\ req'[r].pc \in {"begin", "gateway"}
              => req'[r].moved = {}
         /\ req'[r].pc = "respond" => Lost(r, events)'
         /\ Ended(r)' => Lost(r, req[r].fate)'
<1> USE DEF ServerInv
<1>1. /\ r \in Running /\ UNCHANGED events /\ RequestOK(r)
      /\ req[r] \in RequestType
  BY ServeFields DEF Serve, TypeOK
<1>2. ASSUME NEW o \in {"ok", "error"}, Answer(r, o),
             req[r].moved # {} => r \in Payments /\ CanFail
      PROVE  req'[r].pc = "respond" /\ Lost(r, events)'
  <2>1. /\ req'[r].pc = "respond" /\ req'[r].moved = req[r].moved
    BY <1>2, AnswerFields DEF Keeps
  <2>2. req[r].moved # {} =>
          r \in Payments /\ events \cap {"outage", "graceOver"} # {}
    BY <1>1, <1>2, FailureHasReason
  <2> QED
    BY <1>1, <2>1, <2>2 DEF Lost
<1>0. ASSUME Fail(r) PROVE req'[r].pc = "respond" /\ Lost(r, events)'
  BY <1>0, FailFields DEF Lost
<1>3. CASE Lookup(r)
  <2>1. req[r].moved = {} /\ r \notin Probes
    BY <1>1, <1>3 DEF RequestOK, Lookup
  <2>2. ASSUME NEW l \in {"gateway", "begin"}, Goto(r, l)
        PROVE  req'[r].pc = l /\ req'[r].moved = {}
    BY <2>1, <2>2, GotoFields DEF Pcs, Keeps
  <2>3. \/ \E o \in {"ok", "error"} : Answer(r, o)
        \/ \E l \in {"gateway", "begin"} : Goto(r, l)
        \/ Fail(r)
    BY <1>3 DEF Lookup
  <2> QED
    BY <1>0, <1>2, <2>1, <2>2, <2>3 DEF Ended
<1>4. CASE CallGateway(r)
  <2>1. PICK l \in {"begin", "commit"} :
          l = IF r \in Payments THEN "begin" ELSE "commit"
    OBVIOUS
  <2>2. req'[r].pc = l \/ Fail(r)
    <3>1. l \in Pcs /\ env \in Environments
      BY <1>1, <2>1, RunningHasEnv DEF Pcs
    <3>2. CASE Goto(r, l)
      BY <3>1, <3>2, GotoFields
    <3>3. CASE req' = [req EXCEPT ![r].pc = l, ![r].moved = {<<env, req[r].name>>}]
      BY <3>1, <3>3, MovedFields
    <3> QED
      BY <1>4, <2>1, <3>2, <3>3 DEF CallGateway
  <2>3. r \notin Probes
    BY <1>1, <1>4 DEF RequestOK, CallGateway
  <2> QED
    BY <1>0, <2>1, <2>2, <2>3 DEF Ended
<1>5. CASE Begin(r)
  <2>1. r \notin Probes /\ (r \notin Payments => req[r].moved = {})
    BY <1>1, <1>5 DEF RequestOK, Begin
  <2>2. PICK l \in {"commit", "gateway"} :
          l = IF r \in Payments THEN "commit" ELSE "gateway"
    OBVIOUS
  <2>3. CASE req' = [req EXCEPT ![r].pc = l, ![r].conn = "held"]
    <3>1. req'[r].pc = l /\ req'[r].moved = req[r].moved
      <4>1. l \in Pcs
        BY <2>2 DEF Pcs
      <4> QED
        BY <2>3, <4>1, BeginFields DEF Keeps
    <3> QED
      BY <2>1, <2>2, <3>1 DEF Ended
  <2>4. CASE CanFail /\ Answer(r, "error")
    BY <1>2, <2>1, <2>4 DEF Ended
  <2>5. CASE Fail(r)
    BY <1>0, <2>1, <2>5 DEF Ended
  <2> QED
    BY <1>5, <2>2, <2>3, <2>4, <2>5 DEF Begin
<1>6. CASE Commit(r)
  <2>1. /\ req'[r].pc = "respond" /\ req'[r].moved = req[r].moved
        /\ ~req'[r].recorded => req'[r].failed \/ ~Connected(r)
    BY <1>6, CommitFields DEF Keeps
  <2>2. ~Connected(r) => "outage" \in events
    BY <1>1, <1>6, RunningHasEnv
       DEF Commit, Connected, RequestOK, ConnOK, ProcessOK, RequestType
  <2>3. r \notin Probes
    BY <1>1, <1>6 DEF Commit, RequestOK
  <2> QED
    BY <1>1, <2>1, <2>2, <2>3 DEF Lost, Ended
<1>7. CASE readiness(r)
  <2>1. req[r].moved = {}
    BY <1>1, <1>7 DEF RequestOK, readiness
  <2> QED
    BY <1>0, <1>2, <1>7, <2>1 DEF readiness, Ended
<1>8. CASE Respond(r)
  <2>1. /\ req'[r].pc = "answered" /\ req'[r].fate = events
        /\ req'[r].moved = req[r].moved /\ req'[r].recorded = req[r].recorded
        /\ req'[r].failed = req[r].failed
    BY <1>8, RespondFields DEF Keeps
  <2>2. Lost(r, events)
    BY <1>1, <1>8 DEF RequestOK, Respond
  <2> QED
    BY <2>1, <2>2 DEF Lost, Ended
<1> QED
  BY <1>3, <1>4, <1>5, <1>6, <1>7, <1>8 DEF Serve

LEMMA RequestNext ==
  ASSUME ServerInv, [Next]_vars
  PROVE  \A s \in Requests : RequestOK(s)'
<1> USE DEF ServerInv
<1> SUFFICES ASSUME NEW s \in Requests PROVE RequestOK(s)'
  OBVIOUS
<1>0. RequestOK(s) /\ ProcessOK
  OBVIOUS
<1>1. CASE UNCHANGED vars
  BY <1>0, <1>1, RequestFrame DEF vars, process, Serving, RequestOK
<1>2. CASE Start
  <2>1. req'[s] = Fresh
    BY <1>2 DEF Start
  <2> QED
    BY <2>1 DEF RequestOK, Fresh, Running, ConnOK, Ended
<1>3. CASE ListenError \/ EarlySignal \/ Closed \/ Kill \/ (Connect /\ ~db)
  <2>1. \E because \in SUBSET Events :
          /\ Exit(because)
          /\ because \cap Sudden # {} \/ (phase = "closing" /\ Held = {})
    <3>1. /\ {"fatal"} \in SUBSET Events /\ {"fatal"} \cap Sudden # {}
          /\ {"earlySignal"} \in SUBSET Events /\ {"earlySignal"} \cap Sudden # {}
          /\ {"killed"} \in SUBSET Events /\ {"killed"} \cap Sudden # {}
          /\ {} \in SUBSET Events
      BY DEF Events, Sudden
    <3>2. \/ Exit({"fatal"}) \/ Exit({"earlySignal"}) \/ Exit({"killed"})
          \/ Exit({}) /\ phase = "closing" /\ Held = {}
      BY <1>3 DEF ListenError, EarlySignal, Closed, Kill, Connect
    <3> QED
      BY <3>1, <3>2
  <2> QED
    BY <2>1, ExitRequest
<1>4. CASE (Connect /\ db) \/ Listen \/ AcceptFails \/ Notify \/ Signal
  <2>1. req' = req /\ events \subseteq events' /\ (Serving => Serving')
    BY <1>4 DEF Connect, Listen, AcceptFails, Notify, Signal, Serving
  <2> QED
    BY <1>0, <2>1, RequestFrame DEF RequestOK
<1>5. CASE Drained \/ GraceOver
  <2>1. /\ req' = req /\ events \subseteq events' /\ phase' = "closing"
        /\ Running = {} \/ "graceOver" \in events'
    BY <1>5 DEF Drained, GraceOver, ClosePool
  <2> QED
    BY <1>0, <2>1, RequestFrame DEF Serving
<1>6. CASE Outage
  <2>1. /\ req'[s].conn = IF s \in Held THEN "cut" ELSE req[s].conn
        /\ Keeps(s, {"pc", "name", "outcome", "moved", "recorded", "failed", "fate"})
        /\ "outage" \in events' /\ events \subseteq events' /\ UNCHANGED process
    BY <1>6, OutageFields DEF Outage
  <2>2. /\ req'[s].pc = req[s].pc /\ req'[s].moved = req[s].moved
        /\ req'[s].recorded = req[s].recorded /\ req'[s].fate = req[s].fate
        /\ req'[s].failed = req[s].failed
    BY <2>1 DEF Keeps
  <2>3. req[s].pc = "idle" => req' [s] = req[s]
    <3>1. s \notin Held => req'[s] = req[s]
      BY <1>6 DEF Outage
    <3> QED
      BY <3>1 DEF Held, RequestOK, Fresh
  <2>4. ConnOK(s)'
    BY <1>0, <2>1, <2>2 DEF ConnOK, RequestOK, Held
  <2>5. (s \in Running)' => Serving'
    BY <1>0, <2>1, <2>2 DEF Running, RequestOK, Serving, process
  <2>6. req[s].pc = "respond" => Lost(s, events)'
    BY <1>0, <2>1, <2>2 DEF RequestOK, Lost
  <2>7. Ended(s)' => Lost(s, req[s].fate)'
    BY <1>0, <2>2 DEF RequestOK, Lost, Ended
  <2> QED
    BY <1>0, <2>2, <2>3, <2>4, <2>5, <2>6, <2>7 DEF RequestOK
<1>7. CASE Return
  BY <1>0, <1>7, RequestFrame DEF Return, process, Serving, RequestOK
<1>8. ASSUME NEW r \in Requests, Receive(r) \/ Serve(r), r # s
      PROVE  RequestOK(s)'
  <2>1. Apart(r) /\ UNCHANGED <<process, events, db>>
    BY <1>8, ReceiveStep, ServeFields DEF Receive, Serve
  <2> QED
    BY <1>0, <1>8, <2>1, RequestFrame DEF Apart, process, Serving, RequestOK
<1>9. CASE Receive(s)
  <2>1. /\ req'[s].pc = IF s \in Probes THEN "ping" ELSE "lookup"
        /\ req'[s].conn = "none" /\ req'[s].moved = {}
    BY <1>9, ReceiveStep DEF Keeps, Fresh
  <2>2. Serving'
    BY <1>0, <1>9 DEF Receive, ProcessOK, process, Serving
  <2> QED
    BY <2>1, <2>2 DEF RequestOK, ConnOK, Ended
<1>10. CASE Serve(s)
  <2>1. s \in Running /\ ConnOK(s)' /\ UNCHANGED <<process, events, db>>
    BY <1>10, ServeFields DEF Serve
  <2>2. Serving'
    BY <1>0, <2>1 DEF RequestOK, process, Serving
  <2> QED
    BY <1>10, <2>1, <2>2, ServeMoney DEF RequestOK
<1> QED
  BY <1>1, <1>2, <1>3, <1>4, <1>5, <1>6, <1>7, <1>8, <1>9, <1>10 DEF Next, Connect

\* The reason for an error stays as long as the process does.
LEMMA ErrorFrame ==
  ASSUME NEW s \in Requests, ErrorOK(s), s \in Running, env' = env,
         events \subseteq events', req'[s].name = req[s].name,
         req'[s].failed = req[s].failed,
         req'[s].outcome = "error" => req[s].outcome = "error"
  PROVE  ErrorOK(s)'
<1>1. Gateway(s)' = Gateway(s)
  BY GatewayIs, GatewayIsNext
<1> QED
  BY <1>1 DEF ErrorOK, Routing!NoGateway

\* An error is answered for want of a gateway or of a connection.
LEMMA ServeError ==
  ASSUME ServerInv, NEW r \in Requests, Serve(r)
  PROVE  ErrorOK(r)'
<1> USE DEF ServerInv
<1>1. /\ r \in Running /\ UNCHANGED events /\ UNCHANGED env
      /\ RequestOK(r) /\ ErrorOK(r) /\ req[r] \in RequestType
  BY ServeFields DEF Serve, TypeOK, process
<1>2. ASSUME Keeps(r, {"name", "outcome", "failed"})
      PROVE  ErrorOK(r)'
  BY <1>1, <1>2, ErrorFrame DEF Keeps
<1>3. ASSUME CanFail PROVE ErrorOK(r)'
  BY <1>1, <1>3, FailureHasReason DEF ErrorOK
<1>4. ASSUME req'[r].outcome # "error" PROVE ErrorOK(r)'
  BY <1>4 DEF ErrorOK
<1>5. ASSUME NEW l \in Pcs, Goto(r, l) PROVE ErrorOK(r)'
  <2>1. Keeps(r, {"name", "outcome", "failed"})
    BY <1>5, GotoFields DEF Keeps
  <2> QED
    BY <1>2, <2>1
<1>6. ASSUME Answer(r, "ok") PROVE ErrorOK(r)'
  BY <1>4, <1>6, AnswerFields
<1>0. ASSUME Fail(r) PROVE ErrorOK(r)'
  BY <1>0, FailFields DEF ErrorOK
<1>7. CASE Lookup(r)
  <2>1. CASE Gateway(r) = Routing!NoGateway /\ Answer(r, "error")
    <3>1. req'[r].name = req[r].name
      BY <2>1, AnswerFields DEF Keeps
    <3>2. Gateway(r)' = Gateway(r)
      BY <1>1, <3>1, GatewayIs, GatewayIsNext
    <3>3. r \notin Probes
      BY <1>1, <1>7 DEF RequestOK, Lookup
    <3> QED
      BY <2>1, <3>2, <3>3 DEF ErrorOK, Routing!NoGateway
  <2>2. \/ CanFail
        \/ Gateway(r) = Routing!NoGateway /\ Answer(r, "error")
        \/ Goto(r, "gateway") \/ Goto(r, "begin")
        \/ Answer(r, "ok") \/ Fail(r)
    BY <1>7 DEF Lookup
  <2>3. ASSUME Goto(r, "gateway") \/ Goto(r, "begin") PROVE ErrorOK(r)'
    BY <1>5, <2>3 DEF Pcs
  <2> QED
    BY <1>0, <1>3, <1>6, <2>1, <2>2, <2>3
<1>8. CASE CallGateway(r)
  <2>1. PICK l \in Pcs : l = IF r \in Payments THEN "begin" ELSE "commit"
    BY DEF Pcs
  <2>2. CASE req' = [req EXCEPT ![r].pc = l, ![r].moved = {<<env, req[r].name>>}]
    <3>1. env \in Environments
      BY <1>1, RunningHasEnv
    <3>2. Keeps(r, {"name", "outcome", "failed"})
      <4>1. TypeOK
        OBVIOUS
      <4>2. Keeps(r, {"name", "conn", "outcome", "recorded", "failed", "fate"})
        BY <2>2, <3>1, <4>1, MovedFields
      <4> QED
        BY <4>2 DEF Keeps
    <3> QED
      BY <1>2, <3>2
  <2>3. \/ Goto(r, l)
        \/ req' = [req EXCEPT ![r].pc = l, ![r].moved = {<<env, req[r].name>>}]
        \/ Fail(r)
    BY <1>8, <2>1 DEF CallGateway
  <2> QED
    BY <1>0, <1>5, <2>2, <2>3
<1>9. CASE Begin(r)
  <2>1. PICK l \in Pcs : l = IF r \in Payments THEN "commit" ELSE "gateway"
    BY DEF Pcs
  <2>2. CASE req' = [req EXCEPT ![r].pc = l, ![r].conn = "held"]
    <3>1. Keeps(r, {"name", "outcome", "failed"})
      <4>1. TypeOK
        OBVIOUS
      <4>2. Keeps(r, {"name", "outcome", "moved", "recorded", "failed", "fate"})
        BY <2>2, <4>1, BeginFields
      <4> QED
        BY <4>2 DEF Keeps
    <3> QED
      BY <1>2, <3>1
  <2>3. \/ CanFail
        \/ req' = [req EXCEPT ![r].pc = l, ![r].conn = "held"]
        \/ Fail(r)
    BY <1>9, <2>1 DEF Begin
  <2> QED
    BY <1>0, <1>3, <2>2, <2>3
<1>10. CASE Commit(r)
  <2>1. req'[r].outcome = "error" => req'[r].failed \/ ~Connected(r)
    BY <1>10, CommitFields
  <2>2. ~Connected(r) => "outage" \in events
    BY <1>1, <1>10, RunningHasEnv
       DEF Commit, Connected, RequestOK, ConnOK, ProcessOK, RequestType
  <2> QED
    BY <1>1, <1>4, <2>1, <2>2 DEF ErrorOK
<1>11. CASE readiness(r)
  BY <1>0, <1>3, <1>6, <1>11 DEF readiness
<1>12. CASE Respond(r)
  <2>1. ~(r \in Running)'
    BY <1>12, RespondFields DEF Running
  <2> QED
    BY <2>1 DEF ErrorOK
<1> QED
  BY <1>7, <1>8, <1>9, <1>10, <1>11, <1>12 DEF Serve

LEMMA ErrorNext ==
  ASSUME ServerInv, [Next]_vars
  PROVE  \A s \in Requests : ErrorOK(s)'
<1> USE DEF ServerInv
<1> SUFFICES ASSUME NEW s \in Requests PROVE ErrorOK(s)'
  OBVIOUS
<1>0. RequestOK(s) /\ ErrorOK(s)
  OBVIOUS
<1>1. ASSUME ~(s \in Running)' PROVE ErrorOK(s)'
  BY <1>1 DEF ErrorOK
<1>2. ASSUME req'[s] = req[s], env' = env, events \subseteq events'
      PROVE  ErrorOK(s)'
  <2>1. s \in Running' <=> s \in Running
    BY <1>2 DEF Running
  <2> QED
    BY <1>0, <1>1, <1>2, <2>1, ErrorFrame
<1>3. ASSUME NEW because \in SUBSET Events, Exit(because) PROVE ErrorOK(s)'
  <2>1. ~(s \in Running)'
    BY <1>3, ExitFields DEF Running
  <2> QED
    BY <1>1, <2>1
<1>4. CASE ListenError \/ EarlySignal \/ Closed \/ Kill \/ (Connect /\ ~db)
  <2>1. /\ {"fatal"} \in SUBSET Events /\ {"earlySignal"} \in SUBSET Events
        /\ {"killed"} \in SUBSET Events /\ {} \in SUBSET Events
    BY DEF Events
  <2> QED
    BY <1>3, <1>4, <2>1 DEF ListenError, EarlySignal, Closed, Kill, Connect
<1>5. CASE Start
  <2>1. req'[s] = Fresh
    BY <1>5 DEF Start
  <2> QED
    BY <1>1, <2>1 DEF Running, Fresh
<1>6. CASE \/ (Connect /\ db) \/ Listen \/ AcceptFails \/ Notify \/ Signal
           \/ Drained \/ GraceOver \/ Return \/ UNCHANGED vars
  <2>1. req' = req /\ env' = env /\ events \subseteq events'
    BY <1>6 DEF Connect, Listen, AcceptFails, Notify, Signal, Drained, GraceOver,
       ClosePool, Return, vars, process
  <2> QED
    BY <1>2, <2>1
<1>7. CASE Outage
  BY <1>7 DEF Outage, ErrorOK
<1>8. ASSUME NEW r \in Requests, Receive(r) \/ Serve(r), r # s
      PROVE  ErrorOK(s)'
  <2>1. Apart(r) /\ UNCHANGED <<process, events, db>>
    BY <1>8, ReceiveStep, ServeFields DEF Receive, Serve
  <2> QED
    BY <1>2, <1>8, <2>1 DEF Apart, process
<1>9. CASE Receive(s)
  <2>1. req'[s].outcome = "none"
    BY <1>9, ReceiveStep DEF Keeps, Fresh
  <2> QED
    BY <2>1 DEF ErrorOK
<1> QED
  BY <1>4, <1>5, <1>6, <1>7, <1>8, <1>9, ServeError DEF Next, Connect

-----------------------------------------------------------------------------
(* Theorems *)

LEMMA ServerInit ==
  ASSUME Init
  PROVE  ServerInv
<1>1. \A r \in Requests : req[r] = Fresh
  BY DEF Init
<1>2. Fresh \in RequestType
  BY ServerAssumption DEF Fresh, RequestType, Pcs
<1>3. TypeOK
  <2>1. Held = {}
    BY <1>1 DEF Held, Fresh
  <2>2. req \in [Requests -> RequestType]
    BY <1>2 DEF Init
  <2> QED
    BY <2>1, <2>2, ServerAssumption DEF Init, TypeOK, Phases, Down
<1>4. ProcessOK
  BY DEF Init, ProcessOK, Down
<1>5. ASSUME NEW r \in Requests
      PROVE  RequestOK(r) /\ ErrorOK(r)
  <2>0. req[r] = Fresh
    BY <1>1
  <2>1. req[r].pc = "idle" /\ req[r].conn = "none"
    BY <2>0 DEF Fresh
  <2>2. r \notin Running /\ ~Ended(r) /\ ConnOK(r)
    BY <2>1 DEF Running, Ended, ConnOK
  <2>3. ErrorOK(r)
    BY <2>2 DEF ErrorOK
  <2> QED
    BY <2>0, <2>1, <2>2, <2>3 DEF RequestOK
<1> QED
  BY <1>3, <1>4, <1>5 DEF ServerInv

\* However often the process is started, signalled, killed or cut off from its
\* database, its phase, its pool and its requests stay in step.
THEOREM ServerInductive == Spec => []ServerInv
<1>1. Init => ServerInv
  BY ServerInit
<1>2. ServerInv /\ [Next]_vars => ServerInv'
  BY TypeNext, ProcessNext, RequestNext, ErrorNext DEF ServerInv
<1> QED
  BY <1>1, <1>2, PTL DEF Spec

\* The state is of its type, the listener is only open with the pool, and a
\* request that has ended holds no connection, for which db.Close() would wait.
THEOREM ServerTypeOKHolds == Spec => []TypeOK
<1>1. ServerInv => TypeOK
  BY DEF ServerInv
<1> QED
  BY <1>1, ServerInductive, PTL

\* Where the record of money that moved is lost and the request did not fail by
\* itself, the reason is one of those LossExplained names; the drain of a shutdown
\* is none of them.
THEOREM LossExplainedHolds == Spec => []LossExplained
<1>1. ServerInv => LossExplained
  BY DEF ServerInv, RequestOK, Lost, LossExplained
<1> QED
  BY <1>1, ServerInductive, PTL

\* A request is left without an answer only by a sudden end or at the end of the
\* grace period.
THEOREM DropExplainedHolds == Spec => []DropExplained
<1>1. ServerInv => DropExplained
  BY DEF ServerInv, RequestOK, DropExplained
<1> QED
  BY <1>1, ServerInductive, PTL

\* While Shutdown waits, the pool serves: nothing but an outage makes a probe or a
\* request with an enabled gateway fail that does not fail by itself.
THEOREM ServesWhileDrainingHolds == Spec => []ServesWhileDraining
<1>1. ServerInv => ServesWhileDraining
  BY DEF ServerInv, ErrorOK, ServesWhileDraining, Running
<1> QED
  BY <1>1, ServerInductive, PTL

\* All that moved for a request moved through an adapter that was switched on.
MovedBySwitch(r) ==
  \A m \in req[r].moved : SwitchedOn(m[1], Lower[RoutedName(m[1], m[2])])

LEMMA MovedFrame ==
  ASSUME NEW s, MovedBySwitch(s),
         req'[s].moved = req[s].moved \/ req'[s].moved = {}
  PROVE  MovedBySwitch(s)'
BY DEF MovedBySwitch

\* A handler moves money where the router gave it an adapter that can.
LEMMA ServeMoved ==
  ASSUME ServerInv, NEW r \in Requests, Serve(r), MovedBySwitch(r)
  PROVE  MovedBySwitch(r)'
<1> USE DEF ServerInv
<1>1. r \in Running /\ env \in Environments
  BY ServeFields, RunningHasEnv
<1>2. ASSUME Keeps(r, {"moved"})
      PROVE  MovedBySwitch(r)'
  <2>1. req'[r].moved = req[r].moved
    BY <1>2 DEF Keeps
  <2> QED
    BY <2>1, MovedFrame
<1>3. ASSUME NEW l \in Pcs, Goto(r, l) PROVE MovedBySwitch(r)'
  <2>1. Keeps(r, {"moved"})
    BY <1>3, GotoFields DEF Keeps
  <2> QED
    BY <1>2, <2>1
<1>4. ASSUME NEW o \in {"ok", "error"}, Answer(r, o) PROVE MovedBySwitch(r)'
  <2>1. Keeps(r, {"moved"})
    BY <1>4, AnswerFields DEF Keeps
  <2> QED
    BY <1>2, <2>1
<1>0. ASSUME Fail(r) PROVE MovedBySwitch(r)'
  <2>1. Keeps(r, {"moved"})
    BY <1>0, FailFields DEF Keeps
  <2> QED
    BY <1>2, <2>1
<1>5. CASE Lookup(r) \/ readiness(r)
  <2>1. \/ \E o \in {"ok", "error"} : Answer(r, o)
        \/ Goto(r, "gateway") \/ Goto(r, "begin")
        \/ Fail(r)
    BY <1>5 DEF Lookup, readiness
  <2> QED
    BY <1>0, <1>3, <1>4, <2>1 DEF Pcs
<1>6. CASE CallGateway(r)
  <2>1. PICK l \in Pcs : l = IF r \in Payments THEN "begin" ELSE "commit"
    BY DEF Pcs
  <2>2. CASE /\ Gateway(r) \in Moving(r)
             /\ req' = [req EXCEPT ![r].pc = l, ![r].moved = {<<env, req[r].name>>}]
    <3>1. req'[r].moved = {<<env, req[r].name>>}
      BY <1>1, <2>2, MovedFields
    <3>2. Adapter(env, req[r].name) \in {"mock", "stripe"}
      BY <2>2, GatewayIs DEF Moving
    <3>3. PICK e, n : e = env /\ n = req[r].name
      OBVIOUS
    <3>4. SwitchedOn(e, Lower[RoutedName(e, n)])
      BY <3>2, <3>3, EnabledIsSwitchedOn
    <3>5. \A m \in req'[r].moved : m[1] = e /\ m[2] = n
      BY <3>1, <3>3
    <3> QED
      BY <3>4, <3>5 DEF MovedBySwitch
  <2>3. \/ Goto(r, l)
        \/ /\ Gateway(r) \in Moving(r)
           /\ req' = [req EXCEPT ![r].pc = l, ![r].moved = {<<env, req[r].name>>}]
        \/ Fail(r)
    BY <1>6, <2>1 DEF CallGateway
  <2> QED
    BY <1>0, <1>3, <2>2, <2>3
<1>7. CASE Begin(r)
  <2>1. PICK l \in Pcs : l = IF r \in Payments THEN "commit" ELSE "gateway"
    BY DEF Pcs
  <2>2. CASE req' = [req EXCEPT ![r].pc = l, ![r].conn = "held"]
    <3>1. TypeOK
      OBVIOUS
    <3>2. Keeps(r, {"name", "outcome", "moved", "recorded", "failed", "fate"})
      BY <2>2, <3>1, BeginFields
    <3>3. Keeps(r, {"moved"})
      BY <3>2 DEF Keeps
    <3> QED
      BY <1>2, <3>3
  <2>3. \/ Answer(r, "error") \/ Fail(r)
        \/ req' = [req EXCEPT ![r].pc = l, ![r].conn = "held"]
    BY <1>7, <2>1 DEF Begin
  <2> QED
    BY <1>0, <1>4, <2>2, <2>3
<1>8. CASE Commit(r)
  <2>1. Keeps(r, {"moved"})
    BY <1>8, CommitFields DEF Keeps
  <2> QED
    BY <1>2, <2>1
<1>9. CASE Respond(r)
  <2>1. Keeps(r, {"moved"})
    BY <1>9, RespondFields DEF Keeps
  <2> QED
    BY <1>2, <2>1
<1> QED
  BY <1>5, <1>6, <1>7, <1>8, <1>9 DEF Serve

LEMMA MovedNext ==
  ASSUME ServerInv, \A r \in Requests : MovedBySwitch(r), [Next]_vars
  PROVE  \A r \in Requests : MovedBySwitch(r)'
<1> USE DEF ServerInv
<1> SUFFICES ASSUME NEW s \in Requests PROVE MovedBySwitch(s)'
  OBVIOUS
<1>0. MovedBySwitch(s)
  OBVIOUS
<1>1. ASSUME NEW because \in SUBSET Events, Exit(because)
      PROVE  MovedBySwitch(s)'
  BY <1>0, <1>1, ExitFields, MovedFrame
<1>2. CASE ListenError \/ EarlySignal \/ Closed \/ Kill \/ (Connect /\ ~db)
  <2>1. /\ {"fatal"} \in SUBSET Events /\ {"earlySignal"} \in SUBSET Events
        /\ {"killed"} \in SUBSET Events /\ {} \in SUBSET Events
    BY DEF Events
  <2> QED
    BY <1>1, <1>2, <2>1 DEF ListenError, EarlySignal, Closed, Kill, Connect
<1>3. CASE Start
  <2>1. req'[s].moved = {}
    BY <1>3 DEF Start, Fresh
  <2> QED
    BY <2>1 DEF MovedBySwitch
<1>4. CASE \/ (Connect /\ db) \/ Listen \/ AcceptFails \/ Notify \/ Signal
           \/ Drained \/ GraceOver \/ Return \/ UNCHANGED vars
  <2>1. req' = req
    BY <1>4 DEF Connect, Listen, AcceptFails, Notify, Signal, Drained, GraceOver,
       ClosePool, Return, vars
  <2> QED
    BY <1>0, <2>1, MovedFrame
<1>5. CASE Outage
  <2>1. req'[s].moved = req[s].moved
    BY <1>5, OutageFields DEF Keeps
  <2> QED
    BY <1>0, <2>1, MovedFrame
<1>6. ASSUME NEW r \in Requests, Receive(r) \/ Serve(r), r # s
      PROVE  MovedBySwitch(s)'
  <2>1. Apart(r)
    BY <1>6, ReceiveStep, ServeFields
  <2> QED
    BY <1>0, <1>6, <2>1, MovedFrame DEF Apart
<1>7. CASE Receive(s)
  <2>1. req'[s].moved = req[s].moved
    BY <1>7, ReceiveStep DEF Keeps
  <2> QED
    BY <1>0, <2>1, MovedFrame
<1> QED
  BY <1>0, <1>2, <1>3, <1>4, <1>5, <1>6, <1>7, ServeMoved DEF Next, Connect

\* In every run, under whatever environments, money moves only through an adapter
\* that the environment of that process switched on and gave its credentials.
THEOREM MoneyNeedsOperatorHolds == Spec => []MoneyNeedsOperator
<1>1. Init => \A r \in Requests : MovedBySwitch(r)
  BY DEF Init, Fresh, MovedBySwitch
<1>2. /\ ServerInv /\ (\A r \in Requests : MovedBySwitch(r)) /\ [Next]_vars
      => (\A r \in Requests : MovedBySwitch(r))'
  BY MovedNext
<1>3. (\A r \in Requests : MovedBySwitch(r)) => MoneyNeedsOperator
  BY DEF MovedBySwitch, MoneyNeedsOperator, RoutedName
<1> QED
  BY <1>1, <1>2, <1>3, ServerInductive, PTL DEF Spec
=============================================================================
