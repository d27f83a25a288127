---------------------------- MODULE RateLimiter ----------------------------
(***************************************************************************)
(* go/internal/httpx: the rate limiter in front of every request and the   *)
(* goroutine that forgets clients it has not seen for a while.             *)
(*                                                                         *)
(* Time is counted in ticks of 1/RateLimitPerSecond seconds, so that a     *)
(* bucket gains one token per tick.  A bucket is named by the request that *)
(* created it.  getLimiter, Allow and the deletion are atomic because each *)
(* runs under a mutex; between them anything may happen.                   *)
(***************************************************************************)
EXTENDS Integers, FiniteSets

CONSTANTS
  Clients,    \* client addresses
  Requests,   \* the requests ever sent
  None,       \* "no bucket"
  Enabled,    \* RateLimitEnabled
  Burst,      \* RateLimitBurst
  TTL,        \* rateLimiterEntryTTL
  SweepEvery, \* rateLimiterSweepEvery
  MaxStall,   \* longest time a runnable goroutine is not scheduled
  MaxTime     \* bound: the last tick

(***************************************************************************)
(* A client that was forgotten could have filled its bucket by then; with  *)
(* the defaults TTL is 6000 ticks and Burst is 20.                         *)
(***************************************************************************)
ASSUME LimiterAssumption ==
  /\ Clients # {}
  /\ IsFiniteSet(Requests)
  /\ None \notin Requests \cup Int
  /\ Enabled \in BOOLEAN
  /\ {Burst, TTL, SweepEvery, MaxTime} \subseteq Nat
  /\ SweepEvery > 0
  /\ MaxStall \in Nat \ {0}
  /\ MaxStall + Burst <= TTL

VARIABLES
  now,       \* the time
  limiters,  \* the map: the bucket of each client
  lastSeen,  \* the map: when the client was last seen
  bucket,    \* the buckets, in the map or not
  nextSweep, \* when the ticker fires next
  cutoff,    \* what the sweeper computed before it takes the mutex
  pc,        \* where the request stands
  client,    \* who sent it
  holds,     \* the bucket getLimiter gave it
  since,     \* when it got it
  reply      \* "served" or "429", and when

map == <<limiters, lastSeen>>
sweeper == <<nextSweep, cutoff>>
request == <<client, holds, since>>
vars == <<now, limiters, lastSeen, bucket, nextSweep, cutoff, pc, client,
          holds, since, reply>>

-----------------------------------------------------------------------------
(* State *)

\* Mutant: a new bucket has a token more than it may hold.
NewLimiterExtra(t) == [tokens |-> Burst + 1, last |-> t]

\* A new bucket is full.
NewLimiter(t) == [tokens |-> Burst, last |-> t]
NoReply == [code |-> "none", at |-> 0]
Sweeping == cutoff # None

Init ==
  /\ now = 0
  /\ limiters = [c \in Clients |-> None]
  /\ lastSeen = [c \in Clients |-> 0]
  /\ bucket = [r \in Requests |-> NewLimiter(0)]  \* not in use yet
  /\ nextSweep = SweepEvery
  /\ cutoff = None
  /\ pc = [r \in Requests |-> "idle"]
  /\ client = [r \in Requests |-> CHOOSE c \in Clients : TRUE]  \* not yet sent
  /\ holds = [r \in Requests |-> None]
  /\ since = [r \in Requests |-> 0]
  /\ reply = [r \in Requests |-> NoReply]

-----------------------------------------------------------------------------
(* Requests *)

\* The limiter is off, or the path is one of the health checks.
Exempt(r) ==
  /\ pc[r] = "idle"
  /\ \E c \in Clients : client' = [client EXCEPT ![r] = c]
  /\ pc' = [pc EXCEPT ![r] = "exempt"]
  /\ UNCHANGED <<now, map, bucket, sweeper, holds, since, reply>>

\* Mutant: lastSeen is set when the entry is made and never again.
getLimiterSeenOnce(r) ==
  /\ Enabled
  /\ pc[r] = "idle"
  /\ \E c \in Clients :
       /\ client' = [client EXCEPT ![r] = c]
       /\ lastSeen' = IF limiters[c] = None THEN [lastSeen EXCEPT ![c] = now]
                                            ELSE lastSeen
       /\ \/ /\ limiters[c] = None
             /\ limiters' = [limiters EXCEPT ![c] = r]
             /\ bucket' = [bucket EXCEPT ![r] = NewLimiter(now)]
          \/ /\ limiters[c] # None
             /\ UNCHANGED <<limiters, bucket>>
       /\ holds' = [holds EXCEPT ![r] = limiters'[c]]
  /\ since' = [since EXCEPT ![r] = now]
  /\ pc' = [pc EXCEPT ![r] = "allow"]
  /\ UNCHANGED <<now, sweeper, reply>>

\* The bucket of the client, a full one if it has none; the client is seen.
getLimiter(r) ==
  /\ Enabled
  /\ pc[r] = "idle"
  /\ \E c \in Clients :
       /\ client' = [client EXCEPT ![r] = c]
       /\ lastSeen' = [lastSeen EXCEPT ![c] = now]
       /\ \/ /\ limiters[c] = None
             /\ limiters' = [limiters EXCEPT ![c] = r]
             /\ bucket' = [bucket EXCEPT ![r] = NewLimiter(now)]
          \/ /\ limiters[c] # None
             /\ UNCHANGED <<limiters, bucket>>
       /\ holds' = [holds EXCEPT ![r] = limiters'[c]]
  /\ since' = [since EXCEPT ![r] = now]
  /\ pc' = [pc EXCEPT ![r] = "allow"]
  /\ UNCHANGED <<now, sweeper, reply>>

\* What the bucket holds now: a token per tick, up to Burst.
Refilled(b) ==
  LET tokens == b.tokens + (now - b.last)
  IN IF tokens > Burst THEN Burst ELSE tokens

\* Mutant: one request too early is refused.
AllowKeepsOne(r) ==
  /\ pc[r] = "allow"
  /\ LET tokens == Refilled(bucket[holds[r]])
         ok == tokens > 1
     IN /\ bucket' = [bucket EXCEPT ![holds[r]] =
             [tokens |-> IF ok THEN tokens - 1 ELSE tokens, last |-> now]]
        /\ reply' = [reply EXCEPT ![r] =
             [code |-> IF ok THEN "served" ELSE "429", at |-> now]]
  /\ pc' = [pc EXCEPT ![r] = "done"]
  /\ holds' = [holds EXCEPT ![r] = None]
  /\ since' = [since EXCEPT ![r] = 0]
  /\ UNCHANGED <<now, map, sweeper, client>>

\* A token is taken from the bucket the request holds; without one the request
\* is refused.
Allow(r) ==
  /\ pc[r] = "allow"
  /\ LET tokens == Refilled(bucket[holds[r]])
         ok == tokens > 0
     IN /\ bucket' = [bucket EXCEPT ![holds[r]] =
             [tokens |-> IF ok THEN tokens - 1 ELSE tokens, last |-> now]]
        /\ reply' = [reply EXCEPT ![r] =
             [code |-> IF ok THEN "served" ELSE "429", at |-> now]]
  /\ pc' = [pc EXCEPT ![r] = "done"]
  /\ holds' = [holds EXCEPT ![r] = None]
  /\ since' = [since EXCEPT ![r] = 0]
  /\ UNCHANGED <<now, map, sweeper, client>>

-----------------------------------------------------------------------------
(* The sweeper *)

\* The ticker fired and the cutoff is computed, outside the mutex.
SweepStarts ==
  /\ Enabled
  /\ ~Sweeping
  /\ now >= nextSweep
  /\ cutoff' = now - TTL
  /\ UNCHANGED <<now, map, bucket, nextSweep, pc, request, reply>>

\* Mutant: the TTL is subtracted a second time.
IdleTwice(c) == limiters[c] # None /\ lastSeen[c] < cutoff - TTL

Idle(c) == limiters[c] # None /\ lastSeen[c] < cutoff

\* Under the mutex, entries not seen since the cutoff are deleted.
SweepDeletes ==
  /\ Sweeping
  /\ limiters' = [c \in Clients |-> IF Idle(c) THEN None ELSE limiters[c]]
  /\ lastSeen' = [c \in Clients |-> IF Idle(c) THEN 0 ELSE lastSeen[c]]
  /\ cutoff' = None
  /\ nextSweep' = nextSweep + SweepEvery
  /\ UNCHANGED <<now, bucket, pc, request, reply>>

-----------------------------------------------------------------------------
(* Time *)

\* Time passes, but no goroutine is kept waiting for more than MaxStall.
Tick ==
  /\ now < MaxTime
  /\ Enabled => now < nextSweep + MaxStall
  /\ \A r \in Requests : pc[r] = "allow" => now < since[r] + MaxStall
  /\ now' = now + 1
  /\ UNCHANGED <<map, bucket, sweeper, pc, request, reply>>

Finished ==
  /\ now = MaxTime
  /\ \A r \in Requests : pc[r] \in {"done", "exempt"}
  /\ UNCHANGED vars

Next ==
  \/ \E r \in Requests : Exempt(r) \/ getLimiter(r) \/ Allow(r)
  \/ SweepStarts
  \/ SweepDeletes
  \/ Tick
  \/ Finished

Spec == Init /\ [][Next]_vars
-----------------------------------------------------------------------------
(* Properties *)

TypeOK ==
  /\ now \in 0 .. MaxTime
  /\ limiters \in [Clients -> Requests \cup {None}]
  /\ lastSeen \in [Clients -> 0 .. MaxTime]
  /\ bucket \in [Requests -> [tokens : 0 .. Burst, last : 0 .. MaxTime]]
  /\ nextSweep \in Nat
  /\ cutoff \in -TTL .. MaxTime \/ cutoff = None
  /\ pc \in [Requests -> {"idle", "allow", "done", "exempt"}]
  /\ client \in [Requests -> Clients]
  /\ holds \in [Requests -> Requests \cup {None}]
  /\ since \in [Requests -> 0 .. MaxTime]
  /\ reply \in [Requests -> [code : {"none", "served", "429"}, at : 0 .. MaxTime]]

\* The requests of a client that were let through between two ticks.
Served(c, from, to) ==
  {r \in Requests : client[r] = c /\ reply[r].code = "served"
                    /\ reply[r].at \in from .. to}

\* In no interval does a client get more than Burst requests and one per tick,
\* although it loses its bucket when it is idle and the sweeper looks at the map
\* while requests are between getLimiter and Allow.
BudgetKept ==
  \A c \in Clients : \A from, to \in 0 .. now :
    from <= to => Cardinality(Served(c, from, to)) <= Burst + (to - from)

\* A request is refused only if its client had used up its budget: up to then,
\* in some interval, it got Burst requests and one per tick.
RefusedOverBudget ==
  \A r \in Requests : reply[r].code = "429" =>
    \E from \in 0 .. reply[r].at :
      Cardinality(Served(client[r], from, reply[r].at))
        >= Burst + (reply[r].at - from)

\* The map only has clients that were seen lately: "bounded map + lastSeen TTL
\* (10m) sweep janitor (1m)".
MapBounded ==
  \A c \in Clients :
    limiters[c] # None => now - lastSeen[c] <= TTL + SweepEvery + MaxStall
=============================================================================
