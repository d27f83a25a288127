------------------------- MODULE RateLimiterProofs -------------------------
(***************************************************************************)
(* Proofs about RateLimiter, for any number of clients and requests and    *)
(* any burst, TTL and period that satisfy LimiterAssumption.  LimiterInv   *)
(* says that the sweeper never takes a bucket from a request that holds    *)
(* it, because a bucket it drops has been full for a while; so what a      *)
(* client was given and what its bucket holds always add up.               *)
(***************************************************************************)
EXTENDS RateLimiter, FiniteSetTheorems, TLAPS

-----------------------------------------------------------------------------
(* The inductive invariant *)

\* Nothing happened later than now, and only a request that Allow has answered
\* has a reply.
TimesOK ==
  /\ \A c \in Clients : lastSeen[c] <= now
  /\ \A r \in Requests :
       /\ bucket[r].last <= now /\ since[r] <= now /\ reply[r].at <= now
       /\ pc[r] # "done" => reply[r].code = "none"
       /\ pc[r] = "allow" => Enabled /\ now <= since[r] + MaxStall

\* The sweeper is on time, and its cutoff is no later than TTL before now.
SweepOK ==
  /\ now >= nextSweep - SweepEvery
  /\ Enabled => now <= nextSweep + MaxStall
  /\ Sweeping => nextSweep - TTL <= cutoff /\ cutoff <= now - TTL

\* The bucket of a client was made for it, and it was used at most MaxStall
\* after the client was last seen.
MapOK ==
  \A c \in Clients : limiters[c] # None =>
    /\ Enabled
    /\ client[limiters[c]] = c
    /\ pc[limiters[c]] \in {"allow", "done"}
    /\ bucket[limiters[c]].last <= lastSeen[c] + MaxStall
    /\ lastSeen[c] >= nextSweep - SweepEvery - TTL

\* A request between getLimiter and Allow holds the bucket in the map.
HoldsOK ==
  \A r \in Requests : pc[r] = "allow" =>
    /\ limiters[client[r]] # None
    /\ holds[r] = limiters[client[r]]
    /\ since[r] <= lastSeen[client[r]]

\* What client c may still be given in this tick.
Left(c) == IF limiters[c] = None THEN Burst ELSE Refilled(bucket[limiters[c]])

\* What c was given since any tick and what it has left stay within the budget,
\* and since some tick they exhaust it.
WithinBudget(c) ==
  \A from \in 0 .. now :
    Cardinality(Served(c, from, now)) <= Burst - Left(c) + (now - from)
BudgetUsed(c) ==
  \E from \in 0 .. now :
    Cardinality(Served(c, from, now)) >= Burst - Left(c) + (now - from)

LimiterInv ==
  /\ TypeOK
  /\ TimesOK
  /\ SweepOK
  /\ MapOK
  /\ HoldsOK
  /\ \A c \in Clients : WithinBudget(c) /\ BudgetUsed(c)

-----------------------------------------------------------------------------
(* Types and times *)

LEMMA TypeNext ==
  ASSUME LimiterInv, [Next]_vars
  PROVE  TypeOK'
<1> USE LimiterAssumption DEF LimiterInv, TypeOK
<1>1. ASSUME NEW r \in Requests, Exempt(r)
      PROVE  TypeOK'
  BY <1>1 DEF Exempt, map, sweeper
<1>2. ASSUME NEW r \in Requests, getLimiter(r)
      PROVE  TypeOK'
  <2>1. NewLimiter(now) \in [tokens : 0 .. Burst, last : 0 .. MaxTime]
    BY DEF NewLimiter
  <2>2. bucket' \in [Requests -> [tokens : 0 .. Burst, last : 0 .. MaxTime]]
    BY <1>2, <2>1 DEF getLimiter
  <2>3. /\ client' \in [Requests -> Clients]
        /\ lastSeen' \in [Clients -> 0 .. MaxTime]
        /\ limiters' \in [Clients -> Requests \cup {None}]
    BY <1>2 DEF getLimiter
  <2>4. holds' \in [Requests -> Requests \cup {None}]
    BY <1>2, <2>3 DEF getLimiter
  <2> QED
    BY <1>2, <2>2, <2>3, <2>4 DEF getLimiter, sweeper
<1>3. ASSUME NEW r \in Requests, Allow(r)
      PROVE  TypeOK'
  <2>1. holds[r] \in Requests
    BY <1>3 DEF Allow, HoldsOK
  <2>2. Refilled(bucket[holds[r]]) \in 0 .. Burst
    BY <2>1 DEF Refilled, TimesOK
  <2>3. bucket' \in [Requests -> [tokens : 0 .. Burst, last : 0 .. MaxTime]]
    BY <1>3, <2>1, <2>2 DEF Allow
  <2>4. reply' \in [Requests -> [code : {"none", "served", "429"}, at : 0 .. MaxTime]]
    BY <1>3 DEF Allow
  <2> QED
    BY <1>3, <2>3, <2>4 DEF Allow, map, sweeper
<1>4. CASE SweepStarts
  BY <1>4 DEF SweepStarts, map, request
<1>5. CASE SweepDeletes
  BY <1>5 DEF SweepDeletes, request
<1>6. CASE Tick
  BY <1>6 DEF Tick, map, sweeper, request
<1>7. CASE UNCHANGED vars
  BY <1>7 DEF vars
<1> QED
  BY <1>1, <1>2, <1>3, <1>4, <1>5, <1>6, <1>7 DEF Next, Finished

LEMMA TimesNext ==
  ASSUME LimiterInv, [Next]_vars
  PROVE  TimesOK'
<1> USE LimiterAssumption DEF LimiterInv, TypeOK, TimesOK
<1>1. ASSUME NEW r \in Requests, Exempt(r)
      PROVE  TimesOK'
  BY <1>1 DEF Exempt, map, sweeper
<1>2. ASSUME NEW r \in Requests, getLimiter(r)
      PROVE  TimesOK'
  <2>1. \A s \in Requests : bucket'[s] = bucket[s] \/ bucket'[s] = NewLimiter(now)
    BY <1>2 DEF getLimiter
  <2>2. \A s \in Requests : bucket'[s].last <= now
    <3>1. NewLimiter(now).last = now
      BY DEF NewLimiter
    <3> QED
      BY <2>1, <3>1
  <2>3. \A c \in Clients : lastSeen'[c] <= now
    BY <1>2 DEF getLimiter
  <2> QED
    BY <1>2, <2>2, <2>3 DEF getLimiter
<1>3. ASSUME NEW r \in Requests, Allow(r)
      PROVE  TimesOK'
  <2>1. holds[r] \in Requests
    BY <1>3 DEF Allow, HoldsOK
  <2>2. \A s \in Requests : bucket'[s] = bucket[s] \/ bucket'[s].last = now
    BY <1>3, <2>1 DEF Allow
  <2>3. \A s \in Requests : s = r \/ reply'[s] = reply[s]
    BY <1>3 DEF Allow
  <2>4. reply'[r].at = now
    BY <1>3 DEF Allow
  <2> QED
    BY <1>3, <2>2, <2>3, <2>4 DEF Allow, map
<1>4. CASE SweepStarts
  BY <1>4 DEF SweepStarts, map, request
<1>5. CASE SweepDeletes
  BY <1>5 DEF SweepDeletes, request
<1>6. CASE Tick
  BY <1>6 DEF Tick, map, sweeper, request
<1>7. CASE UNCHANGED vars
  BY <1>7 DEF vars
<1> QED
  BY <1>1, <1>2, <1>3, <1>4, <1>5, <1>6, <1>7 DEF Next, Finished

LEMMA SweepNext ==
  ASSUME LimiterInv, [Next]_vars
  PROVE  SweepOK'
<1> USE LimiterAssumption DEF LimiterInv, TypeOK, SweepOK, Sweeping
<1>1. CASE UNCHANGED <<now, sweeper>>
  BY <1>1 DEF sweeper
<1>2. CASE SweepStarts
  BY <1>2 DEF SweepStarts
<1>3. CASE SweepDeletes
  BY <1>3 DEF SweepDeletes
<1>4. CASE Tick
  BY <1>4 DEF Tick, sweeper
<1> QED
  BY <1>1, <1>2, <1>3, <1>4
     DEF Next, Exempt, getLimiter, Allow, Finished, vars, sweeper
-----------------------------------------------------------------------------
(* The map *)

\* A client that the sweeper forgets has a full bucket that no request holds.
LEMMA IdleIsFull ==
  ASSUME LimiterInv, Sweeping, NEW c \in Clients, Idle(c)
  PROVE  /\ \A r \in Requests : pc[r] = "allow" => client[r] # c
         /\ Refilled(bucket[limiters[c]]) = Burst
<1> USE LimiterAssumption DEF LimiterInv, TypeOK
<1>1. limiters[c] \in Requests /\ lastSeen[c] < now - TTL
  BY DEF Idle, SweepOK, Sweeping
<1>2. \A r \in Requests : pc[r] = "allow" => client[r] # c
  BY <1>1 DEF HoldsOK, TimesOK
<1>3. bucket[limiters[c]].last < now - Burst
  BY <1>1 DEF MapOK
<1>4. bucket[limiters[c]].tokens \in 0 .. Burst /\ bucket[limiters[c]].last \in Int
  BY <1>1
<1>5. Refilled(bucket[limiters[c]]) = Burst
  BY <1>3, <1>4 DEF Refilled
<1> QED
  BY <1>2, <1>5

LEMMA MapNext ==
  ASSUME LimiterInv, [Next]_vars
  PROVE  MapOK'
<1> USE LimiterAssumption DEF LimiterInv, TypeOK
<1>1. CASE UNCHANGED <<map, bucket, nextSweep, pc, client>>
  BY <1>1 DEF MapOK, map
<1>2. ASSUME NEW r \in Requests, Exempt(r)
      PROVE  MapOK'
  <2>1. \A c \in Clients : limiters[c] # None => limiters[c] # r
    BY <1>2 DEF Exempt, MapOK
  <2> QED
    BY <1>2, <2>1 DEF Exempt, MapOK, map, sweeper
<1>3. ASSUME NEW r \in Requests, getLimiter(r)
      PROVE  MapOK'
  <2>1. PICK c \in Clients :
          /\ client' = [client EXCEPT ![r] = c]
          /\ lastSeen' = [lastSeen EXCEPT ![c] = now]
          /\ \/ /\ limiters[c] = None
                /\ limiters' = [limiters EXCEPT ![c] = r]
                /\ bucket' = [bucket EXCEPT ![r] = NewLimiter(now)]
             \/ /\ limiters[c] # None
                /\ UNCHANGED <<limiters, bucket>>
    BY <1>3 DEF getLimiter
  <2>2. /\ Enabled /\ pc[r] = "idle" /\ pc' = [pc EXCEPT ![r] = "allow"]
        /\ UNCHANGED <<now, nextSweep>>
    BY <1>3 DEF getLimiter, sweeper
  <2>3. \A d \in Clients : limiters[d] # None => limiters[d] # r
    BY <2>2 DEF MapOK
  <2>4. ASSUME NEW d \in Clients, limiters'[d] # None
        PROVE  /\ client'[limiters'[d]] = d
               /\ pc'[limiters'[d]] \in {"allow", "done"}
               /\ bucket'[limiters'[d]].last <= lastSeen'[d] + MaxStall
               /\ lastSeen'[d] >= nextSweep' - SweepEvery - TTL
    <3>1. CASE d = c /\ limiters[c] = None
      <4>1. limiters'[d] = r /\ client'[r] = d /\ lastSeen'[d] = now
        BY <2>1, <3>1
      <4>2. bucket'[r] = NewLimiter(now)
        BY <2>1, <3>1
      <4>3. bucket'[r].last = now
        BY <4>2 DEF NewLimiter
      <4> QED
        BY <2>2, <4>1, <4>3 DEF SweepOK
    <3>2. CASE ~(d = c /\ limiters[c] = None)
      <4>1. limiters'[d] = limiters[d] /\ limiters[d] \in Requests \ {r}
        BY <2>1, <2>3, <2>4, <3>2
      <4>2. bucket'[limiters[d]] = bucket[limiters[d]]
        BY <2>1, <4>1
      <4>3. lastSeen'[d] = lastSeen[d] \/ lastSeen'[d] = now
        BY <2>1
      <4> QED
        BY <2>1, <2>2, <4>1, <4>2, <4>3 DEF MapOK, SweepOK, TimesOK
    <3> QED
      BY <3>1, <3>2
  <2> QED
    BY <2>2, <2>4 DEF MapOK
<1>4. ASSUME NEW r \in Requests, Allow(r)
      PROVE  MapOK'
  <2>1. /\ holds[r] = limiters[client[r]] /\ holds[r] \in Requests
        /\ now <= lastSeen[client[r]] + MaxStall
    BY <1>4 DEF Allow, HoldsOK, TimesOK
  <2>2. PICK x : bucket' = [bucket EXCEPT ![holds[r]] = [tokens |-> x, last |-> now]]
    BY <1>4 DEF Allow
  <2>3. bucket'[holds[r]].last = now
    BY <2>1, <2>2
  <2>4. \A s \in Requests \ {holds[r]} : bucket'[s] = bucket[s]
    BY <2>2
  <2> QED
    BY <1>4, <2>1, <2>3, <2>4 DEF Allow, MapOK, map, sweeper
<1>5. CASE SweepDeletes
  <2>1. \A c \in Clients : limiters'[c] # None =>
          /\ limiters'[c] = limiters[c] /\ lastSeen'[c] = lastSeen[c]
          /\ lastSeen[c] >= cutoff
    BY <1>5 DEF SweepDeletes, Idle, Sweeping
  <2>2. nextSweep' = nextSweep + SweepEvery /\ cutoff >= nextSweep - TTL
    BY <1>5 DEF SweepDeletes, SweepOK
  <2>3. \A c \in Clients : limiters'[c] # None =>
          lastSeen'[c] >= nextSweep' - SweepEvery - TTL
    BY <2>1, <2>2, <1>5 DEF SweepDeletes, Sweeping
  <2> QED
    BY <1>5, <2>1, <2>3 DEF SweepDeletes, MapOK, request
<1> QED
  BY <1>1, <1>2, <1>3, <1>4, <1>5
     DEF Next, SweepStarts, Tick, Finished, vars, map, sweeper, request

LEMMA HoldsNext ==
  ASSUME LimiterInv, [Next]_vars
  PROVE  HoldsOK'
<1> USE LimiterAssumption DEF LimiterInv, TypeOK, HoldsOK
<1>1. CASE UNCHANGED <<map, pc, request>>
  BY <1>1 DEF map, request
<1>2. ASSUME NEW r \in Requests, Exempt(r)
      PROVE  HoldsOK'
  BY <1>2 DEF Exempt, map
<1>3. ASSUME NEW r \in Requests, getLimiter(r)
      PROVE  HoldsOK'
  <2>1. PICK c \in Clients :
          /\ client' = [client EXCEPT ![r] = c]
          /\ lastSeen' = [lastSeen EXCEPT ![c] = now]
          /\ \/ limiters[c] = None /\ limiters' = [limiters EXCEPT ![c] = r]
             \/ limiters[c] # None /\ UNCHANGED limiters
          /\ holds' = [holds EXCEPT ![r] = limiters'[c]]
    BY <1>3 DEF getLimiter
  <2>2. /\ pc' = [pc EXCEPT ![r] = "allow"] /\ since' = [since EXCEPT ![r] = now]
    BY <1>3 DEF getLimiter
  <2>3. ASSUME NEW s \in Requests \ {r}, pc'[s] = "allow"
        PROVE  /\ limiters'[client'[s]] # None
               /\ holds'[s] = limiters'[client'[s]]
               /\ since'[s] <= lastSeen'[client'[s]]
    BY <2>1, <2>2, <2>3 DEF TimesOK
  <2>4. /\ limiters'[client'[r]] # None
        /\ holds'[r] = limiters'[client'[r]]
        /\ since'[r] <= lastSeen'[client'[r]]
    BY <2>1, <2>2
  <2> QED
    BY <2>3, <2>4
<1>4. ASSUME NEW r \in Requests, Allow(r)
      PROVE  HoldsOK'
  BY <1>4 DEF Allow, map
<1>5. CASE SweepDeletes
  <2>1. \A r \in Requests : pc[r] = "allow" => ~Idle(client[r])
    BY <1>5, IdleIsFull DEF SweepDeletes
  <2> QED
    BY <1>5, <2>1 DEF SweepDeletes, request
<1> QED
  BY <1>1, <1>2, <1>3, <1>4, <1>5
     DEF Next, SweepStarts, Tick, Finished, vars, map, request
-----------------------------------------------------------------------------
(* What is left, and what was given *)

LEMMA LeftRange ==
  ASSUME LimiterInv, NEW c \in Clients
  PROVE  Left(c) \in 0 .. Burst
<1> USE LimiterAssumption DEF LimiterInv, TypeOK
<1>1. CASE limiters[c] = None
  BY <1>1 DEF Left
<1>2. CASE limiters[c] # None
  <2>1. /\ limiters[c] \in Requests
        /\ bucket[limiters[c]].tokens \in 0 .. Burst
        /\ bucket[limiters[c]].last \in 0 .. now
    BY <1>2 DEF TimesOK
  <2> QED
    BY <1>2, <2>1 DEF Left, Refilled
<1> QED
  BY <1>1, <1>2

\* Neither a new bucket nor the sweeper gives or takes anything.
LEMMA LeftStays ==
  ASSUME LimiterInv, NEW c \in Clients,
         \/ \E r \in Requests : Exempt(r) \/ getLimiter(r)
         \/ SweepStarts \/ SweepDeletes \/ UNCHANGED vars
  PROVE  Left(c)' = Left(c)
<1> USE LimiterAssumption DEF LimiterInv, TypeOK
<1>1. CASE UNCHANGED <<now, limiters, bucket>>
  BY <1>1 DEF Left, Refilled
<1>2. ASSUME NEW r \in Requests, getLimiter(r)
      PROVE  Left(c)' = Left(c)
  <2>1. CASE limiters'[c] # limiters[c]
    <3>1. limiters[c] = None /\ limiters'[c] = r /\ bucket'[r] = NewLimiter(now)
          /\ now' = now /\ r # None
      BY <1>2, <2>1 DEF getLimiter
    <3>2. bucket'[r].tokens = Burst /\ bucket'[r].last = now
      BY <3>1 DEF NewLimiter
    <3> QED
      BY <3>1, <3>2 DEF Left, Refilled
  <2>2. CASE limiters'[c] = limiters[c]
    <3>1. limiters[c] # None => limiters[c] # r
      BY <1>2 DEF getLimiter, MapOK
    <3>2. limiters[c] # None => bucket'[limiters[c]] = bucket[limiters[c]]
      BY <1>2, <3>1 DEF getLimiter
    <3>3. now' = now
      BY <1>2 DEF getLimiter
    <3> QED
      BY <2>2, <3>2, <3>3 DEF Left, Refilled
  <2> QED
    BY <2>1, <2>2
<1>3. CASE SweepDeletes
  <2>1. CASE Idle(c)
    <3>1. limiters'[c] = None /\ limiters[c] # None
      BY <1>3, <2>1 DEF SweepDeletes, Idle
    <3>2. Refilled(bucket[limiters[c]]) = Burst
      BY <1>3, <2>1, IdleIsFull DEF SweepDeletes
    <3> QED
      BY <3>1, <3>2 DEF Left
  <2>2. CASE ~Idle(c)
    <3>1. limiters'[c] = limiters[c] /\ UNCHANGED <<now, bucket>>
      BY <1>3, <2>2 DEF SweepDeletes
    <3> QED
      BY <3>1 DEF Left, Refilled
  <2> QED
    BY <2>1, <2>2
<1> QED
  BY <1>1, <1>2, <1>3 DEF Exempt, SweepStarts, map, vars

\* A tick gives a token to a client that has less than Burst.
LEMMA LeftTicks ==
  ASSUME LimiterInv, NEW c \in Clients, Tick
  PROVE  Left(c)' = IF Left(c) = Burst THEN Burst ELSE Left(c) + 1
<1> USE LimiterAssumption DEF LimiterInv, TypeOK
<1>1. now' = now + 1 /\ UNCHANGED <<limiters, bucket>>
  BY DEF Tick, map
<1>2. CASE limiters[c] = None
  BY <1>1, <1>2 DEF Left
<1>3. CASE limiters[c] # None
  <2>1. PICK t \in 0 .. Burst, l \in 0 .. now :
          t = bucket[limiters[c]].tokens /\ l = bucket[limiters[c]].last
    BY <1>3 DEF TimesOK
  <2>2. now \in Nat /\ Burst \in Nat
    OBVIOUS
  <2>3. Left(c) = IF t + (now - l) > Burst THEN Burst ELSE t + (now - l)
    BY <1>3, <2>1, <2>2 DEF Left, Refilled
  <2>4. limiters'[c] # None /\ now' \in Nat
        /\ t = bucket'[limiters'[c]].tokens /\ l = bucket'[limiters'[c]].last
    BY <1>1, <1>3, <2>1, <2>2
  <2>5. Left(c)' = IF t + (now' - l) > Burst THEN Burst ELSE t + (now' - l)
    BY <2>2, <2>4 DEF Left, Refilled
  <2> QED
    BY <1>1, <2>2, <2>3, <2>5
<1> QED
  BY <1>2, <1>3

\* Allow takes a token from the client of the request if there is one, and from
\* nobody else.
LEMMA LeftTaken ==
  ASSUME LimiterInv, NEW r \in Requests, Allow(r), NEW c \in Clients
  PROVE  /\ c # client[r] => Left(c)' = Left(c)
         /\ c = client[r] =>
              /\ reply'[r] = [code |-> IF Left(c) > 0 THEN "served" ELSE "429",
                              at |-> now]
              /\ Left(c)' = IF Left(c) > 0 THEN Left(c) - 1 ELSE Left(c)
<1> USE LimiterAssumption DEF LimiterInv, TypeOK
<1>1. /\ limiters[client[r]] # None /\ holds[r] = limiters[client[r]]
      /\ holds[r] \in Requests /\ UNCHANGED <<now, limiters>>
  BY DEF Allow, HoldsOK, map
<1>2. PICK x : x = Refilled(bucket[holds[r]])
  OBVIOUS
<1>3. /\ bucket' = [bucket EXCEPT ![holds[r]] =
             [tokens |-> IF x > 0 THEN x - 1 ELSE x, last |-> now]]
      /\ reply' = [reply EXCEPT ![r] =
             [code |-> IF x > 0 THEN "served" ELSE "429", at |-> now]]
  BY <1>2 DEF Allow
<1>4. Left(client[r]) = x /\ x \in 0 .. Burst
  BY <1>1, <1>2, LeftRange DEF Left
<1>5. CASE c # client[r]
  <2>1. limiters[c] # None => limiters[c] # holds[r]
    BY <1>1, <1>5 DEF MapOK
  <2>2. limiters[c] # None => bucket'[limiters[c]] = bucket[limiters[c]]
    BY <1>3, <2>1
  <2> QED
    BY <1>1, <1>5, <2>2 DEF Left, Refilled
<1>6. CASE c = client[r]
  <2>1. /\ bucket'[holds[r]].tokens = IF x > 0 THEN x - 1 ELSE x
        /\ bucket'[holds[r]].last = now
    BY <1>1, <1>3
  <2>2. Left(c)' = IF x > 0 THEN x - 1 ELSE x
    BY <1>1, <1>4, <1>6, <2>1 DEF Left, Refilled
  <2>3. reply'[r] = [code |-> IF x > 0 THEN "served" ELSE "429", at |-> now]
    BY <1>3
  <2> QED
    BY <1>4, <1>6, <2>2, <2>3
<1> QED
  BY <1>5, <1>6

LEMMA ServedFinite ==
  ASSUME NEW c, NEW a, NEW b
  PROVE  /\ IsFiniteSet(Served(c, a, b))
         /\ Cardinality(Served(c, a, b)) \in Nat
<1>1. Served(c, a, b) \subseteq Requests
  BY DEF Served
<1> QED
  BY <1>1, LimiterAssumption, FS_Subset, FS_CardinalityType

\* Only Allow answers requests.
LEMMA ServedStays ==
  ASSUME LimiterInv, [Next]_vars, \A r \in Requests : ~Allow(r),
         NEW c, NEW a, NEW b
  PROVE  Served(c, a, b)' = Served(c, a, b)
<1> USE DEF LimiterInv, TypeOK
<1>1. reply' = reply
  BY DEF Next, Exempt, getLimiter, SweepStarts, SweepDeletes, Tick, Finished, vars
<1>2. \A r \in Requests : reply[r].code = "served" => client'[r] = client[r]
  <2>1. CASE UNCHANGED client
    BY <2>1
  <2>2. ASSUME NEW r \in Requests, Exempt(r) \/ getLimiter(r)
        PROVE  \A s \in Requests : reply[s].code = "served" => client'[s] = client[s]
    BY <2>2 DEF Exempt, getLimiter, TimesOK
  <2> QED
    BY <2>1, <2>2
       DEF Next, SweepStarts, SweepDeletes, Tick, Finished, vars, request
<1> QED
  BY <1>1, <1>2 DEF Served

LEMMA ServedGrows ==
  ASSUME LimiterInv, NEW r \in Requests, Allow(r), NEW c \in Clients,
         NEW a \in Int, NEW b \in Int
  PROVE  /\ r \notin Served(c, a, b)
         /\ Served(c, a, b)' =
              IF c = client[r] /\ Left(c) > 0 /\ a <= now /\ now <= b
              THEN Served(c, a, b) \cup {r} ELSE Served(c, a, b)
<1> USE DEF LimiterInv, TypeOK
<1>1. r \notin Served(c, a, b)
  BY DEF Served, Allow, TimesOK
<1>2. client' = client /\ \A s \in Requests \ {r} : reply'[s] = reply[s]
  BY DEF Allow
<1>3. c = client[r] =>
        /\ reply'[r].at = now
        /\ reply'[r].code = "served" <=> Left(c) > 0
  <2>1. c = client[r] =>
          reply'[r] = [code |-> IF Left(c) > 0 THEN "served" ELSE "429", at |-> now]
    BY LeftTaken
  <2> QED
    BY <2>1
<1>4. now \in Int
  BY LimiterAssumption
<1>5. ASSUME NEW s
      PROVE  s \in Served(c, a, b)' <=>
               \/ s \in Served(c, a, b)
               \/ s = r /\ c = client[r] /\ Left(c) > 0 /\ a <= now /\ now <= b
  <2>1. CASE s = r
    BY <1>1, <1>2, <1>3, <1>4, <2>1 DEF Served
  <2>2. CASE s # r
    BY <1>2, <2>2 DEF Served
  <2> QED
    BY <2>1, <2>2
<1>6. CASE c = client[r] /\ Left(c) > 0 /\ a <= now /\ now <= b
  <2>1. \A s : s \in Served(c, a, b)' <=> s \in Served(c, a, b) \cup {r}
    BY <1>5, <1>6
  <2>2. Served(c, a, b)' = Served(c, a, b) \cup {r}
    BY <2>1
  <2> QED
    BY <1>1, <1>6, <2>2
<1>7. CASE ~(c = client[r] /\ Left(c) > 0 /\ a <= now /\ now <= b)
  <2>1. \A s : s \in Served(c, a, b)' <=> s \in Served(c, a, b)
    BY <1>5, <1>7
  <2>2. Served(c, a, b)' = Served(c, a, b)
    BY <2>1
  <2> QED
    BY <1>1, <1>7, <2>2
<1> QED
  BY <1>6, <1>7
-----------------------------------------------------------------------------
(* The budget *)

\* The two halves of the budget, with the tick and what is left named.
LEMMA BudgetMeans ==
  ASSUME NEW c, NEW t \in Nat, NEW l \in Int
  PROVE  /\ now = t /\ Left(c) = l =>
              /\ WithinBudget(c) <=> \A from \in 0 .. t :
                   Cardinality(Served(c, from, t)) <= Burst - l + (t - from)
              /\ BudgetUsed(c) <=> \E from \in 0 .. t :
                   Cardinality(Served(c, from, t)) >= Burst - l + (t - from)
         /\ now' = t /\ Left(c)' = l =>
              /\ WithinBudget(c)' <=> \A from \in 0 .. t :
                   Cardinality(Served(c, from, t)') <= Burst - l + (t - from)
              /\ BudgetUsed(c)' <=> \E from \in 0 .. t :
                   Cardinality(Served(c, from, t)') >= Burst - l + (t - from)
BY DEF WithinBudget, BudgetUsed, Served

LEMMA BudgetAfter ==
  ASSUME NEW c, NEW t \in Nat, NEW l \in Int, now' = t, Left(c)' = l,
         WithinBudget(c)', NEW from \in 0 .. t
  PROVE  Cardinality(Served(c, from, t)') <= Burst - l + (t - from)
BY BudgetMeans

LEMMA BudgetStep ==
  ASSUME NEW c, NEW t \in Nat, NEW l \in Int, now' = t, Left(c)' = l,
         \A from \in 0 .. t :
           Cardinality(Served(c, from, t)') <= Burst - l + (t - from),
         \E from \in 0 .. t :
           Cardinality(Served(c, from, t)') >= Burst - l + (t - from)
  PROVE  WithinBudget(c)' /\ BudgetUsed(c)'
BY BudgetMeans

LEMMA BudgetNext ==
  ASSUME LimiterInv, [Next]_vars, NEW c \in Clients
  PROVE  WithinBudget(c)' /\ BudgetUsed(c)'
<1> USE LimiterAssumption
<1>1. now \in Nat /\ Burst \in Nat
  BY DEF LimiterInv, TypeOK
<1>2. PICK t \in Nat, l \in 0 .. Burst : t = now /\ l = Left(c)
  BY <1>1, LeftRange
<1>3. /\ \A from \in 0 .. t :
           Cardinality(Served(c, from, t)) <= Burst - l + (t - from)
      /\ \E from \in 0 .. t :
           Cardinality(Served(c, from, t)) >= Burst - l + (t - from)
  <2>1. WithinBudget(c) /\ BudgetUsed(c)
    BY DEF LimiterInv
  <2> QED
    BY <1>1, <1>2, <2>1, BudgetMeans
<1>4. CASE \/ \E r \in Requests : Exempt(r) \/ getLimiter(r)
           \/ SweepStarts \/ SweepDeletes \/ UNCHANGED vars
  <2>1. now' = t
    BY <1>2, <1>4 DEF Exempt, getLimiter, SweepStarts, SweepDeletes, vars
  <2>2. Left(c)' = l
    BY <1>2, <1>4, LeftStays
  <2>3. \A r \in Requests : ~Allow(r)
    BY <1>4 DEF LimiterInv, TypeOK, TimesOK, Exempt, getLimiter, SweepStarts,
       SweepDeletes, vars, Allow, request
  <2>4. \A from \in 0 .. t : Served(c, from, t)' = Served(c, from, t)
    BY <2>3, ServedStays
  <2>5. /\ \A from \in 0 .. t :
             Cardinality(Served(c, from, t)') <= Burst - l + (t - from)
        /\ \E from \in 0 .. t :
             Cardinality(Served(c, from, t)') >= Burst - l + (t - from)
    BY <1>3, <2>4
  <2> QED
    BY <1>1, <2>1, <2>2, <2>5, BudgetMeans
<1>5. CASE Tick
  <2>1. PICK u \in Nat, m \in 0 .. Burst : /\ u = t + 1
                                           /\ m = IF l = Burst THEN Burst ELSE l + 1
    BY <1>1
  <2>2. now' = u /\ Left(c)' = m
    BY <1>2, <1>5, <2>1, LeftTicks DEF Tick
  <2>3. \A r \in Requests : ~Allow(r)
    BY <1>2, <1>5, <2>1, <2>2 DEF Allow
  <2>4. \A from \in 0 .. t : Served(c, from, u) = Served(c, from, t)
    BY <1>2, <2>1 DEF Served, LimiterInv, TypeOK, TimesOK
  <2>5. Served(c, u, u) = {}
    BY <1>2, <2>1 DEF Served, LimiterInv, TypeOK, TimesOK
  <2>6. \A from \in 0 .. u : Served(c, from, u)' = Served(c, from, u)
    BY <2>3, ServedStays
  <2>7. /\ \A from \in 0 .. t : Served(c, from, u)' = Served(c, from, t)
        /\ Cardinality(Served(c, u, u)') = 0
    BY <2>1, <2>4, <2>5, <2>6, FS_EmptySet
  <2>8. ASSUME NEW from \in 0 .. u
        PROVE  Cardinality(Served(c, from, u)') <= Burst - m + (u - from)
    <3>1. CASE from = u
      BY <2>7, <3>1
    <3>2. CASE from # u
      <4>1. from \in 0 .. t
        BY <2>1, <3>2
      <4>2. /\ Cardinality(Served(c, from, u)') = Cardinality(Served(c, from, t))
            /\ Cardinality(Served(c, from, t)) <= Burst - l + (t - from)
            /\ Cardinality(Served(c, from, t)) \in Nat
        BY <1>3, <2>7, <4>1, ServedFinite
      <4>3. Burst - l + (t - from) <= Burst - m + (u - from)
        BY <1>1, <2>1
      <4> QED
        BY <4>2, <4>3
    <3> QED
      BY <3>1, <3>2
  <2>9. \E from \in 0 .. u :
          Cardinality(Served(c, from, u)') >= Burst - m + (u - from)
    <3>1. CASE l = Burst
      BY <2>1, <2>7, <3>1
    <3>2. CASE l # Burst
      <4>1. PICK from \in 0 .. t :
              Cardinality(Served(c, from, t)) >= Burst - l + (t - from)
        BY <1>3
      <4>2. from \in 0 .. u /\ Burst - l + (t - from) = Burst - m + (u - from)
        BY <1>1, <2>1, <3>2
      <4> QED
        BY <2>7, <4>1, <4>2
    <3> QED
      BY <3>1, <3>2
  <2> QED
    BY <1>1, <2>2, <2>8, <2>9, BudgetMeans
<1>6. ASSUME NEW r \in Requests, Allow(r)
      PROVE  WithinBudget(c)' /\ BudgetUsed(c)'
  <2>1. now' = t
    BY <1>2, <1>6 DEF Allow
  <2>2. CASE c = client[r] /\ l > 0
    <3>1. Left(c)' = l - 1
      BY <1>2, <1>6, <2>2, LeftTaken
    <3>2. ASSUME NEW from \in 0 .. t
          PROVE  /\ Cardinality(Served(c, from, t)') =
                      Cardinality(Served(c, from, t)) + 1
                 /\ Cardinality(Served(c, from, t)) \in Nat
      <4>1. /\ r \notin Served(c, from, t)
            /\ Served(c, from, t)' = Served(c, from, t) \cup {r}
        BY <1>2, <1>6, <2>2, ServedGrows
      <4> QED
        BY <4>1, ServedFinite, FS_AddElement
    <3>3. PICK m \in Int : m = l - 1
      OBVIOUS
    <3>4. /\ \A from \in 0 .. t :
               Cardinality(Served(c, from, t)') <= Burst - m + (t - from)
          /\ \E from \in 0 .. t :
               Cardinality(Served(c, from, t)') >= Burst - m + (t - from)
      BY <1>1, <1>3, <3>2, <3>3
    <3> QED
      BY <2>1, <3>1, <3>3, <3>4, BudgetStep
  <2>3. CASE ~(c = client[r] /\ l > 0)
    <3>1. Left(c)' = l
      BY <1>2, <1>6, <2>3, LeftTaken
    <3>2. \A from \in 0 .. t : Served(c, from, t)' = Served(c, from, t)
      BY <1>2, <1>6, <2>3, ServedGrows
    <3>3. /\ \A from \in 0 .. t :
               Cardinality(Served(c, from, t)') <= Burst - l + (t - from)
          /\ \E from \in 0 .. t :
               Cardinality(Served(c, from, t)') >= Burst - l + (t - from)
      BY <1>3, <3>2
    <3> QED
      BY <1>1, <2>1, <3>1, <3>3, BudgetStep
  <2> QED
    BY <2>2, <2>3
<1> QED
  BY <1>4, <1>5, <1>6 DEF Next, Finished
-----------------------------------------------------------------------------
(* Theorems *)

LEMMA LimiterInit ==
  ASSUME Init
  PROVE  LimiterInv
<1> USE LimiterAssumption DEF Init
<1>1. /\ NewLimiter(0) \in [tokens : 0 .. Burst, last : 0 .. MaxTime]
      /\ NewLimiter(0).last = 0
  BY DEF NewLimiter
<1>2. TypeOK
  BY <1>1 DEF TypeOK, NoReply
<1>3. TimesOK
  BY <1>1 DEF TimesOK, NoReply
<1>4. SweepOK /\ MapOK /\ HoldsOK
  BY DEF SweepOK, MapOK, HoldsOK, Sweeping
<1>5. ASSUME NEW c \in Clients
      PROVE  WithinBudget(c) /\ BudgetUsed(c)
  <2>1. Left(c) = Burst /\ now = 0
    BY <1>5 DEF Left
  <2>2. Served(c, 0, 0) = {}
    BY DEF Served, NoReply
  <2>3. Cardinality(Served(c, 0, 0)) = 0
    BY <2>2, FS_EmptySet
  <2> QED
    BY <2>1, <2>3 DEF WithinBudget, BudgetUsed
<1> QED
  BY <1>2, <1>3, <1>4, <1>5 DEF LimiterInv

\* In every reachable state the sweeper has taken no bucket from a request, and
\* what every client was given and has left adds up to its budget.
THEOREM LimiterInductive == Spec => []LimiterInv
<1>1. Init => LimiterInv
  BY LimiterInit
<1>2. LimiterInv /\ [Next]_vars => LimiterInv'
  BY TypeNext, TimesNext, SweepNext, MapNext, HoldsNext, BudgetNext DEF LimiterInv
<1> QED
  BY <1>1, <1>2, PTL DEF Spec

\* Every bucket holds between nothing and Burst tokens, and the state is of its
\* type.
THEOREM LimiterTypeOKHolds == Spec => []TypeOK
<1>1. LimiterInv => TypeOK
  BY DEF LimiterInv
<1> QED
  BY <1>1, LimiterInductive, PTL

\* The map keeps no client for longer than TTL, a period and a stall.
THEOREM MapBoundedHolds == Spec => []MapBounded
<1>1. LimiterInv => MapBounded
  BY LimiterAssumption DEF LimiterInv, TypeOK, SweepOK, MapOK, MapBounded
<1> QED
  BY <1>1, LimiterInductive, PTL

LEMMA BudgetKeptNext ==
  ASSUME LimiterInv, BudgetKept, [Next]_vars
  PROVE  BudgetKept'
<1> USE LimiterAssumption
<1>1. now \in Nat /\ now' \in Nat
  BY TypeNext DEF LimiterInv, TypeOK
<1>2. ASSUME NEW c \in Clients, NEW a \in 0 .. now', NEW b \in 0 .. now', a <= b
      PROVE  Cardinality(Served(c, a, b)') <= Burst + (b - a)
  <2>1. CASE b = now'
    <3>1. WithinBudget(c)' /\ Left(c)' \in 0 .. Burst
      <4>1. Left(c)' \in 0 .. Burst
        BY TypeNext, TimesNext DEF TypeOK, TimesOK, Left, Refilled
      <4> QED
        BY <4>1, BudgetNext
    <3>2. PICK l \in 0 .. Burst : l = Left(c)'
      BY <3>1
    <3>3. Cardinality(Served(c, a, b)') <= Burst - l + (b - a)
      <4>1. b \in Nat /\ a \in 0 .. b /\ now' = b
        BY <1>1, <1>2, <2>1
      <4> QED
        BY <3>1, <3>2, <4>1, BudgetAfter
    <3>4. Cardinality(Served(c, a, b)') \in Nat
      <4>1. Served(c, a, b)' \subseteq Requests
        BY DEF Served
      <4> QED
        BY <4>1, FS_Subset, FS_CardinalityType
    <3> QED
      BY <1>1, <3>3, <3>4
  <2>2. CASE b # now'
    <3>1. now' = now \/ (Tick /\ now' = now + 1)
      BY DEF Next, Exempt, getLimiter, Allow, SweepStarts, SweepDeletes, Tick,
         Finished, vars
    <3>2. a \in 0 .. now /\ b \in 0 .. now
      BY <1>1, <1>2, <2>2, <3>1
    <3>3. Served(c, a, b)' = Served(c, a, b)
      <4>1. CASE \A r \in Requests : ~Allow(r)
        BY <4>1, ServedStays
      <4>2. ASSUME NEW r \in Requests, Allow(r)
            PROVE  Served(c, a, b)' = Served(c, a, b)
        <5>1. ~(now <= b)
          BY <1>1, <2>2, <3>2, <4>2 DEF Allow
        <5> QED
          BY <3>2, <4>2, <5>1, ServedGrows
      <4> QED
        BY <4>1, <4>2
    <3> QED
      BY <1>2, <3>2, <3>3 DEF BudgetKept
  <2> QED
    BY <2>1, <2>2
<1>3. \A c \in Clients, a \in 0 .. now', b \in 0 .. now' : a <= b =>
        Cardinality(Served(c, a, b)') <= Burst + (b - a)
  BY <1>2
<1> QED
  BY <1>3 DEF BudgetKept, Served

\* In no interval of any run does a client get more than Burst requests and one
\* per tick, whenever it is forgotten and comes back.
THEOREM BudgetKeptHolds == Spec => []BudgetKept
<1>1. Init => BudgetKept
  <2>1. ASSUME Init PROVE BudgetKept
    <3>1. LimiterInv /\ now = 0
      BY <2>1, LimiterInit DEF Init
    <3>2. \A c \in Clients : Cardinality(Served(c, 0, 0)) <= Burst
      <4>1. \A c \in Clients : Served(c, 0, 0) = {}
        BY <2>1 DEF Init, Served, NoReply
      <4> QED
        BY <4>1, FS_EmptySet, LimiterAssumption
    <3> QED
      BY <3>1, <3>2, LimiterAssumption DEF BudgetKept
  <2> QED
    BY <2>1
<1>2. LimiterInv /\ BudgetKept /\ [Next]_vars => BudgetKept'
  BY BudgetKeptNext
<1> QED
  BY <1>1, <1>2, LimiterInductive, PTL DEF Spec

\* The client of r had used up its budget when r was answered.
OverBudget(r) ==
  \E from \in 0 .. reply[r].at :
    Cardinality(Served(client[r], from, reply[r].at)) >= Burst + (reply[r].at - from)

LEMMA OverBudgetMeans ==
  ASSUME NEW r, NEW c, NEW t
  PROVE  /\ client[r] = c /\ reply[r].at = t =>
              (OverBudget(r) <=> \E from \in 0 .. t :
                 Cardinality(Served(c, from, t)) >= Burst + (t - from))
         /\ client'[r] = c /\ reply'[r].at = t =>
              (OverBudget(r)' <=> \E from \in 0 .. t :
                 Cardinality(Served(c, from, t)') >= Burst + (t - from))
BY DEF OverBudget, Served

LEMMA RefusedNext ==
  ASSUME LimiterInv, RefusedOverBudget, [Next]_vars
  PROVE  RefusedOverBudget'
<1> USE LimiterAssumption
<1>1. ASSUME NEW r \in Requests, reply'[r].code = "429"
      PROVE  OverBudget(r)'
  <2>1. CASE Allow(r)
    <3>1. PICK c \in Clients, t \in Nat : c = client[r] /\ t = now
      BY DEF LimiterInv, TypeOK
    <3>2. Left(c) \in 0 .. Burst /\ Left(c) <= 0
      <4>1. reply'[r] = [code |-> IF Left(c) > 0 THEN "served" ELSE "429", at |-> now]
        BY <2>1, <3>1, LeftTaken
      <4>2. ~(Left(c) > 0)
        BY <1>1, <4>1
      <4> QED
        BY <4>2, LeftRange
    <3>3. reply'[r].at = t /\ client'[r] = c
      <4>1. reply'[r] = [code |-> IF Left(c) > 0 THEN "served" ELSE "429", at |-> now]
        BY <2>1, <3>1, LeftTaken
      <4>2. reply'[r].at = now
        BY <4>1
      <4> QED
        BY <2>1, <3>1, <4>2 DEF Allow
    <3>4. PICK from \in 0 .. t :
            Cardinality(Served(c, from, t)) >= Burst - 0 + (t - from)
      <4>1. Left(c) = 0
        BY <3>2
      <4>2. BudgetUsed(c)
        BY DEF LimiterInv
      <4> QED
        BY <3>1, <4>1, <4>2 DEF BudgetUsed
    <3>5. Served(c, from, t)' = Served(c, from, t)
      BY <2>1, <3>1, <3>2, ServedGrows
    <3> QED
      BY <3>3, <3>4, <3>5, OverBudgetMeans
  <2>2. CASE ~Allow(r)
    <3>1. reply'[r] = reply[r]
      <4>1. ASSUME NEW s \in Requests, Allow(s), s # r
            PROVE  reply'[r] = reply[r]
        BY <4>1 DEF Allow, LimiterInv, TypeOK
      <4> QED
        BY <2>2, <4>1 DEF Next, Exempt, getLimiter, SweepStarts, SweepDeletes,
           Tick, Finished, vars
    <3>2. pc[r] = "done" /\ client'[r] = client[r]
      <4>1. pc[r] = "done"
        BY <1>1, <3>1 DEF LimiterInv, TimesOK
      <4> QED
        BY <4>1 DEF LimiterInv, TypeOK, Next, Exempt, getLimiter, Allow, SweepStarts,
           SweepDeletes, Tick, Finished, vars, request
    <3>3. PICK c \in Clients, t \in Nat : c = client[r] /\ t = reply[r].at
      BY DEF LimiterInv, TypeOK
    <3>4. PICK from \in 0 .. t :
            Cardinality(Served(c, from, t)) >= Burst + (t - from)
      <4>1. OverBudget(r)
        BY <1>1, <3>1 DEF RefusedOverBudget, OverBudget
      <4> QED
        BY <3>3, <4>1, OverBudgetMeans
    <3>5. Served(c, from, t) \subseteq Served(c, from, t)'
      <4>1. CASE \A s \in Requests : ~Allow(s)
        BY <4>1, ServedStays
      <4>2. ASSUME NEW s \in Requests, Allow(s)
            PROVE  Served(c, from, t) \subseteq Served(c, from, t)'
        BY <4>2, ServedGrows
      <4> QED
        BY <4>1, <4>2
    <3>6. Cardinality(Served(c, from, t)') >= Burst + (t - from)
      <4>1. Served(c, from, t)' \subseteq Requests
        BY DEF Served
      <4>2. PICK S, T : S = Served(c, from, t) /\ T = Served(c, from, t)'
        OBVIOUS
      <4>3. IsFiniteSet(T) /\ S \subseteq T
        BY <3>5, <4>1, <4>2, FS_Subset
      <4>4. Cardinality(S) <= Cardinality(T) /\ Cardinality(S) \in Nat
            /\ Cardinality(T) \in Nat
        BY <4>3, FS_Subset, FS_CardinalityType
      <4> QED
        BY <3>4, <4>2, <4>4
    <3> QED
      BY <3>1, <3>2, <3>3, <3>6, OverBudgetMeans
  <2> QED
    BY <2>1, <2>2
<1> QED
  BY <1>1 DEF RefusedOverBudget, OverBudget

\* Nobody is refused who has not used up its budget.
THEOREM RefusedOverBudgetHolds == Spec => []RefusedOverBudget
<1>1. Init => RefusedOverBudget
  BY DEF Init, NoReply, RefusedOverBudget
<1>2. LimiterInv /\ RefusedOverBudget /\ [Next]_vars => RefusedOverBudget'
  BY RefusedNext
<1> QED
  BY <1>1, <1>2, LimiterInductive, PTL DEF Spec
=============================================================================
