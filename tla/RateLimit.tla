----------------------------- MODULE RateLimit ------------------------------
(***************************************************************************)
(* The rate limiter in front of /assets/: a bucket of tokens for each      *)
(* client address, refilled by the time that has passed.  A request reads  *)
(* the clock first and takes the mutex later, so requests come to the      *)
(* bucket with times that are out of order.                                *)
(*                                                                         *)
(* Time is counted in ticks, Second of them to a second, and tokens in     *)
(* parts: Second parts are a token, a tick adds rps of them.  Rounding of  *)
(* float64 is left out.                                                    *)
(***************************************************************************)
EXTENDS Integers

CONSTANTS
  Requests, IPs,
  RPS, Burst,   \* RateLimitConfig
  Second,       \* ticks to a second
  MaxClock      \* bound on the time modelled

ASSUME RateLimitAssumption ==
  /\ RPS \in Int /\ Burst \in Int
  /\ Second \in Nat \ {0}
  /\ MaxClock \in Nat

VARIABLES
  clock,
  known,          \* addresses that have a bucket; no bucket is ever removed
  tokens, last,   \* the bucket of each address
  pc, ip, now,    \* of each request: "idle", or waiting for the mutex
  \* history, for each address:
  granted,        \* the time at which a request was last let through
  since, passed   \* an observer's count of the requests let through since a time

vars == <<clock, known, tokens, last, pc, ip, now, granted, since, passed>>
bucketVars == <<known, tokens, last>>
requestVars == <<pc, ip, now>>
historyVars == <<granted, since, passed>>

AtLeastOne(n) == IF n > 1 THEN n ELSE 1
rps   == AtLeastOne(RPS)
burst == AtLeastOne(Burst) * Second

TypeOK ==
  /\ clock \in Nat
  /\ known \subseteq IPs
  /\ tokens \in [IPs -> 0 .. burst]
  /\ last \in [IPs -> Nat]
  /\ pc \in [Requests -> {"idle", "lock"}]
  /\ ip \in [Requests -> IPs]
  /\ now \in [Requests -> Nat]
  /\ granted \in [IPs -> Nat]
  /\ since \in [IPs -> Nat]
  /\ passed \in [IPs -> Nat]

Init ==
  /\ clock = 0
  /\ known = {}
  /\ tokens = [i \in IPs |-> 0]
  /\ last = [i \in IPs |-> 0]
  /\ pc = [r \in Requests |-> "idle"]
  /\ ip \in [Requests -> IPs]
  /\ now = [r \in Requests |-> 0]
  /\ granted = [i \in IPs |-> 0]
  /\ since = [i \in IPs |-> 0]
  /\ passed = [i \in IPs |-> 0]

Tick ==
  /\ clock < MaxClock
  /\ clock' = clock + 1
  /\ UNCHANGED <<bucketVars, requestVars, historyVars>>

\* history: an observer starts counting; requests already on their way to the
\* bucket come with the time they read, so the count is for the time since then
Observe(i, from) ==
  /\ from <= clock
  /\ \A r \in Requests : (pc[r] = "lock" /\ ip[r] = i) => from <= now[r]
  /\ since' = [since EXCEPT ![i] = from]
  /\ passed' = [passed EXCEPT ![i] = 0]
  /\ UNCHANGED <<clock, bucketVars, requestVars, granted>>

-----------------------------------------------------------------------------
(* allow *)

ReadNow(r, i) ==
  /\ pc[r] = "idle"
  /\ pc' = [pc EXCEPT ![r] = "lock"]
  /\ ip' = [ip EXCEPT ![r] = i]
  /\ now' = [now EXCEPT ![r] = clock]
  /\ UNCHANGED <<clock, bucketVars, historyVars>>

\* mutant: whole seconds only
RefilledSeconds(i, t) ==
  IF t <= last[i] THEN tokens[i]
  ELSE IF tokens[i] + rps * Second * ((t - last[i]) \div Second) < burst
    THEN tokens[i] + rps * Second * ((t - last[i]) \div Second) ELSE burst

\* the tokens of i once the time before t has been added; a time read before
\* that of the last refill adds nothing
Refilled(i, t) ==
  IF t <= last[i] THEN tokens[i]
  ELSE IF tokens[i] + rps * (t - last[i]) < burst THEN tokens[i] + rps * (t - last[i])
  ELSE burst

\* mutant: the time of the refill is noted even if it is an earlier one
LatestAny(i, t) == t

Latest(i, t) == IF t > last[i] THEN t ELSE last[i]

Passes(r) ==
  /\ pc' = [pc EXCEPT ![r] = "idle"]
  /\ granted' = [granted EXCEPT ![ip[r]] = clock]
  /\ passed' = [passed EXCEPT ![ip[r]] = @ + 1]
  /\ UNCHANGED <<clock, ip, now, since>>

\* the first request of an address brings its bucket into being
AllowFirst(r) ==
  /\ pc[r] = "lock"
  /\ ip[r] \notin known
  /\ known' = known \cup {ip[r]}
  /\ tokens' = [tokens EXCEPT ![ip[r]] = burst - Second]
  /\ last' = [last EXCEPT ![ip[r]] = now[r]]
  /\ Passes(r)

Allow(r) ==
  /\ pc[r] = "lock"
  /\ ip[r] \in known
  /\ Refilled(ip[r], now[r]) >= Second
  /\ tokens' = [tokens EXCEPT ![ip[r]] = Refilled(ip[r], now[r]) - Second]
  /\ last' = [last EXCEPT ![ip[r]] = Latest(ip[r], now[r])]
  /\ UNCHANGED known
  /\ Passes(r)

\* answered 429
Refuse(r) ==
  /\ pc[r] = "lock"
  /\ ip[r] \in known
  /\ Refilled(ip[r], now[r]) < Second
  /\ tokens' = [tokens EXCEPT ![ip[r]] = Refilled(ip[r], now[r])]
  /\ last' = [last EXCEPT ![ip[r]] = Latest(ip[r], now[r])]
  /\ pc' = [pc EXCEPT ![r] = "idle"]
  /\ UNCHANGED <<clock, known, ip, now, historyVars>>

Next ==
  \/ Tick
  \/ \E i \in IPs, from \in 0 .. MaxClock : Observe(i, from)
  \/ \E r \in Requests :
       \/ \E i \in IPs : ReadNow(r, i)
       \/ AllowFirst(r) \/ Allow(r) \/ Refuse(r)

Spec == Init /\ [][Next]_vars

-----------------------------------------------------------------------------
\* RateBounded.  Whatever the order in which concurrent requests of an address come
\* to its bucket, and whenever counting starts, no more than Burst requests and
\* RPS for each second since are let through: a time that is out of order never
\* adds the same second twice (the elapsed > 0 of allow).
RateBounded ==
  \A i \in IPs : passed[i] * Second <= burst + rps * (clock - since[i])

\* NotRefusedAfterPause.  A client that has paused for 1/RPS of a second since a
\* request of its own was last let through is let through, however many requests
\* were refused in between: being refused costs nothing (allow refills before it
\* refuses, and takes no token).
NotRefusedAfterPause ==
  [][\A r \in Requests : Refuse(r) => rps * (now[r] - granted[ip[r]]) < Second]_vars

\* LimiterInv.  The inductive invariant: what was let through and what is left in
\* the bucket have come from the burst and the time between since and the last
\* refill, and the bucket holds at least what came in after the last grant.
LimiterInv ==
  /\ TypeOK
  /\ \A r \in Requests : pc[r] = "lock" => since[ip[r]] <= now[r] /\ now[r] <= clock
  /\ \A i \in IPs :
       /\ last[i] <= clock /\ granted[i] <= clock /\ since[i] <= clock
       /\ i \notin known => passed[i] = 0
       /\ passed[i] > 0 => since[i] <= last[i]
       /\ passed[i] > 0 => passed[i] * Second + tokens[i] <= burst + rps * (last[i] - since[i])
       /\ i \in known => tokens[i] = burst \/ tokens[i] >= rps * (last[i] - granted[i])
=============================================================================
