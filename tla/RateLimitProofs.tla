-------------------------- MODULE RateLimitProofs ---------------------------
(* Proofs about RateLimit: for any addresses, any rate and burst, and any      *)
(* number of concurrent requests.                                              *)
EXTENDS RateLimit, TLAPS

\* What NewRateLimitMiddleware makes of its configuration.
LEMMA Config ==
  /\ rps \in Nat \ {0} /\ burst \in Nat /\ Second \in Nat \ {0} /\ Second <= burst
<1>1. /\ AtLeastOne(RPS) \in Nat \ {0} /\ AtLeastOne(Burst) \in Nat \ {0}
      /\ Second \in Nat \ {0}
  BY RateLimitAssumption DEF AtLeastOne
<1>2. \A n \in Nat \ {0} : n * Second \in Nat /\ Second <= n * Second
  BY <1>1
<1>. QED
  BY <1>1, <1>2 DEF rps, burst

\* Time in parts of a token: what comes in between two times is a natural number,
\* and adds up.
LEMMA Parts ==
  /\ \A t, u \in Nat : t <= u => rps * (u - t) \in Nat
  /\ \A t, u, v \in Int : rps * (v - u) + rps * (u - t) = rps * (v - t)
  /\ \A t, u \in Int : t <= u => rps * t <= rps * u
  /\ \A t \in Int : rps * t \in Int
BY Config

\* The bucket after a refill: never more than the burst, never less than before,
\* and filled by the time between the two times at most.
LEMMA RefilledBounds ==
  ASSUME TypeOK, NEW i \in IPs, NEW t \in Nat
  PROVE  /\ Refilled(i, t) \in 0 .. burst
         /\ Latest(i, t) \in Nat /\ last[i] <= Latest(i, t) /\ t <= Latest(i, t)
         /\ Latest(i, t) = t \/ Latest(i, t) = last[i]
         /\ Refilled(i, t) <= tokens[i] + rps * (Latest(i, t) - last[i])
         /\ Refilled(i, t) = burst
              \/ Refilled(i, t) = tokens[i] + rps * (Latest(i, t) - last[i])
<1>1. /\ tokens[i] \in 0 .. burst /\ last[i] \in Nat /\ rps \in Nat /\ burst \in Nat
  BY Config DEF TypeOK
<1>2. rps * 0 = 0
  BY <1>1
<1>3. CASE t <= last[i]
  <2>1. Refilled(i, t) = tokens[i] /\ Latest(i, t) = last[i]
    BY <1>1, <1>3 DEF Refilled, Latest
  <2>2. rps * (Latest(i, t) - last[i]) = 0
    BY <1>1, <1>2, <2>1
  <2>. QED
    BY <1>1, <1>3, <2>1, <2>2
<1>4. CASE t > last[i]
  <2>. DEFINE d == rps * (t - last[i])
  <2>1. d \in Nat
    BY <1>1, <1>4, Parts
  <2>2. Latest(i, t) = t
    BY <1>1, <1>4 DEF Latest
  <2>3. Refilled(i, t) = IF tokens[i] + d < burst THEN tokens[i] + d ELSE burst
    BY <1>1, <1>4 DEF Refilled
  <2>4. d = rps * (Latest(i, t) - last[i])
    BY <2>2
  <2>. HIDE DEF d
  <2>5. /\ Refilled(i, t) \in 0 .. burst /\ Refilled(i, t) <= tokens[i] + d
        /\ Refilled(i, t) = burst \/ Refilled(i, t) = tokens[i] + d
    BY <1>1, <2>1, <2>3
  <2>. QED
    BY <1>1, <1>4, <2>2, <2>4, <2>5
<1>. QED
  BY <1>1, <1>3, <1>4

\* What the refill preserves: the account of the observer, and what has come in
\* since the last grant.  This is where an out-of-order time would do harm.
LEMMA RefilledAccount ==
  ASSUME LimiterInv, NEW i \in IPs, i \in known, NEW t \in Nat, since[i] <= t, t <= clock
  PROVE  /\ since[i] <= Latest(i, t) /\ Latest(i, t) <= clock
         /\ passed[i] * Second \in Nat /\ rps * (Latest(i, t) - since[i]) \in Nat
         /\ passed[i] > 0 =>
              passed[i] * Second + Refilled(i, t) <= burst + rps * (Latest(i, t) - since[i])
         /\ passed[i] * Second + Refilled(i, t) <= burst + rps * (Latest(i, t) - since[i])
         /\ Refilled(i, t) = burst \/ Refilled(i, t) >= rps * (Latest(i, t) - granted[i])
<1>. DEFINE l == Latest(i, t)
            f == Refilled(i, t)
            n == passed[i] * Second
<1>1. /\ f \in 0 .. burst /\ l \in Nat /\ last[i] <= l /\ t <= l /\ (l = t \/ l = last[i])
      /\ f <= tokens[i] + rps * (l - last[i])
      /\ f = burst \/ f = tokens[i] + rps * (l - last[i])
  BY RefilledBounds DEF LimiterInv
<1>2. /\ tokens[i] \in 0 .. burst /\ last[i] \in Nat /\ since[i] \in Nat
      /\ granted[i] \in Nat /\ passed[i] \in Nat /\ last[i] <= clock /\ clock \in Nat
      /\ rps \in Nat /\ burst \in Nat /\ Second \in Nat
  BY Config DEF LimiterInv, TypeOK
<1>3. n \in Nat /\ (passed[i] = 0 => n = 0)
  BY <1>2
<1>4. /\ passed[i] > 0 => n + tokens[i] <= burst + rps * (last[i] - since[i])
      /\ tokens[i] = burst \/ tokens[i] >= rps * (last[i] - granted[i])
  BY DEF LimiterInv
<1>5. since[i] <= l /\ l <= clock
  BY <1>1, <1>2
<1>. HIDE DEF l, f, n
<1>6. /\ rps * (l - since[i]) \in Nat /\ rps * (l - last[i]) \in Nat
      /\ rps * (last[i] - since[i]) \in Int /\ rps * (last[i] - granted[i]) \in Int
      /\ rps * (l - last[i]) + rps * (last[i] - since[i]) = rps * (l - since[i])
      /\ rps * (l - last[i]) + rps * (last[i] - granted[i]) = rps * (l - granted[i])
  <2>0. l \in Int /\ since[i] \in Int /\ last[i] \in Int /\ granted[i] \in Int
    BY <1>1, <1>2
  <2>1. rps * (l - since[i]) \in Nat /\ rps * (l - last[i]) \in Nat
    BY <1>1, <1>2, <1>5, Parts
  <2>2. rps * (last[i] - since[i]) \in Int /\ rps * (last[i] - granted[i]) \in Int
    BY <1>2, <2>0, Parts
  <2>3. rps * (l - last[i]) + rps * (last[i] - since[i]) = rps * (l - since[i])
    BY <2>0, Parts
  <2>4. rps * (l - last[i]) + rps * (last[i] - granted[i]) = rps * (l - granted[i])
    BY <2>0, Parts
  <2>. QED
    BY <2>1, <2>2, <2>3, <2>4
<1>7. n + f <= burst + rps * (l - since[i])
  <2>1. CASE passed[i] = 0
    BY <1>1, <1>2, <1>3, <1>6, <2>1
  <2>2. CASE passed[i] > 0
    BY <1>1, <1>2, <1>3, <1>4, <1>6, <2>2
  <2>. QED
    BY <1>2, <2>1, <2>2
<1>8. f = burst \/ f >= rps * (l - granted[i])
  BY <1>1, <1>2, <1>4, <1>6
<1>. QED
  BY <1>3, <1>5, <1>6, <1>7, <1>8 DEF l, f, n

\* Letting a request through keeps the invariant: it takes a token.
LEMMA AllowStep ==
  ASSUME LimiterInv, NEW r \in Requests, Allow(r)
  PROVE  LimiterInv'
<1>. DEFINE i == ip[r]
            l == Latest(i, now[r])
            f == Refilled(i, now[r])
<1>1. /\ i \in IPs /\ i \in known /\ now[r] \in Nat /\ since[i] <= now[r] /\ now[r] <= clock
      /\ clock \in Nat /\ Second \in Nat /\ burst \in Nat /\ rps \in Nat
  BY Config DEF LimiterInv, TypeOK, Allow
<1>2. /\ f >= Second
      /\ tokens' = [tokens EXCEPT ![i] = f - Second] /\ last' = [last EXCEPT ![i] = l]
      /\ pc' = [pc EXCEPT ![r] = "idle"] /\ granted' = [granted EXCEPT ![i] = clock]
      /\ passed' = [passed EXCEPT ![i] = passed[i] + 1]
      /\ UNCHANGED <<clock, known, ip, now, since>>
  BY DEF Allow, Passes
<1>3. /\ f \in 0 .. burst /\ l \in Nat
  BY <1>1, RefilledBounds DEF LimiterInv
<1>4. /\ since[i] <= l /\ l <= clock /\ passed[i] * Second \in Nat
      /\ rps * (l - since[i]) \in Nat
      /\ passed[i] * Second + f <= burst + rps * (l - since[i])
  BY <1>1, RefilledAccount
<1>. HIDE DEF l, f
<1>5. TypeOK'
  BY <1>1, <1>2, <1>3 DEF LimiterInv, TypeOK
<1>6. ASSUME NEW x \in Requests, pc'[x] = "lock"
      PROVE  since'[ip'[x]] <= now'[x] /\ now'[x] <= clock'
  BY <1>2, <1>6 DEF LimiterInv, TypeOK
<1>7. /\ last'[i] <= clock' /\ granted'[i] <= clock' /\ since'[i] <= clock'
      /\ i \in known' /\ since'[i] <= last'[i]
      /\ passed'[i] * Second + tokens'[i] <= burst + rps * (last'[i] - since'[i])
      /\ tokens'[i] >= rps * (last'[i] - granted'[i])
  <2>1. /\ last'[i] = l /\ granted'[i] = clock /\ passed'[i] = passed[i] + 1
        /\ tokens'[i] = f - Second /\ passed[i] \in Nat /\ since[i] \in Nat
    BY <1>1, <1>2 DEF LimiterInv, TypeOK
  <2>2. (passed[i] + 1) * Second = passed[i] * Second + Second
    BY <1>1, <2>1
  <2>3. rps * (l - clock) <= 0
    BY <1>1, <1>3, <1>4, Parts
  <2>4. rps * (l - clock) \in Int
    BY <1>1, <1>3
  <2>. QED
    BY <1>1, <1>2, <1>3, <1>4, <2>1, <2>2, <2>3, <2>4
<1>8. ASSUME NEW j \in IPs, j # i
      PROVE  /\ last'[j] = last[j] /\ granted'[j] = granted[j] /\ since'[j] = since[j]
             /\ tokens'[j] = tokens[j] /\ passed'[j] = passed[j] /\ clock' = clock
             /\ known' = known
  BY <1>2, <1>8 DEF LimiterInv, TypeOK
<1>. HIDE DEF i
<1>. QED
  BY <1>5, <1>6, <1>7, <1>8 DEF LimiterInv

\* Refusing a request keeps the invariant: the refill is kept, no token is taken.
LEMMA RefuseStep ==
  ASSUME LimiterInv, NEW r \in Requests, Refuse(r)
  PROVE  LimiterInv'
<1>. DEFINE i == ip[r]
            l == Latest(i, now[r])
            f == Refilled(i, now[r])
<1>1. /\ i \in IPs /\ i \in known /\ now[r] \in Nat /\ since[i] <= now[r] /\ now[r] <= clock
  BY DEF LimiterInv, TypeOK, Refuse
<1>2. /\ tokens' = [tokens EXCEPT ![i] = f] /\ last' = [last EXCEPT ![i] = l]
      /\ pc' = [pc EXCEPT ![r] = "idle"]
      /\ UNCHANGED <<clock, known, ip, now, granted, since, passed>>
  BY DEF Refuse, historyVars
<1>3. f \in 0 .. burst /\ l \in Nat
  BY <1>1, RefilledBounds DEF LimiterInv
<1>4. /\ since[i] <= l /\ l <= clock
      /\ passed[i] * Second + f <= burst + rps * (l - since[i])
      /\ f = burst \/ f >= rps * (l - granted[i])
  BY <1>1, RefilledAccount
<1>. HIDE DEF l, f
<1>5. TypeOK'
  BY <1>1, <1>2, <1>3 DEF LimiterInv, TypeOK
<1>6. ASSUME NEW x \in Requests, pc'[x] = "lock"
      PROVE  since'[ip'[x]] <= now'[x] /\ now'[x] <= clock'
  BY <1>2, <1>6 DEF LimiterInv, TypeOK
<1>7. last'[i] = l /\ tokens'[i] = f
  BY <1>1, <1>2 DEF LimiterInv, TypeOK
<1>8. ASSUME NEW j \in IPs, j # i
      PROVE  last'[j] = last[j] /\ tokens'[j] = tokens[j]
  BY <1>2, <1>8 DEF LimiterInv, TypeOK
<1>. HIDE DEF i
<1>. QED
  BY <1>1, <1>2, <1>4, <1>5, <1>6, <1>7, <1>8 DEF LimiterInv

\* The first request of an address keeps the invariant: its bucket is full but
\* for the token it takes.
LEMMA AllowFirstStep ==
  ASSUME LimiterInv, NEW r \in Requests, AllowFirst(r)
  PROVE  LimiterInv'
<1>. DEFINE i == ip[r]
            t == now[r]
<1>1. /\ i \in IPs /\ i \notin known /\ t \in Nat /\ since[i] <= t /\ t <= clock
      /\ clock \in Nat /\ Second \in Nat \ {0} /\ burst \in Nat /\ rps \in Nat
      /\ Second <= burst /\ since[i] \in Nat /\ passed[i] = 0
  BY Config DEF LimiterInv, TypeOK, AllowFirst
<1>2. /\ known' = known \cup {i}
      /\ tokens' = [tokens EXCEPT ![i] = burst - Second] /\ last' = [last EXCEPT ![i] = t]
      /\ pc' = [pc EXCEPT ![r] = "idle"] /\ granted' = [granted EXCEPT ![i] = clock]
      /\ passed' = [passed EXCEPT ![i] = passed[i] + 1]
      /\ UNCHANGED <<clock, ip, now, since>>
  BY DEF AllowFirst, Passes
<1>. HIDE DEF t
<1>3. TypeOK'
  BY <1>1, <1>2 DEF LimiterInv, TypeOK
<1>4. ASSUME NEW x \in Requests, pc'[x] = "lock"
      PROVE  since'[ip'[x]] <= now'[x] /\ now'[x] <= clock'
  BY <1>2, <1>4 DEF LimiterInv, TypeOK
<1>5. /\ last'[i] <= clock' /\ granted'[i] <= clock' /\ since'[i] <= clock'
      /\ i \in known' /\ since'[i] <= last'[i]
      /\ passed'[i] * Second + tokens'[i] <= burst + rps * (last'[i] - since'[i])
      /\ tokens'[i] >= rps * (last'[i] - granted'[i])
  <2>1. /\ last'[i] = t /\ granted'[i] = clock /\ passed'[i] = 1
        /\ tokens'[i] = burst - Second
    BY <1>1, <1>2 DEF LimiterInv, TypeOK
  <2>2. rps * (t - since[i]) \in Nat
    BY <1>1, Parts
  <2>3. rps * (t - clock) <= 0 /\ rps * (t - clock) \in Int
    BY <1>1, Parts
  <2>4. passed'[i] * Second = Second
    BY <1>1, <2>1
  <2>5. passed'[i] * Second + tokens'[i] = burst
    BY <1>1, <2>1, <2>4
  <2>6. last'[i] - since'[i] = t - since[i] /\ last'[i] - granted'[i] = t - clock
    BY <1>2, <2>1
  <2>7. burst <= burst + rps * (last'[i] - since'[i])
    BY <1>1, <2>2, <2>6
  <2>8. tokens'[i] >= rps * (last'[i] - granted'[i])
    BY <1>1, <2>1, <2>3, <2>6
  <2>. QED
    BY <1>1, <1>2, <2>1, <2>5, <2>7, <2>8
<1>6. ASSUME NEW j \in IPs, j # i
      PROVE  /\ last'[j] = last[j] /\ granted'[j] = granted[j] /\ since'[j] = since[j]
             /\ tokens'[j] = tokens[j] /\ passed'[j] = passed[j] /\ clock' = clock
             /\ j \in known' <=> j \in known
  BY <1>2, <1>6 DEF LimiterInv, TypeOK
<1>. HIDE DEF i
<1>. QED
  BY <1>3, <1>4, <1>5, <1>6 DEF LimiterInv

\* Every step keeps the invariant.
LEMMA NextInv ==
  ASSUME LimiterInv, [Next]_vars
  PROVE  LimiterInv'
<1>1. CASE Tick
  BY <1>1 DEF Tick, LimiterInv, TypeOK, bucketVars, requestVars, historyVars
<1>2. ASSUME NEW i \in IPs, NEW from \in 0 .. MaxClock, Observe(i, from)
      PROVE  LimiterInv'
  <2>1. TypeOK'
    BY <1>2 DEF Observe, LimiterInv, TypeOK, bucketVars, requestVars
  <2>. QED
    BY <1>2, <2>1 DEF Observe, LimiterInv, TypeOK, bucketVars, requestVars
<1>3. ASSUME NEW r \in Requests, NEW i \in IPs, ReadNow(r, i)
      PROVE  LimiterInv'
  <2>1. TypeOK'
    BY <1>3 DEF ReadNow, LimiterInv, TypeOK, bucketVars, historyVars
  <2>2. ASSUME NEW x \in Requests, pc'[x] = "lock"
        PROVE  since'[ip'[x]] <= now'[x] /\ now'[x] <= clock'
    BY <1>3, <2>2 DEF ReadNow, LimiterInv, TypeOK, bucketVars, historyVars
  <2>. QED
    BY <1>3, <2>1, <2>2 DEF ReadNow, LimiterInv, bucketVars, historyVars
<1>4. ASSUME NEW r \in Requests, AllowFirst(r) \/ Allow(r) \/ Refuse(r)
      PROVE  LimiterInv'
  BY <1>4, AllowFirstStep, AllowStep, RefuseStep
<1>5. CASE UNCHANGED vars
  BY <1>5 DEF vars, LimiterInv, TypeOK
<1>. QED
  BY <1>1, <1>2, <1>3, <1>4, <1>5 DEF Next

-----------------------------------------------------------------------------
\* The invariant holds in every reachable state.
THEOREM Invariance == Spec => []LimiterInv
<1>1. Init => LimiterInv
  <2>. SUFFICES ASSUME Init PROVE LimiterInv
    OBVIOUS
  <2>1. TypeOK
    BY Config DEF Init, TypeOK
  <2>. QED
    BY <2>1 DEF Init, LimiterInv
<1>2. LimiterInv /\ [Next]_vars => LimiterInv'
  BY NextInv
<1>. QED
  BY <1>1, <1>2, PTL DEF Spec

\* The types hold: no bucket overflows, and none is overdrawn.
THEOREM TypeCorrect == Spec => []TypeOK
<1>1. LimiterInv => TypeOK
  BY DEF LimiterInv
<1>. QED
  BY <1>1, Invariance, PTL

\* At most Burst and RPS a second are let through, in any interval and in any
\* order of concurrent requests.
THEOREM RateIsBounded == Spec => []RateBounded
<1>1. LimiterInv => RateBounded
  <2>. SUFFICES ASSUME LimiterInv, NEW i \in IPs
                PROVE  passed[i] * Second <= burst + rps * (clock - since[i])
    BY DEF RateBounded
  <2>1. /\ tokens[i] \in Nat /\ last[i] \in Nat /\ since[i] \in Nat /\ passed[i] \in Nat
        /\ clock \in Nat /\ last[i] <= clock /\ since[i] <= clock
        /\ rps \in Nat /\ burst \in Nat /\ Second \in Nat
        /\ passed[i] > 0 =>
             since[i] <= last[i]
             /\ passed[i] * Second + tokens[i] <= burst + rps * (last[i] - since[i])
    BY Config DEF LimiterInv, TypeOK
  <2>2. passed[i] * Second \in Nat /\ (passed[i] = 0 => passed[i] * Second = 0)
    BY <2>1
  <2>3. rps * (clock - since[i]) \in Nat
    BY <2>1, Parts
  <2>4. CASE passed[i] = 0
    BY <2>1, <2>2, <2>3, <2>4
  <2>5. CASE passed[i] > 0
    <3>1. last[i] - since[i] \in Int /\ clock - since[i] \in Int
          /\ last[i] - since[i] <= clock - since[i]
      BY <2>1
    <3>2. /\ rps * (last[i] - since[i]) <= rps * (clock - since[i])
          /\ rps * (last[i] - since[i]) \in Int
      BY <3>1, Parts
    <3>. QED
      BY <2>1, <2>2, <2>3, <2>5, <3>2
  <2>. QED
    BY <2>1, <2>4, <2>5
<1>. QED
  BY <1>1, Invariance, PTL

\* No one who has paused for 1/RPS of a second since their last success is refused.
THEOREM PauseIsEnough == Spec => NotRefusedAfterPause
<1>1. ASSUME LimiterInv, NEW r \in Requests, Refuse(r)
      PROVE  rps * (now[r] - granted[ip[r]]) < Second
  <2>. DEFINE i == ip[r]
              l == Latest(i, now[r])
              f == Refilled(i, now[r])
  <2>1. /\ i \in IPs /\ i \in known /\ now[r] \in Nat /\ since[i] <= now[r]
        /\ now[r] <= clock /\ f < Second
    BY <1>1 DEF LimiterInv, TypeOK, Refuse
  <2>2. f = burst \/ f >= rps * (l - granted[i])
    BY <1>1, <2>1, RefilledAccount
  <2>3. l \in Nat /\ now[r] <= l /\ f \in 0 .. burst /\ granted[i] \in Nat
    BY <1>1, <2>1, RefilledBounds DEF LimiterInv, TypeOK
  <2>. HIDE DEF i, l, f
  <2>4. /\ rps * (now[r] - granted[i]) <= rps * (l - granted[i])
        /\ rps * (now[r] - granted[i]) \in Int /\ rps * (l - granted[i]) \in Int
    <3>1. /\ now[r] - granted[i] \in Int /\ l - granted[i] \in Int
          /\ now[r] - granted[i] <= l - granted[i]
      BY <2>1, <2>3
    <3>. QED
      BY <3>1, Parts
  <2>5. rps * (now[r] - granted[i]) < Second
    BY <2>1, <2>2, <2>3, <2>4, Config
  <2>. QED
    BY <2>5 DEF i
<1>2. LimiterInv /\ [Next]_vars
        => [\A r \in Requests : Refuse(r) => rps * (now[r] - granted[ip[r]]) < Second]_vars
  BY <1>1
<1>. QED
  BY <1>2, Invariance, PTL DEF Spec, NotRefusedAfterPause
=============================================================================
