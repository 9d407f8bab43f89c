--------------------------- MODULE BackoffProofs ----------------------------
(* What the operators of Backoff compute, for every configuration and every  *)
(* number of failures, and that the entry of Retries keeps to the schedule.  *)
(*                                                                           *)
(* The loop of NextAttempt is a recursive function, so its closed form needs *)
(* induction.  NatSetInduction is the principle for sets of numbers, which   *)
(* follows from the least element that every set of numbers has.             *)
EXTENDS Retries, TLAPS, WellFoundedInduction

\* A set with 0, and with n + 1 for every n in it, has all natural numbers.
LEMMA NatSetInduction ==
  ASSUME NEW S, 0 \in S, \A n \in Nat : n \in S => n + 1 \in S
  PROVE  Nat \subseteq S
<1>. DEFINE T == Nat \ S
            R == OpToRel(<, Nat)
<1>1. IsWellFoundedOn(R, Nat)
  BY NatLessThanWellFounded, Zenon
<1>. SUFFICES ASSUME T # {} PROVE FALSE
  OBVIOUS
<1>2. T \subseteq Nat
  OBVIOUS
<1>3. \A x, y \in Nat : x < y => <<x, y>> \in R
  BY DEF OpToRel
<1>. HIDE DEF R
<1>4. PICK x \in T : \A y \in T : ~ (<<y, x>> \in R)
  <2>. HIDE DEF T
  <2>. QED
    BY <1>1, <1>2, WFMin
<1>5. x \in Nat /\ x # 0
  OBVIOUS
<1>6. x - 1 \in Nat /\ x - 1 < x /\ (x - 1) + 1 = x
  BY <1>5
<1>7. x - 1 \in S
  BY <1>3, <1>4, <1>5, <1>6
<1>. QED
  BY <1>4, <1>6, <1>7

\* g is the first n + 1 values of the sequence that begins with x and goes on
\* with G
Prefix(g, n, S, x, G) ==
  /\ g \in [0 .. n -> S]
  /\ g[0] = x
  /\ \A i \in 0 .. n - 1 : g[i + 1] = G[g[i]]

\* f is the whole of that sequence
Sequence(f, S, x, G) ==
  /\ f \in [Nat -> S]
  /\ f[0] = x
  /\ \A n \in Nat : f[n + 1] = G[f[n]]

\* Two prefixes of the same sequence agree as far as both go.
LEMMA PrefixesAgree ==
  ASSUME NEW S, NEW x \in S, NEW G \in [S -> S],
         NEW n \in Nat, NEW g, Prefix(g, n, S, x, G),
         NEW m \in Nat, NEW h, Prefix(h, m, S, x, G),
         NEW i \in Nat, i <= n, i <= m
  PROVE  g[i] = h[i]
<1>. DEFINE A == {j \in Nat : j <= n /\ j <= m => g[j] = h[j]}
<1>1. 0 \in A
  BY DEF Prefix
<1>2. ASSUME NEW j \in Nat, j \in A PROVE j + 1 \in A
  <2>. SUFFICES ASSUME j + 1 <= n, j + 1 <= m PROVE g[j + 1] = h[j + 1]
    OBVIOUS
  <2>1. g[j] = h[j] /\ j \in 0 .. n - 1 /\ j \in 0 .. m - 1
    BY <1>2
  <2>. QED
    BY <2>1 DEF Prefix
<1>3. Nat \subseteq A
  <2>. HIDE DEF A
  <2>. QED
    BY <1>1, <1>2, NatSetInduction
<1>. QED
  BY <1>3

\* The sequence that begins with x and goes on with G has a prefix of every
\* length.
LEMMA PrefixExists ==
  ASSUME NEW S, NEW x \in S, NEW G \in [S -> S], NEW n \in Nat
  PROVE  \E g : Prefix(g, n, S, x, G)
<1>. DEFINE A == {j \in Nat : \E g : Prefix(g, j, S, x, G)}
<1>1. 0 \in A
  <2>1. Prefix([i \in 0 .. 0 |-> x], 0, S, x, G)
    BY DEF Prefix
  <2>. QED
    BY <2>1
<1>2. ASSUME NEW j \in Nat, j \in A PROVE j + 1 \in A
  <2>1. PICK g : Prefix(g, j, S, x, G)
    BY <1>2
  <2>. DEFINE h == [i \in 0 .. j + 1 |-> IF i = j + 1 THEN G[g[j]] ELSE g[i]]
  <2>2. \A i \in 0 .. j : h[i] = g[i] /\ g[i] \in S
    BY <2>1 DEF Prefix
  <2>3. h[j + 1] = G[g[j]] /\ G[g[j]] \in S
    BY <2>2
  <2>4. h \in [0 .. j + 1 -> S]
    BY <2>2, <2>3
  <2>5. h[0] = x
    BY <2>1, <2>2 DEF Prefix
  <2>6. ASSUME NEW i \in 0 .. (j + 1) - 1 PROVE h[i + 1] = G[h[i]]
    <3>1. CASE i = j
      BY <2>2, <2>3, <3>1
    <3>2. CASE i # j
      <4>1. i \in 0 .. j - 1 /\ i + 1 \in 0 .. j /\ i \in 0 .. j
        BY <3>2
      <4>. HIDE DEF h
      <4>. QED
        BY <2>1, <2>2, <4>1 DEF Prefix
    <3>. QED
      BY <3>1, <3>2
  <2>7. Prefix(h, j + 1, S, x, G)
    <3>. HIDE DEF h
    <3>. QED
      BY <2>4, <2>5, <2>6 DEF Prefix
  <2>. QED
    BY <2>7
<1>3. Nat \subseteq A
  <2>. HIDE DEF A
  <2>. QED
    BY <1>1, <1>2, NatSetInduction
<1>. QED
  BY <1>3

\* The sequence itself exists: this is what allows a definition by recursion.
LEMMA SequenceExists ==
  ASSUME NEW S, NEW x \in S, NEW G \in [S -> S]
  PROVE  \E f : Sequence(f, S, x, G)
<1>. DEFINE g(n) == CHOOSE h : Prefix(h, n, S, x, G)
            f == [n \in Nat |-> g(n)[n]]
<1>1. ASSUME NEW n \in Nat PROVE Prefix(g(n), n, S, x, G)
  BY PrefixExists
<1>. HIDE DEF g
<1>2. f \in [Nat -> S]
  <2>1. ASSUME NEW n \in Nat PROVE g(n)[n] \in S
    BY <1>1 DEF Prefix
  <2>. QED
    BY <2>1
<1>3. f[0] = x
  BY <1>1 DEF Prefix
<1>4. ASSUME NEW n \in Nat PROVE f[n + 1] = G[f[n]]
  <2>1. g(n + 1)[n] = g(n)[n]
    <3>1. n + 1 \in Nat /\ n <= n + 1 /\ n <= n
      OBVIOUS
    <3>. QED
      BY <1>1, <3>1, PrefixesAgree
  <2>2. g(n + 1)[n + 1] = G[g(n + 1)[n]]
    <3>1. n + 1 \in Nat /\ n \in 0 .. (n + 1) - 1
      OBVIOUS
    <3>. QED
      BY <1>1, <3>1 DEF Prefix
  <2>. QED
    BY <2>1, <2>2
<1>5. Sequence(f, S, x, G)
  <2>. HIDE DEF f
  <2>. QED
    BY <1>2, <1>3, <1>4 DEF Sequence
<1>. QED
  BY <1>5

-----------------------------------------------------------------------------
\* The recursive definition of the powers of two defines them.
LEMMA Power2Def ==
  /\ Power2 \in [Nat -> Nat \ {0}]
  /\ Power2[0] = 1
  /\ \A n \in Nat : Power2[n + 1] = 2 * Power2[n]
<1>. DEFINE Recursion(p) == p = [n \in Nat |-> IF n = 0 THEN 1 ELSE 2 * p[n - 1]]
            G == [d \in Nat \ {0} |-> 2 * d]
<1>1. PICK f : Sequence(f, Nat \ {0}, 1, G)
  <2>. DEFINE Positive == Nat \ {0}
  <2>1. 1 \in Positive /\ G \in [Positive -> Positive]
    OBVIOUS
  <2>2. \E f : Sequence(f, Positive, 1, G)
    <3>. HIDE DEF G, Positive
    <3>. QED
      BY <2>1, SequenceExists, Zenon
  <2>. QED
    BY <2>2
<1>2. Recursion(f)
  <2>1. ASSUME NEW n \in Nat PROVE f[n] = IF n = 0 THEN 1 ELSE 2 * f[n - 1]
    <3>1. CASE n # 0
      <4>1. n - 1 \in Nat /\ (n - 1) + 1 = n
        BY <3>1
      <4>. QED
        BY <1>1, <3>1, <4>1 DEF Sequence
    <3>. QED
      BY <1>1, <3>1 DEF Sequence
  <2>. QED
    BY <1>1, <2>1 DEF Sequence
<1>3. Recursion(Power2)
  <2>1. Power2 = CHOOSE p : Recursion(p)
    BY DEF Power2
  <2>. HIDE DEF Recursion
  <2>. QED
    BY <1>2, <2>1
<1>4. Power2[0] = 1
  BY <1>3
<1>5. ASSUME NEW n \in Nat PROVE Power2[n + 1] = 2 * Power2[n]
  <2>1. n + 1 \in Nat /\ n + 1 # 0 /\ (n + 1) - 1 = n
    OBVIOUS
  <2>. QED
    BY <1>3, <2>1
<1>6. ASSUME NEW n \in Nat PROVE Power2[n] \in Nat \ {0}
  <2>. DEFINE A == {j \in Nat : Power2[j] \in Nat \ {0}}
  <2>1. 0 \in A
    BY <1>4
  <2>2. ASSUME NEW j \in Nat, j \in A PROVE j + 1 \in A
    BY <1>5, <2>2
  <2>3. Nat \subseteq A
    <3>. HIDE DEF A
    <3>. QED
      BY <2>1, <2>2, NatSetInduction
  <2>. QED
    BY <2>3
<1>7. Power2 = [n \in Nat |-> Power2[n]]
  BY <1>3
<1>. QED
  BY <1>4, <1>5, <1>6, <1>7

\* The delay after n doublings, in closed form: the loop of NextAttempt stops
\* doubling at the maximum and nowhere else, also when base is above it.
LEMMA DelaysClosed ==
  ASSUME NEW c \in BackoffConfigs, NEW n \in Nat
  PROVE  Delays(c)[n] = IF n = 0 THEN c.base ELSE AtMost(c.base * Power2[n], c.max)
<1>. DEFINE Recursion(d) ==
              d = [i \in Nat |-> IF i = 0 THEN c.base
                                 ELSE IF d[i - 1] >= c.max THEN c.max
                                 ELSE AtMost(2 * d[i - 1], c.max)]
            D(i) == IF i = 0 THEN c.base ELSE AtMost(c.base * Power2[i], c.max)
            f == [i \in Nat |-> D(i)]
<1>1. c.base \in Nat \ {0} /\ c.max \in Nat \ {0}
  BY DEF BackoffConfigs
<1>2. ASSUME NEW i \in Nat
      PROVE  D(i + 1) = IF D(i) >= c.max THEN c.max ELSE AtMost(2 * D(i), c.max)
  <2>1. Power2[i] \in Nat \ {0} /\ Power2[i + 1] = 2 * Power2[i] /\ Power2[0] = 1
    BY Power2Def
  <2>. DEFINE b == c.base * Power2[i]
  <2>2. c.base * Power2[i + 1] = 2 * b /\ b \in Nat \ {0}
    BY <1>1, <2>1
  <2>3. i = 0 => b = c.base
    BY <1>1, <2>1
  <2>. HIDE DEF b
  <2>4. D(i + 1) = AtMost(2 * b, c.max)
    BY <2>2
  <2>5. CASE i = 0
    BY <1>1, <2>2, <2>3, <2>4, <2>5 DEF AtMost
  <2>6. CASE i # 0
    <3>1. D(i) = AtMost(b, c.max)
      BY <2>6 DEF b
    <3>. QED
      BY <1>1, <2>2, <2>4, <3>1 DEF AtMost
  <2>. QED
    BY <2>5, <2>6
<1>3. \E d : Recursion(d)
  <2>1. ASSUME NEW i \in Nat
        PROVE  f[i] = IF i = 0 THEN c.base
                      ELSE IF f[i - 1] >= c.max THEN c.max
                      ELSE AtMost(2 * f[i - 1], c.max)
    <3>1. CASE i # 0
      <4>1. i - 1 \in Nat /\ (i - 1) + 1 = i
        BY <3>1
      <4>2. D(i) = IF D(i - 1) >= c.max THEN c.max ELSE AtMost(2 * D(i - 1), c.max)
        <5>. HIDE DEF D
        <5>. QED
          BY <1>2, <4>1
      <4>3. f[i] = D(i) /\ f[i - 1] = D(i - 1)
        BY <4>1
      <4>. HIDE DEF D, f
      <4>. QED
        BY <3>1, <4>2, <4>3
    <3>. QED
      BY <3>1
  <2>2. Recursion(f)
    BY <2>1
  <2>. QED
    BY <2>2
<1>4. Recursion(Delays(c))
  <2>1. Delays(c) = CHOOSE d : Recursion(d)
    BY DEF Delays
  <2>. HIDE DEF Recursion
  <2>. QED
    BY <1>3, <2>1
<1>. DEFINE A == {j \in Nat : Delays(c)[j] = D(j)}
<1>5. 0 \in A
  BY <1>4
<1>6. ASSUME NEW j \in Nat, j \in A PROVE j + 1 \in A
  <2>1. j + 1 \in Nat /\ j + 1 # 0 /\ (j + 1) - 1 = j
    OBVIOUS
  <2>2. Delays(c)[j + 1] = IF Delays(c)[j] >= c.max THEN c.max
                           ELSE AtMost(2 * Delays(c)[j], c.max)
    BY <1>4, <2>1
  <2>3. Delays(c)[j] = D(j)
    BY <1>6
  <2>. HIDE DEF D
  <2>. QED
    BY <1>2, <2>1, <2>2, <2>3
<1>7. Nat \subseteq A
  <2>. HIDE DEF A
  <2>. QED
    BY <1>5, <1>6, NatSetInduction
<1>. QED
  BY <1>7

\* The wait without jitter is a positive time, at most the maximum.
LEMMA LeastDelayType ==
  ASSUME NEW c \in BackoffConfigs, NEW n \in Nat \ {0}
  PROVE  LeastDelay(c, n) \in Nat \ {0} /\ LeastDelay(c, n) <= c.max
<1>1. c.base \in Nat \ {0} /\ c.max \in Nat \ {0} /\ Power2[n - 1] \in Nat \ {0}
  BY Power2Def DEF BackoffConfigs
<1>2. c.base * Power2[n - 1] \in Nat \ {0}
  BY <1>1
<1>. QED
  BY <1>1, <1>2 DEF LeastDelay, AtMost

\* More failures in a row never make the wait without jitter shorter.
LEMMA LeastDelayGrows ==
  ASSUME NEW c \in BackoffConfigs, NEW n \in Nat \ {0}
  PROVE  LeastDelay(c, n) <= LeastDelay(c, n + 1)
<1>1. c.base \in Nat \ {0} /\ c.max \in Nat \ {0}
  BY DEF BackoffConfigs
<1>2. n - 1 \in Nat /\ (n + 1) - 1 = (n - 1) + 1
  OBVIOUS
<1>3. Power2[n - 1] \in Nat \ {0} /\ Power2[(n + 1) - 1] = 2 * Power2[n - 1]
  BY <1>2, Power2Def
<1>. DEFINE b == c.base * Power2[n - 1]
<1>4. b \in Nat /\ c.base * Power2[(n + 1) - 1] = 2 * b
  BY <1>1, <1>3
<1>5. LeastDelay(c, n) = AtMost(b, c.max) /\ LeastDelay(c, n + 1) = AtMost(2 * b, c.max)
  BY <1>4 DEF LeastDelay
<1>. HIDE DEF b
<1>. QED
  BY <1>1, <1>4, <1>5 DEF AtMost

\* What the loop of NextAttempt leaves in delay: the wait without jitter, or a
\* base above the maximum.
LEMMA DoubledClosed ==
  ASSUME NEW c \in BackoffConfigs, NEW n \in Nat \ {0}
  PROVE  /\ Doubled(c, n) \in Nat \ {0}
         /\ \/ Doubled(c, n) = LeastDelay(c, n)
            \/ Doubled(c, n) >= c.max /\ LeastDelay(c, n) = c.max
<1>1. c.base \in Nat \ {0} /\ c.max \in Nat \ {0}
  BY DEF BackoffConfigs
<1>2. Doubled(c, n) = Delays(c)[n - 1] /\ n - 1 \in Nat
  BY DEF Doubled
<1>3. LeastDelay(c, n) \in Nat \ {0}
  BY LeastDelayType
<1>4. CASE n = 1
  <2>1. Delays(c)[0] = c.base
    BY DelaysClosed
  <2>2. c.base * Power2[0] = c.base
    BY <1>1, Power2Def
  <2>3. LeastDelay(c, n) = AtMost(c.base, c.max)
    BY <1>4, <2>2 DEF LeastDelay
  <2>. QED
    BY <1>1, <1>2, <1>4, <2>1, <2>3 DEF AtMost
<1>5. CASE n # 1
  <2>1. Delays(c)[n - 1] = AtMost(c.base * Power2[n - 1], c.max)
    BY <1>2, <1>5, DelaysClosed
  <2>. QED
    BY <1>2, <1>3, <2>1 DEF LeastDelay
<1>. QED
  BY <1>4, <1>5

\* The time NextAttempt returns: at least the wait without jitter away, at most
\* a quarter more, and never more than the maximum.
LEMMA NextAttemptBounds ==
  ASSUME NEW c \in BackoffConfigs, NEW t \in Nat, NEW n \in Nat \ {0},
         NEW u \in NextAttempt(c, t, n)
  PROVE  /\ u \in Nat
         /\ t + LeastDelay(c, n) <= u
         /\ u <= t + AtMost((5 * LeastDelay(c, n)) \div 4, c.max)
         /\ u <= t + c.max
<1>. DEFINE d == Doubled(c, n)
            due == LeastDelay(c, n)
<1>1. c.max \in Nat \ {0}
  BY DEF BackoffConfigs
<1>2. d \in Nat \ {0} /\ (d = due \/ (d >= c.max /\ due = c.max))
  BY DoubledClosed
<1>3. due \in Nat \ {0} /\ due <= c.max
  BY LeastDelayType
<1>4. PICK extra \in 0 .. (d \div 4) : u = t + AtMost(d + extra, c.max)
  BY DEF NextAttempt
<1>. HIDE DEF d, due
<1>5. u \in Nat /\ t + due <= u /\ u <= t + c.max
  BY <1>1, <1>2, <1>3, <1>4 DEF AtMost
<1>6. u <= t + AtMost((5 * due) \div 4, c.max)
  <2>1. CASE d = due
    <3>1. d + extra <= (5 * due) \div 4
      BY <1>3, <1>4, <2>1
    <3>. QED
      BY <1>1, <1>2, <1>3, <1>4, <3>1 DEF AtMost
  <2>2. CASE d >= c.max /\ due = c.max
    <3>1. (5 * due) \div 4 >= c.max
      BY <1>1, <2>2
    <3>. QED
      BY <1>1, <1>2, <1>3, <1>4, <1>5, <2>2, <3>1 DEF AtMost
  <2>. QED
    BY <1>2, <2>1, <2>2
<1>. QED
  BY <1>5, <1>6 DEF due

-----------------------------------------------------------------------------
\* Whatever Record leaves is an entry that keeps to the schedule of its class,
\* with the failures in a row counted through permanent and transient ones.
LEMMA RecordSchedule ==
  ASSUME NEW c \in BackoffConfigs, NEW e0 \in Entries, NEW class \in Classes,
         NEW t \in Nat, NEW e \in Record(c, e0, class, t)
  PROVE  /\ e \in Entries
         /\ e.failCount = IF class \in Counted THEN e0.failCount + 1 ELSE 0
         /\ class = "ok" => e = NoEntry
         /\ class = "rejected" => e.next = t + c.rejected
         /\ class = "unauthorized" => e.next = t + c.unauthorized
         /\ class = "permanent" => e.next = t + c.max
         /\ class = "transient" =>
              /\ t + LeastDelay(c, e.failCount) <= e.next
              /\ e.next <= t + AtMost((5 * LeastDelay(c, e.failCount)) \div 4, c.max)
              /\ e.next <= t + c.max
<1>1. /\ c.max \in Nat /\ c.rejected \in Nat /\ c.unauthorized \in Nat
      /\ e0.failCount \in Nat
  BY DEF BackoffConfigs, Entries
<1>2. CASE class = "ok"
  BY <1>2 DEF Record, NoEntry, Entries, Counted
<1>3. CASE class = "rejected"
  BY <1>1, <1>3 DEF Record, Entries, Counted
<1>4. CASE class = "unauthorized"
  BY <1>1, <1>4 DEF Record, Entries, Counted
<1>5. CASE class = "permanent"
  BY <1>1, <1>5 DEF Record, Entries, Counted
<1>6. CASE class = "transient"
  <2>1. PICK u \in NextAttempt(c, t, e0.failCount + 1) :
          e = [failCount |-> e0.failCount + 1, next |-> u]
    BY <1>6 DEF Record
  <2>2. e0.failCount + 1 \in Nat \ {0}
    BY <1>1
  <2>3. /\ u \in Nat
        /\ t + LeastDelay(c, e0.failCount + 1) <= u
        /\ u <= t + AtMost((5 * LeastDelay(c, e0.failCount + 1)) \div 4, c.max)
        /\ u <= t + c.max
    BY <2>2, NextAttemptBounds
  <2>4. e.failCount = e0.failCount + 1 /\ e.next = u /\ e \in Entries
    BY <2>1, <2>2, <2>3 DEF Entries
  <2>. QED
    BY <1>6, <2>3, <2>4 DEF Counted
<1>. QED
  BY <1>2, <1>3, <1>4, <1>5, <1>6 DEF Classes

\* ClassifyError knows every error that Announce can return, and an error of
\* Announce follows from the status alone (statusError).
LEMMA ErrorClasses ==
  /\ \A err \in Errors : ClassifyError(err) \in Classes
  /\ \A status \in Nat : AnnounceError(status) \in Errors
<1>1. \A err \in Errors : ClassifyError(err) \in Classes
  BY DEF Errors, ClassifyError, Classes
<1>2. ASSUME NEW status \in Nat PROVE AnnounceError(status) \in Errors
  BY DEF Errors, AnnounceError, statusError
<1>. QED
  BY <1>1, <1>2

\* One outcome keeps the entry's count and its schedule (Record).
LEMMA RecordOutcomeStep ==
  ASSUME RetryInv, NEW err \in Errors, NEW t \in Nat, RecordOutcome(err, t)
  PROVE  RetryInv' /\ cfg' = cfg /\ recorded' = t
<1>. DEFINE class == ClassifyError(err)
<1>1. class \in Classes
  BY ErrorClasses
<1>2. cfg \in BackoffConfigs /\ entry \in Entries /\ streak \in Nat
  BY RetriesAssumption DEF RetryInv
<1>3. /\ cfg' = cfg /\ last' = err /\ recorded' = t
      /\ entry' \in Record(cfg, entry, class, t)
      /\ streak' = IF class \in Counted THEN streak + 1 ELSE 0
  BY DEF RecordOutcome
<1>. HIDE DEF class
<1>4. /\ entry' \in Entries
      /\ entry'.failCount =
           IF class \in Counted THEN entry.failCount + 1 ELSE 0
      /\ class = "ok" => entry' = NoEntry
      /\ class = "rejected" => entry'.next = t + cfg.rejected
      /\ class = "unauthorized" => entry'.next = t + cfg.unauthorized
      /\ class = "permanent" => entry'.next = t + cfg.max
      /\ class = "transient" =>
           /\ t + LeastDelay(cfg, entry'.failCount) <= entry'.next
           /\ entry'.next <=
                t + AtMost((5 * LeastDelay(cfg, entry'.failCount)) \div 4, cfg.max)
  BY <1>1, <1>2, <1>3, RecordSchedule
<1>5. entry'.failCount = streak' /\ streak' \in Nat
  BY <1>2, <1>3, <1>4 DEF RetryInv
<1>6. ClassifyError(last)' \in Counted <=> streak' > 0
  BY <1>2, <1>3 DEF class, Counted
<1>7. BackoffSchedule'
  <2>1. ClassifyError(last') = class
    BY <1>3 DEF class
  <2>. QED
    BY <1>3, <1>4, <1>5, <2>1 DEF BackoffSchedule, ClassifyError, Errors
<1>. QED
  BY <1>3, <1>4, <1>5, <1>6, <1>7 DEF RetryInv

\* RetryInv is inductive: the schedule survives every outcome, in any order and
\* with any times (BackoffState.Record).
THEOREM RetryInvariance == RetrySpec => []RetryInv
<1>1. RetryInit => RetryInv
  BY DEF RetryInit, RetryInv, NoEntry, Entries, Errors, ClassifyError, BackoffSchedule,
     Counted
<1>2. RetryInv /\ [RetryNext]_retryVars => RetryInv'
  <2>. SUFFICES ASSUME RetryInv, [RetryNext]_retryVars PROVE RetryInv'
    OBVIOUS
  <2>1. CASE RetryNext
    <3>1. PICK t \in Times : \/ \E status \in Replies : RecordOutcome(AnnounceError(status), t)
                             \/ RecordOutcome("other", t)
      BY <2>1 DEF RetryNext
    <3>2. "other" \in Errors /\ t \in Nat
      BY RetriesAssumption DEF Errors
    <3>3. \A status \in Replies : AnnounceError(status) \in Errors
      BY RetriesAssumption, ErrorClasses
    <3>. QED
      BY <3>1, <3>2, <3>3, RecordOutcomeStep
  <2>2. CASE UNCHANGED retryVars
    BY <2>2 DEF retryVars, RetryInv, BackoffSchedule, ClassifyError, LeastDelay
  <2>. QED
    BY <2>1, <2>2
<1>. QED
  BY <1>1, <1>2, PTL DEF RetrySpec

\* BackoffSchedule: for every configuration and any number of failures, the loop
\* of NextAttempt, its jitter and its clamp give the closed form of the schedule.
THEOREM ScheduleKept == RetrySpec => []BackoffSchedule
<1>1. RetryInv => BackoffSchedule
  BY DEF RetryInv
<1>. QED
  BY <1>1, RetryInvariance, PTL

\* NeverRetriesSooner: a failure after a failure waits at least as long as the
\* failures before it had earned (Record keeps FailCount).
THEOREM RetriesNeverSooner == RetrySpec => NeverRetriesSooner
<1>1. ASSUME RetryInv, RetryInv', [RetryNext]_retryVars, streak > 0, streak' > streak
      PROVE  entry'.next >= recorded' + LeastDelay(cfg, streak)
  <2>1. cfg' = cfg /\ streak' = streak + 1
    BY <1>1 DEF RetryNext, RecordOutcome, RetryInv, retryVars
  <2>2. /\ cfg \in BackoffConfigs /\ streak \in Nat \ {0} /\ streak + 1 \in Nat \ {0}
        /\ recorded' \in Nat /\ entry'.next \in Nat /\ cfg.max \in Nat
    BY <1>1, RetriesAssumption DEF RetryInv, Entries, BackoffConfigs
  <2>3. /\ LeastDelay(cfg, streak) \in Nat /\ LeastDelay(cfg, streak) <= cfg.max
        /\ LeastDelay(cfg, streak + 1) \in Nat
        /\ LeastDelay(cfg, streak) <= LeastDelay(cfg, streak + 1)
    BY <2>2, LeastDelayType, LeastDelayGrows
  <2>4. \/ entry'.next = recorded' + cfg.max
        \/ recorded' + LeastDelay(cfg, streak + 1) <= entry'.next
    <3>1. ClassifyError(last)' \in Counted /\ last' \in Errors
      BY <1>1, <2>1, <2>2 DEF RetryInv
    <3>2. BackoffSchedule'
      BY <1>1 DEF RetryInv
    <3>. QED
      BY <2>1, <3>1, <3>2 DEF BackoffSchedule, ClassifyError, Errors, Counted
  <2>. QED
    BY <2>2, <2>3, <2>4
<1>. QED
  BY <1>1, RetryInvariance, PTL DEF RetrySpec, NeverRetriesSooner
=============================================================================
