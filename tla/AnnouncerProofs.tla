-------------------------- MODULE AnnouncerProofs ---------------------------
(* Proofs of the properties of Announcer for any set of assets, any number   *)
(* of concurrent requests, any configuration and any bounds.                 *)
EXTENDS Announcer, BackoffProofs, FiniteSetTheorems

\* Most leaves are set and function reasoning: Zenon first, then SMT, then Zenon with time.
USE ZenonT(3), SMTT(30), ZenonT(60)

-----------------------------------------------------------------------------
(* What the operators return, and the type invariant. *)

\* Dropping the fraction of a second gives a time not later than the one given
\* (time.Unix and the RFC 3339 columns).
LEMMA UnixDown ==
  ASSUME NEW t \in Nat
  PROVE  Unix(t) \in Nat /\ Unix(t) <= t
<1>1. t % Second \in 0 .. (Second - 1) /\ t % Second <= t
  BY AnnouncerAssumption, SMT
<1>. QED
  BY <1>1 DEF Unix

\* The configuration NewBackoffState works with is made of positive durations.
LEMMA ConfigType == BackoffConfig \in BackoffConfigs
BY AnnouncerAssumption DEF BackoffConfig, BackoffConfigs

\* LongestWait is the largest of the configured waits.
LEMMA LongestWaitMax ==
  /\ LongestWait \in Nat
  /\ MaxDelay <= LongestWait
  /\ RejectedRetry <= LongestWait
  /\ UnauthorizedRetry <= LongestWait
<1>. DEFINE D == {MaxDelay, RejectedRetry, UnauthorizedRetry}
<1>1. D \subseteq Nat
  BY AnnouncerAssumption
<1>2. \E d \in D : \A e \in D : e <= d
  <2>1. CASE MaxDelay >= RejectedRetry /\ MaxDelay >= UnauthorizedRetry
    BY <1>1, <2>1
  <2>2. CASE RejectedRetry >= MaxDelay /\ RejectedRetry >= UnauthorizedRetry
    BY <1>1, <2>2
  <2>3. CASE UnauthorizedRetry >= MaxDelay /\ UnauthorizedRetry >= RejectedRetry
    BY <1>1, <2>3
  <2>. QED
    BY <1>1, <2>1, <2>2, <2>3
<1>3. LongestWait \in D /\ \A e \in D : e <= LongestWait
  BY <1>2, Zenon DEF LongestWait
<1>. QED
  BY <1>1, <1>3

\* Whatever Record leaves is an entry, and its wait is at least what the class and
\* the count earn and at most the longest configured one (BackoffState.Record).
LEMMA RecordBounds ==
  ASSUME NEW e0 \in Entries, NEW class \in Classes, NEW t \in Nat,
         NEW e \in Record(BackoffConfig, e0, class, t)
  PROVE  /\ e \in Entries
         /\ e.failCount = IF class \in Counted THEN e0.failCount + 1 ELSE 0
         /\ class # "ok" => t + LeastWait(class, e.failCount) <= e.next
         /\ e.next <= t + LongestWait
<1>1. /\ BackoffConfig.max = MaxDelay /\ BackoffConfig.rejected = RejectedRetry
      /\ BackoffConfig.unauthorized = UnauthorizedRetry
      /\ MaxDelay \in Nat /\ RejectedRetry \in Nat /\ UnauthorizedRetry \in Nat
  BY AnnouncerAssumption DEF BackoffConfig
<1>2. /\ e \in Entries
      /\ e.failCount = IF class \in Counted THEN e0.failCount + 1 ELSE 0
      /\ class = "ok" => e = NoEntry
      /\ class = "rejected" => e.next = t + RejectedRetry
      /\ class = "unauthorized" => e.next = t + UnauthorizedRetry
      /\ class = "permanent" => e.next = t + MaxDelay
      /\ class = "transient" => /\ t + LeastDelay(BackoffConfig, e.failCount) <= e.next
                                /\ e.next <= t + MaxDelay
  BY <1>1, ConfigType, RecordSchedule, SMT
<1>3. class # "ok" => t + LeastWait(class, e.failCount) <= e.next
  BY <1>1, <1>2, SMT DEF LeastWait, Classes, Entries
<1>4. e.next <= t + LongestWait
  BY <1>1, <1>2, LongestWaitMax, SMT DEF Classes, NoEntry, Entries
<1>. QED
  BY <1>2, <1>3, <1>4

\* Every error has a class (ClassifyError is total).
LEMMA ClassType == \A err : ClassifyError(err) \in Classes
BY DEF ClassifyError, Classes

\* An announcement is a lease of its worker for its asset (BuildAnnouncement).
LEMMA LeaseType ==
  ASSUME TypeOK, NEW w \in Workers, NEW a \in Assets
  PROVE  /\ BuildAnnouncement(w, a) \in Leases
         /\ BuildAnnouncement(w, a).expires <= now[w] + Expires
<1>1. now[w] + Expires \in Nat
  BY AnnouncerAssumption DEF TypeOK
<1>. QED
  BY <1>1, UnixDown DEF BuildAnnouncement, Leases

\* What Outcome writes has its type (Record for the sweep, Set for a request).
LEMMA OutcomeType ==
  ASSUME TypeOK, NEW w \in Workers, NEW a \in Assets, NEW class \in Classes,
         Outcome(w, a, class)
  PROVE  /\ backoff' \in [Assets -> Entries]
         /\ failure' \in [Assets -> Failures]
         /\ lastErr' \in BOOLEAN
<1>1. CASE w = Sweep
  <2>1. lastErr' = lastErr
    BY <1>1 DEF Outcome
  <2>2. PICK e \in Record(BackoffConfig, backoff[a], class, now[w]) :
          /\ backoff' = [backoff EXCEPT ![a] = e]
          /\ failure' = [failure EXCEPT
                           ![a] = [class |-> class, at |-> now[w],
                                   count |-> IF class \in Counted THEN @.count + 1 ELSE 0]]
    BY <1>1 DEF Outcome
  <2>3. e \in Entries
    BY RecordBounds DEF TypeOK
  <2>4. [class |-> class, at |-> now[w],
         count |-> IF class \in Counted THEN failure[a].count + 1 ELSE 0] \in Failures
    BY DEF TypeOK, Failures
  <2>. QED
    BY <2>1, <2>2, <2>3, <2>4 DEF TypeOK
<1>2. CASE w # Sweep
  BY <1>2 DEF Outcome, TypeOK
<1>. QED
  BY <1>1, <1>2

\* What UpsertAnnouncementStatus writes has its type.
LEMMA UpsertType ==
  ASSUME TypeOK, NEW w \in Workers, NEW a \in Assets, NEW x \in Nat,
         NEW st \in {"ok", "rejected", "failed"},
         UpsertAnnouncementStatus(w, a, x, st) \/ UNCHANGED tableVars
  PROVE  /\ annStatus' \in [Assets -> {"none", "ok", "rejected", "failed", "expired"}]
         /\ annExpires' \in [Assets -> Nat]
BY DEF UpsertAnnouncementStatus, tableVars, TypeOK

\* Abandoned calls are calls, and no call becomes awaited (Settle and Crash).
LEMMA AbandonedType ==
  ASSUME TypeOK, NEW W, Abandoned(W)
  PROVE  /\ wire' \subseteq Calls
         /\ \A c \in wire' : c.awaited => c \in wire /\ c.lease.by \notin W
         /\ \A c \in wire' : \E d \in wire : d.lease = c.lease
<1>. DEFINE mine == {c \in wire : c.awaited /\ c.lease.by \in W}
<1>1. CASE wire' = wire \ mine
  BY <1>1 DEF TypeOK
<1>2. CASE wire' = (wire \ mine) \cup {[c EXCEPT !.awaited = FALSE] : c \in mine}
  <2>1. \A c \in mine : /\ [c EXCEPT !.awaited = FALSE] \in Calls
                        /\ [c EXCEPT !.awaited = FALSE].awaited = FALSE
                        /\ [c EXCEPT !.awaited = FALSE].lease = c.lease
    BY DEF TypeOK, Calls
  <2>2. ASSUME NEW c \in wire'
        PROVE  /\ c \in Calls
               /\ c.awaited => c \in wire /\ c.lease.by \notin W
               /\ \E d \in wire : d.lease = c.lease
    <3>1. CASE c \in wire \ mine
      BY <3>1 DEF TypeOK
    <3>2. CASE c \notin wire \ mine
      <4>1. PICK d \in mine : c = [d EXCEPT !.awaited = FALSE]
        BY <1>2, <3>2
      <4>. QED
        BY <2>1, <4>1
    <3>. QED
      BY <3>1, <3>2
  <2>. QED
    BY <2>2
<1>. QED
  BY <1>1, <1>2 DEF Abandoned
\* A provider that has just started is well typed.
LEMMA InitTypeOK == Init => TypeOK
<1>. SUFFICES ASSUME Init PROVE TypeOK
  OBVIOUS
<1>1. Start \in Nat
  BY AnnouncerAssumption DEF Start
<1>2. NoEntry \in Entries /\ NoFailure \in Failures
  BY DEF NoEntry, Entries, NoFailure, Failures, Classes
<1>. QED
  BY <1>1, <1>2 DEF Init, Table!Init, TypeOK

\* Each step of a worker, the catalog, the cleanup and the environment preserves
\* the type invariant.  Whether a call is being waited for (WaitsForAsset) and
\* the clock's lower bound (Clocks) come along with it.
LEMMA NextTypeOK ==
  TypeOK /\ WaitsForAsset /\ Clocks /\ [Next]_vars => TypeOK'
<1>. SUFFICES ASSUME TypeOK, WaitsForAsset, Clocks, [Next]_vars PROVE TypeOK'
  OBVIOUS
<1>. USE DEF TypeOK
<1>a. Sweep \in Workers /\ Requests \subseteq Workers
  BY DEF Workers
<1>b. NoEntry \in Entries /\ NoFailure \in Failures
  BY DEF NoEntry, Entries, NoFailure, Failures, Classes
<1>1. CASE Tick
  BY <1>1 DEF Tick, tableVars, workerVars, statusVars
<1>2. ASSUME NEW S \in SUBSET Assets, NEW st \in {"active", "missing"}, Rescan(S, st)
      PROVE  TypeOK'
  BY <1>2 DEF Rescan, Table!Change, tableVars, workerVars, statusVars
<1>3. ASSUME NEW c \in wire, NEW status \in Statuses, Catalog(c, status)
      PROVE  TypeOK'
  <2>1. c \in Calls /\ c.lease \in Leases /\ c.lease.by \in Workers /\ status \in Nat
    BY AnnouncerAssumption DEF Calls, Leases
  <2>2. reply' \in [Workers -> Nat]
    BY <1>3, <2>1 DEF Catalog
  <2>3. accepted' \subseteq Leases /\ wire' \subseteq Calls
    BY <1>3, <2>1 DEF Catalog
  <2>. QED
    BY <1>3, <2>2, <2>3 DEF Catalog, tableVars, statusVars
<1>4. CASE SweepStart
  BY <1>4, <1>a DEF SweepStart, tableVars, statusVars
<1>5. ASSUME NEW a \in Assets, SweepSkip(a) PROVE TypeOK'
  <2>1. faults' \in Nat
    BY <1>5 DEF SweepSkip
  <2>2. todo' \in [Workers -> SUBSET Assets]
    BY <1>5, <1>a DEF SweepSkip
  <2>. QED
    BY <1>5, <2>1, <2>2 DEF SweepSkip, tableVars, statusVars
<1>6. ASSUME NEW r \in Requests, NEW named \in {{}} \cup {{a} : a \in Assets},
             RequestStart(r, named)
      PROVE  TypeOK'
  BY <1>6, <1>a DEF RequestStart, tableVars, statusVars
<1>7. ASSUME NEW w \in Workers, ListActiveAssetIDs(w) PROVE TypeOK'
  BY <1>7 DEF ListActiveAssetIDs, Active, tableVars, statusVars
<1>8. ASSUME NEW w \in Workers, ListFails(w) PROVE TypeOK'
  BY <1>8 DEF ListFails, Return, tableVars, statusVars
<1>9. ASSUME NEW w \in Workers, RequestNow(w) PROVE TypeOK'
  BY <1>9 DEF RequestNow, tableVars, statusVars
<1>10. ASSUME NEW w \in Workers, NEW a \in Assets, BuildFails(w, a) PROVE TypeOK'
  <2>1. /\ annStatus' \in [Assets -> {"none", "ok", "rejected", "failed", "expired"}]
        /\ annExpires' \in [Assets -> Nat]
    BY <1>10, UpsertType DEF BuildFails
  <2>2. "permanent" \in Classes
    BY DEF Classes
  <2>3. /\ backoff' \in [Assets -> Entries]
        /\ failure' \in [Assets -> Failures]
        /\ lastErr' \in BOOLEAN
    BY <1>10, <2>2, OutcomeType DEF BuildFails
  <2>4. todo' \in [Workers -> SUBSET Assets] /\ faults' \in Nat
    BY <1>10 DEF BuildFails
  <2>. QED
    BY <1>10, <2>1, <2>3, <2>4 DEF BuildFails
<1>11. ASSUME NEW w \in Workers, NEW a \in Assets, Announce(w, a) PROVE TypeOK'
  <2>1. wire' \subseteq Calls
    <3>1. BuildAnnouncement(w, a) \in Leases
      BY LeaseType
    <3>2. [lease |-> BuildAnnouncement(w, a), awaited |-> TRUE] \in Calls
      BY <3>1 DEF Calls
    <3>3. wire' = wire \cup {[lease |-> BuildAnnouncement(w, a), awaited |-> TRUE]}
      BY <1>11 DEF Announce
    <3>. QED
      BY <3>2, <3>3
  <2>2. /\ todo' \in [Workers -> SUBSET Assets]
        /\ cur' \in [Workers -> Assets \cup {NoAsset}]
        /\ pc' \in [Workers -> {"idle", "list", "now", "loop", "wait"}]
    BY <1>11 DEF Announce
  <2>. QED
    BY <1>11, <2>1, <2>2 DEF Announce, tableVars, statusVars
<1>12. ASSUME NEW w \in Workers, NEW a \in Assets, AnnounceCancelled(w, a) PROVE TypeOK'
  BY <1>12 DEF AnnounceCancelled, tableVars
<1>13. ASSUME NEW w \in Workers, Settle(w) PROVE TypeOK'
  <2>1. cur[w] \in Assets
    BY <1>13 DEF Settle, WaitsForAsset
  <2>2. PICK err :
          /\ \/ /\ UpsertAnnouncementStatus(w, cur[w],
                     BuildAnnouncement(w, cur[w]).expires, RowStatus(err))
                /\ UNCHANGED faults
             \/ WriteFails(w, cur[w])
          /\ Outcome(w, cur[w], ClassifyError(err))
    BY <1>13 DEF Settle
  <2>3. RowStatus(err) \in {"ok", "rejected", "failed"}
    BY DEF RowStatus
  <2>4. BuildAnnouncement(w, cur[w]).expires \in Nat
    BY <2>1, LeaseType DEF Leases
  <2>5. /\ annStatus' \in [Assets -> {"none", "ok", "rejected", "failed", "expired"}]
        /\ annExpires' \in [Assets -> Nat]
    BY <2>1, <2>2, <2>3, <2>4, UpsertType DEF WriteFails
  <2>6. faults' \in Nat
    BY <2>2 DEF WriteFails
  <2>7. /\ backoff' \in [Assets -> Entries]
        /\ failure' \in [Assets -> Failures]
        /\ lastErr' \in BOOLEAN
    BY <2>1, <2>2, ClassType, OutcomeType
  <2>8. wire' \subseteq Calls
    BY <1>13, AbandonedType DEF Settle
  <2>9. /\ pc' \in [Workers -> {"idle", "list", "now", "loop", "wait"}]
        /\ cur' \in [Workers -> Assets \cup {NoAsset}]
        /\ reply' \in [Workers -> Nat]
        /\ UNCHANGED <<clock, asset, todo, now, ctx, cutoff, sweptAt, deferred, rescans,
                       accepted, goneAt>>
    BY <1>13 DEF Settle
  <2>. QED
    BY <2>5, <2>6, <2>7, <2>8, <2>9
<1>14. ASSUME NEW w \in Workers, Finish(w) PROVE TypeOK'
  <2>1. deferred' \subseteq Assets /\ sweptAt' \in {"zero", "set"}
    BY <1>14 DEF Finish, Deferred
  <2>2. /\ UNCHANGED <<clock, asset, annStatus, annExpires, backoff, wire, cutoff, lastErr,
                       rescans, faults, accepted, goneAt, failure, cur, reply>>
        /\ pc' \in [Workers -> {"idle", "list", "now", "loop", "wait"}]
        /\ todo' \in [Workers -> SUBSET Assets]
        /\ now' \in [Workers -> Nat]
        /\ ctx' \in [Workers -> {"live", "done"}]
    BY <1>14 DEF Finish, Return, tableVars
  <2>. QED
    BY <2>1, <2>2
<1>15. ASSUME NEW w \in Workers, Cancel(w) PROVE TypeOK'
  BY <1>15 DEF Cancel, tableVars, statusVars
<1>16. CASE CleanupStart
  <2>1. clock - Grace \in Nat
    BY AnnouncerAssumption DEF Clocks, Start
  <2>2. cutoff' \in Nat
    BY <1>16, <2>1, UnixDown DEF CleanupStart
  <2>. QED
    BY <1>16, <2>2 DEF CleanupStart, tableVars, workerVars, statusVars
<1>17. CASE MarkExpiredBefore
  BY <1>17 DEF MarkExpiredBefore, workerVars, statusVars
<1>18. CASE CleanupFails
  BY <1>18 DEF CleanupFails, tableVars, workerVars, statusVars
<1>19. CASE Crash
  <2>1. wire' \subseteq Calls
    BY <1>19, AbandonedType DEF Crash
  <2>. QED
    <3>1. /\ backoff' \in [Assets -> Entries]
          /\ failure' \in [Assets -> Failures]
      BY <1>19, <1>b DEF Crash
    <3>2. /\ pc' \in [Workers -> {"idle", "list", "now", "loop", "wait"}]
          /\ todo' \in [Workers -> SUBSET Assets]
          /\ now' \in [Workers -> Nat]
          /\ cur' \in [Workers -> Assets \cup {NoAsset}]
          /\ reply' \in [Workers -> Nat]
          /\ ctx' \in [Workers -> {"live", "done"}]
      BY <1>19 DEF Crash
    <3>3. /\ faults' \in Nat /\ cutoff' = 0 /\ lastErr' = FALSE /\ sweptAt' = "zero"
          /\ deferred' = {}
          /\ UNCHANGED <<clock, asset, annStatus, annExpires, rescans, accepted, goneAt>>
      BY <1>19 DEF Crash, tableVars
    <3>. QED
      BY <2>1, <3>1, <3>2, <3>3
<1>20. CASE UNCHANGED vars
  BY <1>20 DEF vars, tableVars, workerVars, statusVars
<1>. QED
  BY <1>1, <1>2, <1>3, <1>4, <1>5, <1>6, <1>7, <1>8, <1>9, <1>10, <1>11, <1>12,
     <1>13, <1>14, <1>15, <1>16, <1>17, <1>18, <1>19, <1>20 DEF Next, Proceed

-----------------------------------------------------------------------------
(* The inductive invariant. *)
\* A provider that has just started satisfies it: nothing is announced, nothing
\* is on the wire.
LEMMA InitInv == Init => AnnouncerInv
<1>. SUFFICES ASSUME Init PROVE AnnouncerInv
  OBVIOUS
<1>1. Start \in Nat
  BY AnnouncerAssumption DEF Start
<1>2. TypeOK
  BY InitTypeOK
<1>3. Clocks
  BY <1>1 DEF Init, Clocks
<1>4. CallsMatch /\ RepliesHonest /\ WaitsForAsset
  BY DEF Init, CallsMatch, RepliesHonest, WaitsForAsset
<1>5. LeasesBounded /\ MissingLeaseLapses
  BY DEF Init, LeasesBounded, AllLeases, MissingLeaseLapses
<1>6. ListCurrent
  BY DEF Init, ListCurrent, Workers
<1>7. OkRowAccepted
  BY DEF Init, OkRowAccepted
<1>8. DeferralBounded
  BY <1>1, LongestWaitMax DEF Init, DeferralBounded, NoEntry
<1>. QED
  BY <1>2, <1>3, <1>4, <1>5, <1>6, <1>7, <1>8 DEF AnnouncerInv

\* The parts of the invariant, and the invariant from its parts (AnnouncerInv).
LEMMA Parts ==
  ASSUME AnnouncerInv
  PROVE  /\ TypeOK /\ Clocks /\ CallsMatch /\ RepliesHonest /\ WaitsForAsset
         /\ LeasesBounded /\ ListCurrent /\ OkRowAccepted /\ MissingLeaseLapses /\ DeferralBounded
  BY DEF AnnouncerInv

\* The same for the state after a step (AnnouncerInv).
LEMMA Whole ==
  ASSUME TypeOK', Clocks', CallsMatch', RepliesHonest', WaitsForAsset',
         LeasesBounded', ListCurrent', OkRowAccepted', MissingLeaseLapses', DeferralBounded'
  PROVE  AnnouncerInv'
  BY DEF AnnouncerInv

\* The types that the steps below rest on (TypeOK, as far as they need it).
LEMMA Types ==
  ASSUME TypeOK
  PROVE  /\ clock \in Nat /\ cutoff \in Nat
         /\ asset \in [Assets -> {"none", "active", "missing"}]
         /\ goneAt \in [Assets -> Nat]
         /\ annStatus \in [Assets -> {"none", "ok", "rejected", "failed", "expired"}]
         /\ annExpires \in [Assets -> Nat]
         /\ backoff \in [Assets -> Entries]
         /\ pc \in [Workers -> {"idle", "list", "now", "loop", "wait"}]
         /\ todo \in [Workers -> SUBSET Assets]
         /\ now \in [Workers -> Nat]
         /\ cur \in [Workers -> Assets \cup {NoAsset}]
         /\ reply \in [Workers -> Nat]
         /\ wire \subseteq Calls /\ accepted \subseteq Leases
  BY DEF TypeOK

\* A step that touches neither the tables, nor the wire, nor a worker that waits
\* keeps the invariant, as long as times read are not ahead of the clock: every
\* step of a worker between its calls, and the clock itself.
LEMMA QuietStep ==
  ASSUME AnnouncerInv, TypeOK', ListCurrent', Clocks', clock <= clock',
         UNCHANGED <<asset, tableVars, backoff, wire, accepted, goneAt, reply, cur>>,
         \A w \in Workers : pc'[w] = "wait" <=> pc[w] = "wait",
         \A w \in Workers : pc[w] = "wait" => now'[w] = now[w]
  PROVE  AnnouncerInv'
<1>. /\ TypeOK /\ Clocks /\ CallsMatch /\ RepliesHonest /\ WaitsForAsset /\ LeasesBounded
      /\ ListCurrent /\ OkRowAccepted /\ MissingLeaseLapses /\ DeferralBounded
  BY Parts
<1>1. \A w \in Workers : \A a :
        pc[w] = "wait" => BuildAnnouncement(w, a)' = BuildAnnouncement(w, a)
  BY DEF BuildAnnouncement
<1>2. \A c \in wire : c.lease.by \in Workers
  BY Types DEF Calls, Leases
<1>3. CallsMatch'
  BY <1>1, <1>2 DEF CallsMatch
<1>4. RepliesHonest'
  BY <1>1 DEF RepliesHonest
<1>5. WaitsForAsset'
  BY DEF WaitsForAsset
<1>6. AllLeases' = AllLeases
  BY DEF AllLeases
<1>7. \A l \in AllLeases : l \in Leases
  BY Types DEF AllLeases, Calls
<1>a. clock' \in Nat
  BY DEF TypeOK
<1>8. LeasesBounded'
  BY <1>a, <1>6, <1>7, AnnouncerAssumption, Types DEF LeasesBounded, Leases
<1>9. OkRowAccepted' /\ MissingLeaseLapses'
  BY DEF OkRowAccepted, MissingLeaseLapses, tableVars
<1>10. DeferralBounded'
  BY <1>a, LongestWaitMax, Types DEF DeferralBounded, Entries
<1>. QED
  BY <1>3, <1>4, <1>5, <1>8, <1>9, <1>10, Whole

\* A rescan marks an asset missing at the present moment, which no lease and no
\* sweep is ahead of (UpsertAssets, MarkMissing).
LEMMA RescanStep ==
  ASSUME AnnouncerInv, TypeOK', NEW S \in SUBSET Assets,
         NEW st \in {"active", "missing"}, Rescan(S, st)
  PROVE  AnnouncerInv'
<1>. /\ TypeOK /\ Clocks /\ CallsMatch /\ RepliesHonest /\ WaitsForAsset /\ LeasesBounded
      /\ ListCurrent /\ OkRowAccepted /\ MissingLeaseLapses /\ DeferralBounded
  BY Parts
<1>1. UNCHANGED <<clock, annStatus, annExpires, backoff, pc, todo, now, cur, reply, ctx,
                  wire, cutoff, accepted>>
  BY DEF Rescan, tableVars, workerVars
<1>2. \A a \in Assets : asset'[a] = "missing" =>
        \/ goneAt'[a] = clock
        \/ asset[a] = "missing" /\ goneAt'[a] = goneAt[a]
  BY Types DEF Rescan, Table!Change
<1>3. Clocks' /\ CallsMatch' /\ RepliesHonest' /\ WaitsForAsset'
  BY <1>1 DEF Clocks, CallsMatch, RepliesHonest, WaitsForAsset, BuildAnnouncement
<1>4. LeasesBounded' /\ OkRowAccepted' /\ DeferralBounded'
  BY <1>1 DEF LeasesBounded, AllLeases, OkRowAccepted, DeferralBounded
<1>5. ListCurrent'
  BY <1>1, <1>2, Types DEF ListCurrent, Clocks, Workers
<1>6. MissingLeaseLapses'
  <2>. SUFFICES ASSUME NEW l \in accepted \cup {c.lease : c \in wire}, l.by = Sweep,
                       asset'[l.asset] = "missing"
                PROVE  l.expires <= goneAt'[l.asset] + Expires
    BY <1>1 DEF MissingLeaseLapses
  <2>1. l.asset \in Assets
    BY Types DEF Calls, Leases
  <2>2. CASE goneAt'[l.asset] = clock
    BY <2>2 DEF LeasesBounded, AllLeases
  <2>3. CASE asset[l.asset] = "missing" /\ goneAt'[l.asset] = goneAt[l.asset]
    BY <2>3 DEF MissingLeaseLapses
  <2>. QED
    BY <1>2, <2>1, <2>2, <2>3
<1>. QED
  BY <1>3, <1>4, <1>5, <1>6, Whole

\* The catalog accepts the lease of an awaited call before its caller can learn
\* of it (external: the catalog's answer).
LEMMA CatalogStep ==
  ASSUME AnnouncerInv, TypeOK', NEW c \in wire, NEW status \in Statuses,
         Catalog(c, status)
  PROVE  AnnouncerInv'
<1>. /\ TypeOK /\ Clocks /\ CallsMatch /\ RepliesHonest /\ WaitsForAsset /\ LeasesBounded
      /\ ListCurrent /\ OkRowAccepted /\ MissingLeaseLapses /\ DeferralBounded
  BY Parts
<1>1. UNCHANGED <<clock, asset, annStatus, annExpires, backoff, pc, todo, now, cur, ctx,
                  cutoff, goneAt>>
  BY DEF Catalog, tableVars
<1>2. c.lease.by \in Workers /\ c.lease \in Leases
  BY Types DEF Calls, Leases
<1>3. wire' \subseteq wire /\ accepted \subseteq accepted'
      /\ accepted' \subseteq accepted \cup {c.lease}
  BY DEF Catalog
<1>4. AllLeases' \subseteq AllLeases
  BY <1>3 DEF AllLeases
<1>5. Clocks' /\ WaitsForAsset' /\ ListCurrent' /\ DeferralBounded'
  BY <1>1 DEF Clocks, WaitsForAsset, ListCurrent, DeferralBounded
<1>6. CallsMatch'
  BY <1>1, <1>3 DEF CallsMatch, BuildAnnouncement
<1>7. RepliesHonest'
  <2>. SUFFICES ASSUME NEW w \in Workers, reply'[w] # 0
                PROVE  /\ pc[w] = "wait"
                       /\ AnnounceError(reply'[w]) = "nil" =>
                            BuildAnnouncement(w, cur[w]) \in accepted'
    BY <1>1 DEF RepliesHonest, BuildAnnouncement
  <2>1. CASE c.awaited /\ w = c.lease.by
    <3>1. reply'[w] = status
      BY <1>2, <2>1, Types DEF Catalog
    <3>2. pc[w] = "wait" /\ c.lease = BuildAnnouncement(w, cur[w])
      BY <2>1 DEF CallsMatch
    <3>3. AnnounceError(status) = "nil" => c.lease \in accepted'
      BY DEF Catalog
    <3>. QED
      BY <3>1, <3>2, <3>3
  <2>2. CASE ~(c.awaited /\ w = c.lease.by)
    <3>1. reply'[w] = reply[w]
      BY <1>2, <2>2, Types DEF Catalog
    <3>. QED
      BY <1>3, <3>1 DEF RepliesHonest
  <2>. QED
    BY <2>1, <2>2
<1>8. LeasesBounded'
  BY <1>1, <1>4 DEF LeasesBounded
<1>9. OkRowAccepted'
  BY <1>1, <1>3 DEF OkRowAccepted
<1>10. MissingLeaseLapses'
  BY <1>1, <1>4 DEF MissingLeaseLapses, AllLeases
<1>. QED
  BY <1>5, <1>6, <1>7, <1>8, <1>9, <1>10, Whole
\* What a worker does with an outcome leaves every deferral bounded: the sweep's
\* time is not ahead of the clock (Record).
LEMMA OutcomeBounded ==
  ASSUME AnnouncerInv, NEW w \in Workers, NEW a \in Assets, NEW class \in Classes,
         Outcome(w, a, class), clock' = clock
  PROVE  DeferralBounded'
<1>. /\ TypeOK /\ Clocks /\ CallsMatch /\ RepliesHonest /\ WaitsForAsset /\ LeasesBounded
      /\ ListCurrent /\ OkRowAccepted /\ MissingLeaseLapses /\ DeferralBounded
  BY Parts
<1>. SUFFICES ASSUME NEW b \in Assets PROVE backoff'[b].next <= clock + LongestWait
  BY DEF DeferralBounded
<1>1. CASE w = Sweep /\ b = a
  <2>1. PICK e \in Record(BackoffConfig, backoff[a], class, now[w]) :
          backoff' = [backoff EXCEPT ![a] = e]
    BY <1>1 DEF Outcome
  <2>2. e \in Entries /\ e.next <= now[w] + LongestWait
    BY RecordBounds, Types
  <2>3. backoff'[b] = e
    BY <1>1, <2>1, Types
  <2>. QED
    BY <2>2, <2>3, LongestWaitMax, Types DEF Clocks, Entries
<1>2. CASE ~(w = Sweep /\ b = a)
  <2>1. backoff'[b] = backoff[b]
    BY <1>2, Types DEF Outcome
  <2>. QED
    BY <2>1 DEF DeferralBounded
<1>. QED
  BY <1>1, <1>2

\* Sending a call adds one lease: it ends at most Expires after the worker's time,
\* and the worker waits for it from then on (Announce).
LEMMA AnnounceStep ==
  ASSUME AnnouncerInv, TypeOK', NEW w \in Workers, NEW a \in Assets, Announce(w, a)
  PROVE  AnnouncerInv'
<1>. /\ TypeOK /\ Clocks /\ CallsMatch /\ RepliesHonest /\ WaitsForAsset /\ LeasesBounded
      /\ ListCurrent /\ OkRowAccepted /\ MissingLeaseLapses /\ DeferralBounded
  BY Parts
<1>. DEFINE l == BuildAnnouncement(w, a)
<1>1. UNCHANGED <<clock, asset, annStatus, annExpires, backoff, now, reply, ctx, cutoff,
                  accepted, goneAt>>
  BY DEF Announce, tableVars
<1>2. /\ pc[w] = "loop" /\ a \in todo[w]
      /\ pc'[w] = "wait" /\ cur'[w] = a /\ todo'[w] \subseteq todo[w]
  BY Types DEF Announce, Attempts
<1>3. \A v \in Workers \ {w} : pc'[v] = pc[v] /\ cur'[v] = cur[v] /\ todo'[v] = todo[v]
  BY Types DEF Announce
<1>4. wire' = wire \cup {[lease |-> l, awaited |-> TRUE]}
  BY DEF Announce
<1>5. l \in Leases /\ l.expires <= now[w] + Expires /\ l.by = w /\ l.asset = a
  BY LeaseType DEF BuildAnnouncement
<1>6. \A v, b : BuildAnnouncement(v, b)' = BuildAnnouncement(v, b)
  BY <1>1 DEF BuildAnnouncement
<1>7. AllLeases' = AllLeases \cup {l}
  <2>. DEFINE new == [lease |-> l, awaited |-> TRUE]
  <2>1. new.lease = l
    OBVIOUS
  <2>. HIDE DEF new, l
  <2>2. {c.lease : c \in wire \cup {new}} = {c.lease : c \in wire} \cup {new.lease}
    OBVIOUS
  <2>3. wire' = wire \cup {new} /\ accepted' = accepted
    BY <1>1, <1>4 DEF new
  <2>. QED
    BY <2>1, <2>2, <2>3 DEF AllLeases
<1>8. Clocks' /\ OkRowAccepted' /\ DeferralBounded'
  BY <1>1 DEF Clocks, OkRowAccepted, DeferralBounded
<1>9. CallsMatch'
  <2>. SUFFICES ASSUME NEW c \in wire', c.awaited
                PROVE  /\ pc'[c.lease.by] = "wait"
                       /\ c.lease = BuildAnnouncement(c.lease.by, cur'[c.lease.by])
    BY <1>6 DEF CallsMatch
  <2>1. CASE c = [lease |-> l, awaited |-> TRUE]
    BY <1>2, <1>5, <2>1
  <2>2. CASE c \in wire
    <3>1. c.lease.by \in Workers /\ pc[c.lease.by] = "wait"
      BY <2>2, Types DEF CallsMatch, Calls, Leases
    <3>2. c.lease.by # w
      BY <1>2, <3>1
    <3>. QED
      BY <1>3, <2>2, <3>1, <3>2 DEF CallsMatch
  <2>. QED
    BY <1>4, <2>1, <2>2
<1>10. RepliesHonest'
  BY <1>1, <1>2, <1>3, <1>6 DEF RepliesHonest
<1>11. WaitsForAsset'
  BY <1>2, <1>3 DEF WaitsForAsset
<1>12. LeasesBounded'
  <2>1. now[w] \in Nat /\ clock \in Nat /\ Expires \in Nat /\ l.expires \in Nat
    BY <1>5, AnnouncerAssumption, Types DEF Leases
  <2>2. l.expires <= clock + Expires
    BY <1>5, <2>1 DEF Clocks
  <2>. HIDE DEF l
  <2>. QED
    BY <1>1, <1>7, <2>2 DEF LeasesBounded
<1>13. ListCurrent'
  BY <1>1, <1>2, <1>3 DEF ListCurrent, Workers
<1>14. MissingLeaseLapses'
  <2>1. /\ now[w] \in Nat /\ goneAt[a] \in Nat /\ Expires \in Nat /\ l.expires \in Nat
    BY <1>5, AnnouncerAssumption, Types DEF Leases
  <2>2. (w = Sweep /\ asset[a] = "missing") => now[w] <= goneAt[a]
    BY <1>2 DEF ListCurrent
  <2>3. (w = Sweep /\ asset[a] = "missing") => l.expires <= goneAt[a] + Expires
    BY <1>5, <2>1, <2>2
  <2>. HIDE DEF l
  <2>. QED
    BY <1>1, <1>5, <1>7, <2>3 DEF MissingLeaseLapses, AllLeases
<1>. QED
  BY <1>8, <1>9, <1>10, <1>11, <1>12, <1>13, <1>14, Whole

\* A request that cannot be built turns the row to "failed", never to "ok"
\* (the error branch of BuildAnnouncement).
LEMMA BuildFailsStep ==
  ASSUME AnnouncerInv, TypeOK', NEW w \in Workers, NEW a \in Assets, BuildFails(w, a)
  PROVE  AnnouncerInv'
<1>. /\ TypeOK /\ Clocks /\ CallsMatch /\ RepliesHonest /\ WaitsForAsset /\ LeasesBounded
      /\ ListCurrent /\ OkRowAccepted /\ MissingLeaseLapses /\ DeferralBounded
  BY Parts
<1>1. UNCHANGED <<clock, asset, pc, now, cur, reply, ctx, wire, cutoff, accepted, goneAt>>
  BY DEF BuildFails
<1>2. todo'[Sweep] \subseteq todo[Sweep]
  BY Types DEF BuildFails, Workers
<1>3. Clocks' /\ CallsMatch' /\ RepliesHonest' /\ WaitsForAsset'
  BY <1>1 DEF Clocks, CallsMatch, RepliesHonest, WaitsForAsset, BuildAnnouncement
<1>4. LeasesBounded' /\ MissingLeaseLapses'
  BY <1>1 DEF LeasesBounded, AllLeases, MissingLeaseLapses
<1>5. ListCurrent'
  BY <1>1, <1>2 DEF ListCurrent
<1>6. \A b \in Assets : annStatus'[b] = "ok" =>
        annStatus[b] = "ok" /\ annExpires'[b] = annExpires[b]
  BY Types DEF BuildFails, UpsertAnnouncementStatus, tableVars
<1>7. OkRowAccepted'
  BY <1>1, <1>6 DEF OkRowAccepted
<1>8. "permanent" \in Classes
  BY DEF Classes
<1>9. DeferralBounded'
  BY <1>1, <1>8, OutcomeBounded DEF BuildFails
<1>. QED
  BY <1>3, <1>4, <1>5, <1>7, <1>9, Whole

\* A row becomes "ok" only on a reply that says so, and then the lease it records
\* has been accepted; a call given up leaves nobody waiting (Settle: what follows
\* Announce in the sweep and in the handler).
LEMMA SettleStep ==
  ASSUME AnnouncerInv, TypeOK', NEW w \in Workers, Settle(w)
  PROVE  AnnouncerInv'
<1>. /\ TypeOK /\ Clocks /\ CallsMatch /\ RepliesHonest /\ WaitsForAsset /\ LeasesBounded
      /\ ListCurrent /\ OkRowAccepted /\ MissingLeaseLapses /\ DeferralBounded
  BY Parts
<1>1. UNCHANGED <<clock, asset, todo, now, ctx, cutoff, accepted, goneAt>>
  BY DEF Settle
<1>2. pc[w] = "wait" /\ pc'[w] = "loop" /\ reply'[w] = 0 /\ cur[w] \in Assets
  BY Types DEF Settle, WaitsForAsset
<1>3. \A v \in Workers \ {w} : pc'[v] = pc[v] /\ cur'[v] = cur[v] /\ reply'[v] = reply[v]
  BY Types DEF Settle
<1>4. \A v, b : BuildAnnouncement(v, b)' = BuildAnnouncement(v, b)
  BY <1>1 DEF BuildAnnouncement
<1>5. /\ \A c \in wire' : c.awaited => c \in wire /\ c.lease.by # w
      /\ \A c \in wire' : \E d \in wire : d.lease = c.lease
  <2>1. Abandoned({w})
    BY DEF Settle
  <2>. QED
    BY <2>1, AbandonedType
<1>6. AllLeases' \subseteq AllLeases
  BY <1>1, <1>5 DEF AllLeases
<1>7. Clocks' /\ ListCurrent'
  BY <1>1, <1>2, <1>3 DEF Clocks, ListCurrent, Workers
<1>8. CallsMatch'
  <2>. SUFFICES ASSUME NEW c \in wire', c.awaited
                PROVE  /\ pc'[c.lease.by] = "wait"
                       /\ c.lease = BuildAnnouncement(c.lease.by, cur'[c.lease.by])
    BY <1>4 DEF CallsMatch
  <2>1. c \in wire /\ c.lease.by # w
    BY <1>5
  <2>2. c.lease.by \in Workers
    BY <2>1, Types DEF Calls, Leases
  <2>. QED
    BY <1>3, <2>1, <2>2 DEF CallsMatch
<1>9. RepliesHonest' /\ WaitsForAsset'
  BY <1>1, <1>2, <1>3, <1>4 DEF RepliesHonest, WaitsForAsset
<1>10. LeasesBounded'
  BY <1>1, <1>6 DEF LeasesBounded
<1>11. MissingLeaseLapses'
  BY <1>1, <1>6 DEF MissingLeaseLapses, AllLeases
<1>12. PICK err \in {"other"} \cup (IF reply[w] = 0 THEN {} ELSE {AnnounceError(reply[w])}) :
         /\ \/ /\ UpsertAnnouncementStatus(w, cur[w],
                    BuildAnnouncement(w, cur[w]).expires, RowStatus(err))
               /\ UNCHANGED faults
            \/ WriteFails(w, cur[w])
         /\ Outcome(w, cur[w], ClassifyError(err))
  BY DEF Settle
<1>13. RowStatus(err) = "ok" => BuildAnnouncement(w, cur[w]) \in accepted
  <2>1. RowStatus(err) = "ok" => err = "nil"
    BY DEF RowStatus
  <2>2. err = "nil" => reply[w] # 0 /\ AnnounceError(reply[w]) = "nil"
    BY <1>12
  <2>. QED
    BY <2>1, <2>2 DEF RepliesHonest
<1>14. OkRowAccepted'
  <2>. SUFFICES ASSUME NEW b \in Assets, annStatus'[b] = "ok"
                PROVE  \E l \in accepted : l.asset = b /\ l.expires = annExpires'[b]
    BY <1>1 DEF OkRowAccepted
  <2>1. CASE UNCHANGED <<annStatus, annExpires>>
    BY <2>1 DEF OkRowAccepted
  <2>2. CASE UpsertAnnouncementStatus(w, cur[w],
               BuildAnnouncement(w, cur[w]).expires, RowStatus(err))
    <3>1. CASE b = cur[w]
      <4>1. /\ RowStatus(err) = "ok"
            /\ annExpires'[b] = BuildAnnouncement(w, cur[w]).expires
        BY <2>2, <3>1, Types DEF UpsertAnnouncementStatus
      <4>2. BuildAnnouncement(w, cur[w]).asset = b
        BY <3>1 DEF BuildAnnouncement
      <4>. QED
        BY <1>13, <4>1, <4>2
    <3>2. CASE b # cur[w]
      BY <2>2, <3>2, Types DEF UpsertAnnouncementStatus, OkRowAccepted
    <3>. QED
      BY <3>1, <3>2
  <2>. QED
    BY <1>12, <2>1, <2>2 DEF WriteFails, tableVars
<1>15. DeferralBounded'
  BY <1>1, <1>2, <1>12, ClassType, OutcomeBounded
<1>. QED
  BY <1>7, <1>8, <1>9, <1>10, <1>11, <1>14, <1>15, Whole
\* Cleanup turns rows to "expired" only, and forgets its cutoff (MarkExpiredBefore).
LEMMA MarkExpiredStep ==
  ASSUME AnnouncerInv, TypeOK', MarkExpiredBefore
  PROVE  AnnouncerInv'
<1>. /\ TypeOK /\ Clocks /\ CallsMatch /\ RepliesHonest /\ WaitsForAsset /\ LeasesBounded
      /\ ListCurrent /\ OkRowAccepted /\ MissingLeaseLapses /\ DeferralBounded
  BY Parts
<1>1. /\ UNCHANGED <<clock, asset, annExpires, backoff, pc, todo, now, cur, reply, ctx, wire,
                     accepted, goneAt>>
      /\ cutoff' = 0
  BY DEF MarkExpiredBefore, workerVars
<1>2. \A a \in Assets : annStatus'[a] = "ok" => annStatus[a] = "ok"
  BY DEF MarkExpiredBefore
<1>3. Clocks' /\ CallsMatch' /\ RepliesHonest' /\ WaitsForAsset'
  BY <1>1 DEF Clocks, CallsMatch, RepliesHonest, WaitsForAsset, BuildAnnouncement
<1>4. LeasesBounded' /\ MissingLeaseLapses' /\ ListCurrent' /\ DeferralBounded'
  BY <1>1 DEF LeasesBounded, AllLeases, MissingLeaseLapses, ListCurrent, DeferralBounded
<1>5. OkRowAccepted'
  BY <1>1, <1>2 DEF OkRowAccepted
<1>. QED
  BY <1>3, <1>4, <1>5, Whole

\* A crash keeps the database and some of the wire, and nobody waits any more.
LEMMA CrashStep ==
  ASSUME AnnouncerInv, TypeOK', Crash
  PROVE  AnnouncerInv'
<1>. /\ TypeOK /\ Clocks /\ CallsMatch /\ RepliesHonest /\ WaitsForAsset /\ LeasesBounded
      /\ ListCurrent /\ OkRowAccepted /\ MissingLeaseLapses /\ DeferralBounded
  BY Parts
<1>1. /\ UNCHANGED <<clock, asset, annStatus, annExpires, accepted, goneAt>>
      /\ cutoff' = 0
      /\ \A w \in Workers : pc'[w] = "idle" /\ todo'[w] = {} /\ now'[w] = 0 /\ reply'[w] = 0
      /\ \A a \in Assets : backoff'[a].next = 0
  BY DEF Crash, tableVars, NoEntry
<1>2. /\ \A c \in wire' : c.awaited => c \in wire /\ c.lease.by \notin Workers
      /\ \A c \in wire' : \E d \in wire : d.lease = c.lease
  <2>1. Abandoned(Workers)
    BY DEF Crash
  <2>. QED
    BY <2>1, AbandonedType
<1>3. \A c \in wire' : ~c.awaited
  BY <1>2, Types DEF Calls, Leases
<1>4. AllLeases' \subseteq AllLeases
  BY <1>1, <1>2 DEF AllLeases
<1>5. Clocks'
  BY <1>1, Types DEF Clocks
<1>6. CallsMatch' /\ RepliesHonest' /\ WaitsForAsset'
  BY <1>1, <1>3 DEF CallsMatch, RepliesHonest, WaitsForAsset
<1>7. LeasesBounded'
  BY <1>1, <1>4 DEF LeasesBounded
<1>8. MissingLeaseLapses'
  BY <1>1, <1>4 DEF MissingLeaseLapses, AllLeases
<1>9. ListCurrent'
  BY <1>1 DEF ListCurrent, Workers
<1>10. OkRowAccepted'
  BY <1>1 DEF OkRowAccepted
<1>11. DeferralBounded'
  BY <1>1, LongestWaitMax, Types DEF DeferralBounded
<1>. QED
  BY <1>5, <1>6, <1>7, <1>8, <1>9, <1>10, <1>11, Whole

\* The sweep is one of the workers, and so is each request (runner, handler).
LEMMA SweepWorks == Sweep \in Workers /\ Requests \subseteq Workers
  BY DEF Workers

\* Time passes for the workers as for the catalog (Tick).
LEMMA TickStep ==
  ASSUME AnnouncerInv, TypeOK', Tick
  PROVE  AnnouncerInv'
<1>. /\ TypeOK /\ Clocks /\ CallsMatch /\ RepliesHonest /\ WaitsForAsset /\ LeasesBounded
      /\ ListCurrent /\ OkRowAccepted /\ MissingLeaseLapses /\ DeferralBounded
  BY Parts
<1>1. /\ clock' = clock + 1
      /\ UNCHANGED <<asset, tableVars, backoff, pc, todo, now, cur, reply, wire, cutoff,
                     accepted, goneAt>>
  BY DEF Tick, workerVars
<1>2. Clocks' /\ ListCurrent' /\ clock <= clock'
  BY <1>1, AnnouncerAssumption, Types DEF Clocks, ListCurrent, Start
<1>. QED
  BY <1>1, <1>2, QuietStep

\* A sweep notes the time before it lists the assets (RunAnnounceSweep).
LEMMA SweepStartStep ==
  ASSUME AnnouncerInv, TypeOK', SweepStart
  PROVE  AnnouncerInv'
<1>. /\ TypeOK /\ Clocks /\ CallsMatch /\ RepliesHonest /\ WaitsForAsset /\ LeasesBounded
      /\ ListCurrent /\ OkRowAccepted /\ MissingLeaseLapses /\ DeferralBounded
  BY Parts
<1>1. /\ UNCHANGED <<clock, asset, tableVars, backoff, todo, cur, reply, wire, cutoff,
                     accepted, goneAt>>
      /\ pc[Sweep] = "idle" /\ pc'[Sweep] = "list" /\ now'[Sweep] = clock
      /\ \A w \in Workers \ {Sweep} : pc'[w] = pc[w] /\ now'[w] = now[w]
  BY SweepWorks, Types DEF SweepStart
<1>2. Clocks'
  BY <1>1, Types DEF Clocks
<1>4. ListCurrent'
  BY <1>1 DEF ListCurrent
<1>. QED
  BY <1>1, <1>2, <1>4, QuietStep, Types

\* Skipping an asset only shortens the list of the sweep (needsReannounce,
\* CanAttempt).
LEMMA SweepSkipStep ==
  ASSUME AnnouncerInv, TypeOK', NEW a \in Assets, SweepSkip(a)
  PROVE  AnnouncerInv'
<1>. /\ TypeOK /\ Clocks /\ CallsMatch /\ RepliesHonest /\ WaitsForAsset /\ LeasesBounded
      /\ ListCurrent /\ OkRowAccepted /\ MissingLeaseLapses /\ DeferralBounded
  BY Parts
<1>1. /\ UNCHANGED <<clock, asset, tableVars, backoff, pc, now, cur, reply, wire, cutoff,
                     accepted, goneAt>>
      /\ todo'[Sweep] \subseteq todo[Sweep]
  BY SweepWorks, Types DEF SweepSkip
<1>2. Clocks' /\ ListCurrent' /\ clock <= clock'
  BY <1>1, Types DEF Clocks, ListCurrent
<1>. QED
  BY <1>1, <1>2, QuietStep

\* A request has no time and no assets of the sweep (the announce handler).
LEMMA RequestStartStep ==
  ASSUME AnnouncerInv, TypeOK', NEW r \in Requests, NEW named \in {{}} \cup {{a} : a \in
         Assets}, RequestStart(r, named)
  PROVE  AnnouncerInv'
<1>. /\ TypeOK /\ Clocks /\ CallsMatch /\ RepliesHonest /\ WaitsForAsset /\ LeasesBounded
      /\ ListCurrent /\ OkRowAccepted /\ MissingLeaseLapses /\ DeferralBounded
  BY Parts
<1>1. /\ UNCHANGED <<clock, asset, tableVars, backoff, now, cur, reply, wire, cutoff,
                     accepted, goneAt>>
      /\ pc[r] = "idle" /\ pc'[r] \in {"list", "now"}
      /\ \A w \in Workers \ {r} : pc'[w] = pc[w] /\ todo'[w] = todo[w]
      /\ r # Sweep
  BY SweepWorks, Types DEF RequestStart
<1>2. Clocks' /\ ListCurrent' /\ clock <= clock'
  BY SweepWorks, <1>1, Types DEF Clocks, ListCurrent
<1>. QED
  BY <1>1, <1>2, QuietStep

\* What a worker lists is active at that moment (ListActiveAssetIDs).
LEMMA ListStep ==
  ASSUME AnnouncerInv, TypeOK', NEW w \in Workers, ListActiveAssetIDs(w)
  PROVE  AnnouncerInv'
<1>. /\ TypeOK /\ Clocks /\ CallsMatch /\ RepliesHonest /\ WaitsForAsset /\ LeasesBounded
      /\ ListCurrent /\ OkRowAccepted /\ MissingLeaseLapses /\ DeferralBounded
  BY Parts
<1>1. /\ UNCHANGED <<clock, asset, tableVars, backoff, now, cur, reply, wire, cutoff,
                     accepted, goneAt>>
      /\ pc[w] = "list" /\ pc'[w] \in {"loop", "now"} /\ todo'[w] = Active
      /\ \A v \in Workers \ {w} : pc'[v] = pc[v] /\ todo'[v] = todo[v]
  BY Types DEF ListActiveAssetIDs
<1>2. Clocks' /\ ListCurrent' /\ clock <= clock'
  BY SweepWorks, <1>1, Types DEF Clocks, ListCurrent, Active
<1>. QED
  BY <1>1, <1>2, QuietStep

\* A worker that returns forgets its list and its time (RunAnnounceSweep, the
\* handler).
LEMMA ReturnStep ==
  ASSUME AnnouncerInv, TypeOK', NEW w \in Workers, ListFails(w) \/ Finish(w)
  PROVE  AnnouncerInv'
<1>. /\ TypeOK /\ Clocks /\ CallsMatch /\ RepliesHonest /\ WaitsForAsset /\ LeasesBounded
      /\ ListCurrent /\ OkRowAccepted /\ MissingLeaseLapses /\ DeferralBounded
  BY Parts
<1>1. Return(w) /\ pc[w] \in {"list", "loop"}
  BY DEF ListFails, Finish
<1>2. UNCHANGED <<clock, asset, tableVars, backoff, wire, cutoff, accepted, goneAt>>
  BY DEF ListFails, Finish
<1>3. /\ UNCHANGED <<cur, reply>>
      /\ pc'[w] = "idle" /\ todo'[w] = {} /\ now'[w] = 0
      /\ \A v \in Workers \ {w} : pc'[v] = pc[v] /\ todo'[v] = todo[v] /\ now'[v] = now[v]
  BY <1>1, Types DEF Return
<1>4. Clocks' /\ ListCurrent' /\ clock <= clock'
  BY SweepWorks, <1>2, <1>3, Types DEF Clocks, ListCurrent
<1>. QED
  BY <1>1, <1>2, <1>3, <1>4, QuietStep

\* A request notes the time after it has its list (the announce handler).
LEMMA RequestNowStep ==
  ASSUME AnnouncerInv, TypeOK', NEW w \in Workers, RequestNow(w)
  PROVE  AnnouncerInv'
<1>. /\ TypeOK /\ Clocks /\ CallsMatch /\ RepliesHonest /\ WaitsForAsset /\ LeasesBounded
      /\ ListCurrent /\ OkRowAccepted /\ MissingLeaseLapses /\ DeferralBounded
  BY Parts
<1>1. /\ UNCHANGED <<clock, asset, tableVars, backoff, todo, cur, reply, wire, cutoff,
                     accepted, goneAt>>
      /\ w # Sweep /\ pc[w] = "now" /\ pc'[w] = "loop" /\ now'[w] = clock
      /\ \A v \in Workers \ {w} : pc'[v] = pc[v] /\ now'[v] = now[v]
  BY Types DEF RequestNow
<1>2. Clocks' /\ ListCurrent' /\ clock <= clock'
  BY SweepWorks, <1>1, Types DEF Clocks, ListCurrent
<1>. QED
  BY <1>1, <1>2, QuietStep

\* A call that is not made for a cancelled request leaves the sweep alone
\* (Announce).
LEMMA AnnounceCancelledStep ==
  ASSUME AnnouncerInv, TypeOK', NEW w \in Workers, NEW a \in Assets,
         AnnounceCancelled(w, a)
  PROVE  AnnouncerInv'
<1>. /\ TypeOK /\ Clocks /\ CallsMatch /\ RepliesHonest /\ WaitsForAsset /\ LeasesBounded
      /\ ListCurrent /\ OkRowAccepted /\ MissingLeaseLapses /\ DeferralBounded
  BY Parts
<1>1. /\ UNCHANGED <<clock, asset, tableVars, backoff, pc, now, cur, reply, wire, cutoff,
                     accepted, goneAt>>
      /\ todo'[Sweep] = todo[Sweep]
  BY SweepWorks, Types DEF AnnounceCancelled
<1>2. Clocks' /\ ListCurrent' /\ clock <= clock'
  BY <1>1, Types DEF Clocks, ListCurrent
<1>. QED
  BY <1>1, <1>2, QuietStep

\* The cutoff lies the grace period before now (RunCleanupJob).
LEMMA CleanupStartStep ==
  ASSUME AnnouncerInv, TypeOK', CleanupStart
  PROVE  AnnouncerInv'
<1>. /\ TypeOK /\ Clocks /\ CallsMatch /\ RepliesHonest /\ WaitsForAsset /\ LeasesBounded
      /\ ListCurrent /\ OkRowAccepted /\ MissingLeaseLapses /\ DeferralBounded
  BY Parts
<1>1. /\ UNCHANGED <<clock, asset, tableVars, backoff, pc, todo, now, cur, reply, wire,
                     accepted, goneAt>>
      /\ cutoff' = Unix(clock - Grace)
  BY DEF CleanupStart, workerVars
<1>2. clock - Grace \in Nat
  BY AnnouncerAssumption, Types DEF Clocks, Start
<1>3. cutoff' \in Nat /\ cutoff' <= clock - Grace
  BY <1>1, <1>2, UnixDown
<1>4. Clocks' /\ ListCurrent' /\ clock <= clock'
  BY <1>1, <1>3, AnnouncerAssumption, Types DEF Clocks, ListCurrent
<1>. QED
  BY <1>1, <1>4, QuietStep

\* An UPDATE that fails changes no row (MarkExpiredBefore).
LEMMA CleanupFailsStep ==
  ASSUME AnnouncerInv, TypeOK', CleanupFails
  PROVE  AnnouncerInv'
<1>. /\ TypeOK /\ Clocks /\ CallsMatch /\ RepliesHonest /\ WaitsForAsset /\ LeasesBounded
      /\ ListCurrent /\ OkRowAccepted /\ MissingLeaseLapses /\ DeferralBounded
  BY Parts
<1>1. /\ UNCHANGED <<clock, asset, tableVars, backoff, pc, todo, now, cur, reply, wire,
                     accepted, goneAt>>
      /\ cutoff' = 0
  BY DEF CleanupFails, workerVars
<1>2. Clocks' /\ ListCurrent' /\ clock <= clock'
  BY <1>1, Types DEF Clocks, ListCurrent
<1>. QED
  BY <1>1, <1>2, QuietStep

\* Steps that only end a context, or change nothing, preserve the invariant
\* (Cancel).
LEMMA IdleStep ==
  ASSUME AnnouncerInv, TypeOK', UNCHANGED <<clock, asset, tableVars, backoff, pc, todo,
         now, cur, reply, wire, cutoff, accepted, goneAt>>
  PROVE  AnnouncerInv'
<1>. /\ TypeOK /\ Clocks /\ CallsMatch /\ RepliesHonest /\ WaitsForAsset /\ LeasesBounded
      /\ ListCurrent /\ OkRowAccepted /\ MissingLeaseLapses /\ DeferralBounded
  BY Parts
<1>1. Clocks' /\ ListCurrent' /\ clock <= clock'
  BY Types DEF Clocks, ListCurrent
<1>. QED
  BY <1>1, QuietStep

\* Every step of Next preserves the invariant: one case for each action.
LEMMA NextInv == AnnouncerInv /\ [Next]_vars => AnnouncerInv'
<1>. SUFFICES ASSUME AnnouncerInv, [Next]_vars PROVE AnnouncerInv'
  OBVIOUS
<1>0. TypeOK'
  BY NextTypeOK DEF AnnouncerInv
<1>1. CASE Tick
  BY <1>0, <1>1, TickStep
<1>2. ASSUME NEW S \in SUBSET Assets, NEW st \in {"active", "missing"}, Rescan(S, st)
      PROVE  AnnouncerInv'
  BY <1>0, <1>2, RescanStep
<1>3. ASSUME NEW c \in wire, NEW status \in Statuses, Catalog(c, status)
      PROVE  AnnouncerInv'
  BY <1>0, <1>3, CatalogStep
<1>4. CASE SweepStart
  BY <1>0, <1>4, SweepStartStep
<1>5. ASSUME NEW a \in Assets, SweepSkip(a) PROVE AnnouncerInv'
  BY <1>0, <1>5, SweepSkipStep
<1>6. ASSUME NEW r \in Requests, NEW named \in {{}} \cup {{a} : a \in Assets},
             RequestStart(r, named)
      PROVE  AnnouncerInv'
  BY <1>0, <1>6, RequestStartStep
<1>7. ASSUME NEW w \in Workers, ListActiveAssetIDs(w) PROVE AnnouncerInv'
  BY <1>0, <1>7, ListStep
<1>8. ASSUME NEW w \in Workers, ListFails(w) \/ Finish(w) PROVE AnnouncerInv'
  BY <1>0, <1>8, ReturnStep
<1>9. ASSUME NEW w \in Workers, RequestNow(w) PROVE AnnouncerInv'
  BY <1>0, <1>9, RequestNowStep
<1>10. ASSUME NEW w \in Workers, NEW a \in Assets, BuildFails(w, a) PROVE AnnouncerInv'
  BY <1>0, <1>10, BuildFailsStep
<1>11. ASSUME NEW w \in Workers, NEW a \in Assets, Announce(w, a) PROVE AnnouncerInv'
  BY <1>0, <1>11, AnnounceStep
<1>12. ASSUME NEW w \in Workers, NEW a \in Assets, AnnounceCancelled(w, a)
       PROVE  AnnouncerInv'
  BY <1>0, <1>12, AnnounceCancelledStep
<1>13. ASSUME NEW w \in Workers, Settle(w) PROVE AnnouncerInv'
  BY <1>0, <1>13, SettleStep
<1>14. CASE CleanupStart
  BY <1>0, <1>14, CleanupStartStep
<1>15. CASE MarkExpiredBefore
  BY <1>0, <1>15, MarkExpiredStep
<1>16. CASE CleanupFails
  BY <1>0, <1>16, CleanupFailsStep
<1>17. CASE Crash
  BY <1>0, <1>17, CrashStep
<1>18. ASSUME UNCHANGED <<clock, asset, tableVars, backoff, pc, todo, now, cur, reply, wire,
                          cutoff, accepted, goneAt>>
       PROVE  AnnouncerInv'
  BY <1>0, <1>18, IdleStep
<1>19. ASSUME NEW w \in Workers, Cancel(w) PROVE AnnouncerInv'
  BY <1>18, <1>19 DEF Cancel
<1>20. CASE UNCHANGED vars
  BY <1>18, <1>20 DEF vars, workerVars
<1>. QED
  BY <1>1, <1>2, <1>3, <1>4, <1>5, <1>6, <1>7, <1>8, <1>9, <1>10, <1>11, <1>12,
     <1>13, <1>14, <1>15, <1>16, <1>17, <1>19, <1>20 DEF Next, Proceed

-----------------------------------------------------------------------------
\* AnnouncerInv holds of every run of the sweep, the handler, the cleanup and the
\* catalog, for any numbers of assets and requests and any configured durations.
THEOREM Invariance == Spec => []AnnouncerInv
BY InitInv, NextInv, PTL DEF Spec

\* TypeOK always holds: every variable of the announcer keeps its type.
THEOREM TypeCorrect == Spec => []TypeOK
<1>1. AnnouncerInv => TypeOK
  BY DEF AnnouncerInv
<1>. QED
  BY <1>1, Invariance, PTL

\* OkRowAccepted: a row that UpsertAnnouncementStatus turned to "ok" records an
\* announcement the catalog did accept.
THEOREM OkRowsAccepted == Spec => []OkRowAccepted
<1>1. AnnouncerInv => OkRowAccepted
  BY DEF AnnouncerInv
<1>. QED
  BY <1>1, Invariance, PTL

\* MissingLeaseLapses: no announcement of RunAnnounceSweep for an asset that went
\* missing outlives that moment by more than the configured expiry.
THEOREM MissingLeasesLapse == Spec => []MissingLeaseLapses
<1>1. AnnouncerInv => MissingLeaseLapses
  BY DEF AnnouncerInv
<1>. QED
  BY <1>1, Invariance, PTL

\* DeferralBounded: BackoffState.Record never puts an asset off for longer than
\* the longest configured wait.
THEOREM DeferralsBounded == Spec => []DeferralBounded
<1>1. AnnouncerInv => DeferralBounded
  BY DEF AnnouncerInv
<1>. QED
  BY <1>1, Invariance, PTL

\* ExpiredAfterGrace: MarkExpiredBefore marks only rows whose expiry lies more
\* than the grace period in the past, and no other write marks one.
THEOREM ExpiresAfterGrace == Spec => ExpiredAfterGrace
<1>. DEFINE Marks(a) == annStatus[a] # "expired" /\ annStatus'[a] = "expired"
            Lapsed(a) == annExpires[a] # 0 /\ annExpires[a] + Grace < clock
<1>1. ASSUME AnnouncerInv, [Next]_vars, NEW a \in Assets, Marks(a) PROVE Lapsed(a)
  <2>. TypeOK /\ Clocks
    BY <1>1, Parts
  <2>1. CASE MarkExpiredBefore
    <3>1. cutoff # 0 /\ annExpires[a] # 0 /\ annExpires[a] < cutoff
      BY <1>1, <2>1 DEF MarkExpiredBefore
    <3>. QED
      BY <1>1, <3>1, AnnouncerAssumption, Types DEF Clocks
  <2>2. ASSUME NEW w \in Workers, NEW b, NEW x, NEW st, st # "expired",
               UpsertAnnouncementStatus(w, b, x, st)
        PROVE  FALSE
    BY <1>1, <2>2, Types DEF UpsertAnnouncementStatus
  <2>3. ASSUME UNCHANGED tableVars PROVE FALSE
    BY <1>1, <2>3 DEF tableVars
  <2>4. ASSUME NEW w \in Workers, NEW b \in Assets, BuildFails(w, b) PROVE FALSE
    BY <2>2, <2>3, <2>4 DEF BuildFails
  <2>5. ASSUME NEW w \in Workers, Settle(w) PROVE FALSE
    <3>1. \E err : \/ UpsertAnnouncementStatus(w, cur[w],
                        BuildAnnouncement(w, cur[w]).expires, RowStatus(err))
                   \/ WriteFails(w, cur[w])
      BY <2>5 DEF Settle
    <3>2. \A err : RowStatus(err) # "expired"
      BY DEF RowStatus
    <3>. QED
      BY <2>2, <2>3, <3>1, <3>2 DEF WriteFails
  <2>6. ASSUME NEW w \in Workers, Proceed(w) \/ Cancel(w) PROVE FALSE
    BY <2>3, <2>4, <2>5, <2>6 DEF Proceed, Cancel, ListActiveAssetIDs, ListFails, RequestNow,
       Announce, AnnounceCancelled, Finish
  <2>. QED
    BY <1>1, <2>1, <2>3, <2>6 DEF Next, vars, Tick, Rescan, Catalog, SweepStart, SweepSkip,
       RequestStart, CleanupStart, CleanupFails, Crash
<1>2. AnnouncerInv /\ [Next]_vars => [\A a \in Assets : Marks(a) => Lapsed(a)]_vars
  BY <1>1
<1>. QED
  BY <1>2, Invariance, PTL DEF Spec, ExpiredAfterGrace

-----------------------------------------------------------------------------
(* The backoff and the failures behind it. *)

\* Steps that record no outcome leave the failures and the backoff alone, or forget
\* both together (Crash).
LEMMA FailuresKept ==
  ASSUME TypeOK, FailuresWait, UNCHANGED <<backoff, failure>>, clock' \in {clock, clock + 1}
  PROVE  FailuresWait'
<1>. SUFFICES ASSUME NEW a \in Assets
              PROVE  /\ failure[a].count = backoff[a].failCount
                     /\ failure[a].class = "transient" => failure[a].count > 0
                     /\ failure[a].at <= clock'
                     /\ failure[a].class # "ok" =>
                          failure[a].at + LeastWait(failure[a].class, failure[a].count)
                            <= backoff[a].next
  BY DEF FailuresWait, LeastWait
<1>1. failure[a].at <= clock /\ failure[a].at \in Nat /\ clock \in Nat
  BY DEF FailuresWait, TypeOK, Failures
<1>2. failure[a].at <= clock'
  BY <1>1, SMT
<1>. QED
  BY <1>2 DEF FailuresWait

\* An outcome of the sweep is entered in the backoff with the wait it earns, and the
\* backoff counts it with the failures before it (Outcome, BackoffState.Record).
LEMMA FailuresOutcome ==
  ASSUME TypeOK, Clocks, FailuresWait, NEW w \in Workers, NEW a \in Assets,
         NEW class \in Classes, Outcome(w, a, class), UNCHANGED clock
  PROVE  FailuresWait'
<1>1. CASE w # Sweep
  <2>1. UNCHANGED <<backoff, failure>>
    BY <1>1 DEF Outcome
  <2>. QED
    BY <2>1, FailuresKept
<1>2. CASE w = Sweep
  <2>1. PICK e \in Record(BackoffConfig, backoff[a], class, now[w]) :
          /\ backoff' = [backoff EXCEPT ![a] = e]
          /\ failure' = [failure EXCEPT
                           ![a] = [class |-> class, at |-> now[w],
                                   count |-> IF class \in Counted THEN @.count + 1 ELSE 0]]
    BY <1>2 DEF Outcome
  <2>2. /\ backoff[a] \in Entries /\ now[w] \in Nat /\ now[w] <= clock
        /\ failure[a].count = backoff[a].failCount /\ failure[a].count \in Nat
    BY DEF TypeOK, Clocks, FailuresWait, Failures
  <2>3. /\ e \in Entries
        /\ e.failCount = IF class \in Counted THEN backoff[a].failCount + 1 ELSE 0
        /\ class # "ok" => now[w] + LeastWait(class, e.failCount) <= e.next
    BY <2>2, RecordBounds
  <2>4. class = "transient" => e.failCount > 0
    <3>. SUFFICES ASSUME class = "transient" PROVE e.failCount > 0
      OBVIOUS
    <3>1. class \in Counted
      BY DEF Counted
    <3>2. e.failCount = failure[a].count + 1
      BY <2>2, <2>3, <3>1, Zenon
    <3>3. failure[a].count \in Nat
      BY <2>2, Zenon
    <3>. QED
      BY <3>2, <3>3
  <2>5. /\ backoff'[a] = e
        /\ failure'[a] = [class |-> class, at |-> now[w], count |-> e.failCount]
    BY <2>1, <2>2, <2>3 DEF TypeOK
  <2>6. \A b \in Assets \ {a} : backoff'[b] = backoff[b] /\ failure'[b] = failure[b]
    BY <2>1 DEF TypeOK
  <2>. SUFFICES ASSUME NEW b \in Assets
                PROVE  /\ failure'[b].count = backoff'[b].failCount
                       /\ failure'[b].class = "transient" => failure'[b].count > 0
                       /\ failure'[b].at <= clock
                       /\ failure'[b].class # "ok" =>
                            failure'[b].at + LeastWait(failure'[b].class, failure'[b].count)
                              <= backoff'[b].next
    BY DEF FailuresWait, LeastWait
  <2>7. CASE b = a
    BY <2>2, <2>3, <2>4, <2>5, <2>7
  <2>8. CASE b # a
    BY <2>6, <2>8 DEF FailuresWait
  <2>. QED
    BY <2>7, <2>8
<1>. QED
  BY <1>1, <1>2

\* Every step keeps it: only a call that failed to be built or has come back records
\* an outcome, and a crash forgets the backoff and the failures alike.
LEMMA FailuresStep ==
  ASSUME AnnouncerInv, FailuresWait, [Next]_vars
  PROVE  FailuresWait'
<1>0. TypeOK /\ Clocks /\ WaitsForAsset
  BY DEF AnnouncerInv
<1>1. CASE Tick
  BY <1>0, <1>1, FailuresKept DEF Tick
<1>2. ASSUME NEW w \in Workers, NEW a \in Assets, BuildFails(w, a) PROVE FailuresWait'
  <2>1. Outcome(w, a, "permanent") /\ UNCHANGED clock /\ "permanent" \in Classes
    BY <1>2 DEF BuildFails, Classes
  <2>. QED
    BY <1>0, <2>1, FailuresOutcome
<1>3. ASSUME NEW w \in Workers, Settle(w) PROVE FailuresWait'
  <2>1. PICK err : Outcome(w, cur[w], ClassifyError(err))
    BY <1>3 DEF Settle
  <2>2. cur[w] \in Assets /\ UNCHANGED clock
    BY <1>0, <1>3 DEF Settle, WaitsForAsset
  <2>. QED
    BY <1>0, <2>1, <2>2, ClassType, FailuresOutcome
<1>4. CASE Crash
  BY <1>0, <1>4, SMT DEF Crash, FailuresWait, NoEntry, NoFailure, TypeOK
<1>5. ASSUME UNCHANGED <<backoff, failure, clock>> PROVE FailuresWait'
  BY <1>0, <1>5, FailuresKept
<1>6. ASSUME NEW S \in SUBSET Assets, NEW st \in {"active", "missing"}, Rescan(S, st)
      PROVE  FailuresWait'
  BY <1>5, <1>6 DEF Rescan
<1>7. ASSUME NEW c \in wire, NEW status \in Statuses, Catalog(c, status)
      PROVE  FailuresWait'
  BY <1>5, <1>7 DEF Catalog
<1>8. CASE SweepStart \/ \E a \in Assets : SweepSkip(a)
  BY <1>5, <1>8 DEF SweepStart, SweepSkip
<1>9. ASSUME NEW r \in Requests, NEW named \in {{}} \cup {{a} : a \in Assets},
             RequestStart(r, named)
      PROVE  FailuresWait'
  BY <1>5, <1>9 DEF RequestStart
<1>10. ASSUME NEW w \in Workers,
              ListActiveAssetIDs(w) \/ ListFails(w) \/ RequestNow(w) \/ Finish(w) \/ Cancel(w)
       PROVE  FailuresWait'
  BY <1>5, <1>10 DEF ListActiveAssetIDs, ListFails, RequestNow, Finish, Cancel
<1>11. ASSUME NEW w \in Workers, NEW a \in Assets, Announce(w, a) \/ AnnounceCancelled(w, a)
       PROVE  FailuresWait'
  BY <1>5, <1>11 DEF Announce, AnnounceCancelled
<1>12. CASE CleanupStart \/ MarkExpiredBefore \/ CleanupFails
  BY <1>5, <1>12 DEF CleanupStart, MarkExpiredBefore, CleanupFails
<1>13. CASE UNCHANGED vars
  BY <1>5, <1>13 DEF vars
<1>. QED
  BY <1>1, <1>2, <1>3, <1>4, <1>6, <1>7, <1>8, <1>9, <1>10, <1>11, <1>12, <1>13
     DEF Next, Proceed

\* FailuresWait: the backoff never holds less than the sweep's failures have earned.
THEOREM FailuresHeld == Spec => []FailuresWait
<1>1. Init => FailuresWait
  <2>. SUFFICES ASSUME Init PROVE FailuresWait
    OBVIOUS
  <2>1. clock \in Nat
    BY InitTypeOK DEF TypeOK
  <2>. QED
    BY <2>1, SMT DEF Init, FailuresWait, NoEntry, NoFailure
<1>2. AnnouncerInv /\ FailuresWait /\ [Next]_vars => FailuresWait'
  BY FailuresStep
<1>. QED
  BY <1>1, <1>2, Invariance, PTL DEF Spec

\* BackoffRespected: no call of the sweep before the wait that its last failure on
\* the asset earned is over, for any number of failures in a row.
THEOREM WaitsRespected == Spec => BackoffRespected
<1>1. ASSUME AnnouncerInv, FailuresWait, [Next]_vars, NEW a \in Assets, Announce(Sweep, a)
      PROVE  clock >= failure[a].at + LeastWait(failure[a].class, failure[a].count)
  <2>1. Sweep \in Workers
    BY DEF Workers
  <2>2. backoff[a].next <= now[Sweep]
    BY <1>1, <2>1, SMT DEF Announce, Attempts, CanAttempt, AnnouncerInv, TypeOK, Entries
  <2>3. now[Sweep] <= clock /\ now[Sweep] \in Nat /\ clock \in Nat
    BY <1>1, <2>1 DEF AnnouncerInv, Clocks, TypeOK
  <2>4. backoff[a].next \in Nat /\ failure[a].at \in Nat /\ failure[a].count \in Nat
    BY <1>1 DEF AnnouncerInv, TypeOK, Entries, Failures
  <2>5. CASE failure[a].class = "ok"
    <3>1. failure[a].at <= clock /\ LeastWait("ok", failure[a].count) = 0
      BY <1>1 DEF FailuresWait, LeastWait
    <3>. QED
      BY <2>3, <2>4, <2>5, <3>1, SMT
  <2>6. CASE failure[a].class # "ok"
    <3>1. failure[a].at + LeastWait(failure[a].class, failure[a].count) <= backoff[a].next
      BY <1>1, <2>6 DEF FailuresWait
    <3>2. LeastWait(failure[a].class, failure[a].count) \in Nat
      <4>1. failure[a].class = "transient" => failure[a].count \in Nat \ {0}
        BY <1>1, <2>4, SMT DEF FailuresWait
      <4>2. failure[a].class = "transient" =>
              LeastDelay(BackoffConfig, failure[a].count) \in Nat
        BY <4>1, ConfigType, LeastDelayType
      <4>3. failure[a].class \in Classes
        BY <1>1 DEF AnnouncerInv, TypeOK, Failures
      <4>. QED
        BY <4>2, <4>3, <2>6, AnnouncerAssumption DEF LeastWait, Classes
    <3>. QED
      BY <2>2, <2>3, <2>4, <3>1, <3>2, SMT
  <2>. QED
    BY <2>5, <2>6
<1>2. AnnouncerInv /\ FailuresWait /\ [Next]_vars =>
        [\A a \in Assets : Announce(Sweep, a) =>
           clock >= failure[a].at + LeastWait(failure[a].class, failure[a].count)]_vars
  BY <1>1
<1>. QED
  BY <1>2, Invariance, FailuresHeld, PTL DEF Spec, BackoffRespected

-----------------------------------------------------------------------------
(* The sweep's work. *)

\* What StepsLeft is at each place, for the finite sets of assets that lists are.
LEMMA StepsLeftAt ==
  ASSUME NEW T \in SUBSET Assets
  PROVE  /\ Cardinality(T) \in Nat /\ Cardinality(T) <= Cardinality(Assets)
         /\ StepsLeft("idle", T) = 0
         /\ StepsLeft("list", T) = 2 * Cardinality(Assets) + 2
         /\ StepsLeft("loop", T) = 2 * Cardinality(T) + 1
         /\ StepsLeft("wait", T) = 2 * Cardinality(T) + 2
         /\ Cardinality(Assets) \in Nat
         /\ \A a \in T : Cardinality(T \ {a}) = Cardinality(T) - 1
<1>1. IsFiniteSet(Assets) /\ IsFiniteSet(T)
  BY AnnouncerAssumption, FS_Subset
<1>2. /\ Cardinality(T) \in Nat /\ Cardinality(Assets) \in Nat
      /\ Cardinality(T) <= Cardinality(Assets)
  BY <1>1, FS_CardinalityType, FS_Subset
<1>3. \A a \in T : Cardinality(T \ {a}) = Cardinality(T) - 1
  BY <1>1, FS_RemoveElement
<1>4. /\ StepsLeft("idle", T) = 0
      /\ StepsLeft("list", T) = 2 * Cardinality(Assets) + 2
      /\ StepsLeft("loop", T) = 2 * Cardinality(T) + 1
      /\ StepsLeft("wait", T) = 2 * Cardinality(T) + 2
  BY DEF StepsLeft
<1>. QED
  BY <1>2, <1>3, <1>4

\* The steps left are a number at every place (RunAnnounceSweep).
LEMMA WorkType ==
  ASSUME NEW T \in SUBSET Assets, NEW p \in {"idle", "list", "now", "loop", "wait"}
  PROVE  StepsLeft(p, T) \in Nat
<1>1. Cardinality(Assets) \in Nat /\ Cardinality(T) \in Nat
  BY StepsLeftAt
<1>2. StepsLeft("now", T) = 0
  BY DEF StepsLeft
<1>3. /\ StepsLeft("idle", T) \in Nat /\ StepsLeft("list", T) \in Nat
      /\ StepsLeft("loop", T) \in Nat /\ StepsLeft("wait", T) \in Nat
  BY <1>1, StepsLeftAt, SMT
<1>. QED
  BY <1>2, <1>3

\* Passing over an asset, or failing to build its announcement, shortens the list.
LEMMA ShorterList ==
  ASSUME TypeOK, NEW a \in todo[Sweep], pc[Sweep] = "loop", UNCHANGED pc,
         todo' = [todo EXCEPT ![Sweep] = @ \ {a}]
  PROVE  SweepWork' < SweepWork
<1>1. /\ todo[Sweep] \in SUBSET Assets /\ pc'[Sweep] = "loop"
      /\ todo'[Sweep] = todo[Sweep] \ {a} /\ todo[Sweep] \ {a} \in SUBSET Assets
  BY DEF TypeOK, Workers
<1>2. /\ Cardinality(todo[Sweep] \ {a}) = Cardinality(todo[Sweep]) - 1
      /\ Cardinality(todo[Sweep]) \in Nat
      /\ StepsLeft("loop", todo[Sweep]) = 2 * Cardinality(todo[Sweep]) + 1
      /\ StepsLeft("loop", todo[Sweep] \ {a}) = 2 * Cardinality(todo[Sweep] \ {a}) + 1
  BY <1>1, StepsLeftAt
<1>3. /\ SweepWork = StepsLeft("loop", todo[Sweep])
      /\ SweepWork' = StepsLeft("loop", todo[Sweep] \ {a})
  BY <1>1 DEF SweepWork, StepsLeft
<1>. QED
  BY <1>2, <1>3, SMT

\* Every step of RunAnnounceSweep leaves it less to do.
LEMMA SweepStepShrinks ==
  ASSUME TypeOK, SweepStep
  PROVE  SweepWork' < SweepWork
<1>. DEFINE T == todo[Sweep]
            T1 == todo'[Sweep]
<1>0. /\ Sweep \in Workers /\ T \in SUBSET Assets /\ {} \in SUBSET Assets
      /\ Active \in SUBSET Assets
  BY DEF TypeOK, Workers, Active
<1>1. /\ SweepWork = StepsLeft(pc[Sweep], T)
      /\ SweepWork' = StepsLeft(pc'[Sweep], T1)
  BY DEF SweepWork, StepsLeft
<1>. HIDE DEF T, T1
<1>2. ASSUME NEW a \in Assets, SweepSkip(a) PROVE SweepWork' < SweepWork
  BY <1>2, ShorterList DEF SweepSkip
<1>3. CASE ListActiveAssetIDs(Sweep)
  <2>1. pc[Sweep] = "list" /\ pc'[Sweep] = "loop" /\ T1 = Active
    BY <1>0, <1>3 DEF ListActiveAssetIDs, TypeOK, T1
  <2>2. /\ StepsLeft("list", T) = 2 * Cardinality(Assets) + 2 /\ Cardinality(Assets) \in Nat
    BY <1>0, StepsLeftAt
  <2>3. /\ StepsLeft("loop", Active) = 2 * Cardinality(Active) + 1
        /\ Cardinality(Active) \in Nat /\ Cardinality(Active) <= Cardinality(Assets)
    BY <1>0, StepsLeftAt
  <2>. QED
    BY <1>1, <2>1, <2>2, <2>3, SMT
<1>4. CASE ListFails(Sweep) \/ Finish(Sweep)
  <2>1. pc[Sweep] \in {"list", "loop"} /\ pc'[Sweep] = "idle" /\ T1 = {}
    BY <1>0, <1>4 DEF ListFails, Finish, Return, TypeOK, T1
  <2>2. /\ StepsLeft("list", T) = 2 * Cardinality(Assets) + 2 /\ Cardinality(Assets) \in Nat
        /\ StepsLeft("loop", T) = 2 * Cardinality(T) + 1 /\ Cardinality(T) \in Nat
    BY <1>0, StepsLeftAt
  <2>3. StepsLeft("idle", {}) = 0
    BY <1>0, StepsLeftAt
  <2>. QED
    BY <1>1, <2>1, <2>2, <2>3, SMT
<1>5. CASE RequestNow(Sweep)
  BY <1>5 DEF RequestNow
<1>6. ASSUME NEW a \in Assets, BuildFails(Sweep, a) PROVE SweepWork' < SweepWork
  BY <1>6, ShorterList DEF BuildFails, Attempts
<1>7. ASSUME NEW a \in Assets, Announce(Sweep, a) PROVE SweepWork' < SweepWork
  <2>1. /\ pc[Sweep] = "loop" /\ pc'[Sweep] = "wait" /\ a \in T /\ T1 = T \ {a}
        /\ T \ {a} \in SUBSET Assets
    BY <1>0, <1>7 DEF Announce, Attempts, TypeOK, T, T1
  <2>2. /\ Cardinality(T \ {a}) = Cardinality(T) - 1 /\ Cardinality(T) \in Nat
        /\ StepsLeft("loop", T) = 2 * Cardinality(T) + 1
    BY <1>0, <2>1, StepsLeftAt
  <2>3. StepsLeft("wait", T \ {a}) = 2 * Cardinality(T \ {a}) + 2
    BY <2>1, StepsLeftAt
  <2>. QED
    BY <1>1, <2>1, <2>2, <2>3, SMT
<1>8. ASSUME NEW a \in Assets, AnnounceCancelled(Sweep, a) PROVE SweepWork' < SweepWork
  BY <1>8 DEF AnnounceCancelled
<1>9. CASE Settle(Sweep)
  <2>1. pc[Sweep] = "wait" /\ pc'[Sweep] = "loop" /\ T1 = T
    BY <1>0, <1>9 DEF Settle, TypeOK, T, T1
  <2>2. /\ StepsLeft("wait", T) = 2 * Cardinality(T) + 2 /\ Cardinality(T) \in Nat
        /\ StepsLeft("loop", T) = 2 * Cardinality(T) + 1
    BY <1>0, StepsLeftAt
  <2>. QED
    BY <1>1, <2>1, <2>2, SMT
<1>. QED
  BY <1>2, <1>3, <1>4, <1>5, <1>6, <1>7, <1>8, <1>9 DEF SweepStep, Proceed

\* No step of anyone else gives the sweep more to do (Rescan, the requests, Catalog).
LEMMA OthersAddNoWork ==
  ASSUME TypeOK, Next, ~SweepStart, ~SweepStep
  PROVE  ~(SweepWork' > SweepWork)
<1>0. Sweep \in Workers /\ todo[Sweep] \in SUBSET Assets
  BY DEF TypeOK, Workers
<1>1. SweepWork \in Nat
  BY <1>0, WorkType DEF TypeOK, SweepWork
<1>2. ASSUME pc'[Sweep] = pc[Sweep], todo'[Sweep] = todo[Sweep]
      PROVE  ~(SweepWork' > SweepWork)
  <2>1. SweepWork' = SweepWork
    BY <1>2 DEF SweepWork, StepsLeft
  <2>. QED
    BY <1>1, <2>1, SMT
<1>3. ASSUME NEW r \in Requests, NEW named \in {{}} \cup {{a} : a \in Assets},
             RequestStart(r, named)
      PROVE  ~(SweepWork' > SweepWork)
  BY <1>0, <1>2, <1>3 DEF RequestStart, TypeOK
<1>4. ASSUME NEW w \in Workers, Proceed(w) PROVE ~(SweepWork' > SweepWork)
  <2>1. w # Sweep
    BY <1>4 DEF SweepStep
  <2>2. CASE ListActiveAssetIDs(w) \/ RequestNow(w) \/ Settle(w)
    BY <1>0, <1>2, <2>1, <2>2 DEF ListActiveAssetIDs, RequestNow, Settle, TypeOK
  <2>3. CASE ListFails(w) \/ Finish(w)
    BY <1>0, <1>2, <2>1, <2>3 DEF ListFails, Finish, Return, TypeOK
  <2>4. ASSUME NEW a \in Assets, BuildFails(w, a) \/ Announce(w, a) \/ AnnounceCancelled(w, a)
        PROVE  ~(SweepWork' > SweepWork)
    BY <1>0, <1>2, <2>1, <2>4 DEF BuildFails, Announce, AnnounceCancelled, TypeOK
  <2>. QED
    BY <1>4, <2>2, <2>3, <2>4 DEF Proceed
<1>5. CASE Crash
  <2>1. pc'[Sweep] = "idle"
    BY <1>0, <1>5 DEF Crash
  <2>2. SweepWork' = 0
    BY <2>1 DEF SweepWork, StepsLeft
  <2>. QED
    BY <1>1, <2>2, SMT
<1>6. ASSUME UNCHANGED <<pc, todo>> PROVE ~(SweepWork' > SweepWork)
  BY <1>2, <1>6
<1>7. CASE Tick \/ CleanupStart \/ MarkExpiredBefore \/ CleanupFails
  BY <1>6, <1>7 DEF Tick, CleanupStart, MarkExpiredBefore, CleanupFails, workerVars
<1>8. ASSUME NEW S \in SUBSET Assets, NEW st \in {"active", "missing"}, Rescan(S, st)
      PROVE  ~(SweepWork' > SweepWork)
  BY <1>6, <1>8 DEF Rescan, workerVars
<1>9. ASSUME NEW c \in wire, NEW status \in Statuses, Catalog(c, status)
      PROVE  ~(SweepWork' > SweepWork)
  BY <1>6, <1>9 DEF Catalog
<1>10. ASSUME NEW w \in Workers, Cancel(w) PROVE ~(SweepWork' > SweepWork)
  BY <1>6, <1>10 DEF Cancel
<1>. QED
  BY <1>3, <1>4, <1>5, <1>7, <1>8, <1>9, <1>10 DEF Next, SweepStep

\* SweepShrinks: the safety half of SweepEnds.  With the fairness of the scheduler and
\* the timeout of the client it is why a sweep ends (RunAnnounceSweep).
THEOREM SweepsShrink == Spec => SweepShrinks
<1>1. TypeOK /\ TypeOK' /\ [Next]_vars =>
        [/\ SweepStep => SweepWork' < SweepWork
         /\ SweepWork' > SweepWork => SweepStart]_vars
  <2>. SUFFICES ASSUME TypeOK, TypeOK', Next
                PROVE  /\ SweepStep => SweepWork' < SweepWork
                       /\ SweepWork' > SweepWork => SweepStart
    OBVIOUS
  <2>1. SweepStep => SweepWork' < SweepWork
    BY SweepStepShrinks
  <2>2. SweepStep => ~(SweepWork' > SweepWork)
    <3>. SUFFICES ASSUME SweepStep PROVE ~(SweepWork' > SweepWork)
      OBVIOUS
    <3>1. SweepWork \in Nat /\ SweepWork' \in Nat
      <4>1. /\ Sweep \in Workers /\ SweepWork = StepsLeft(pc[Sweep], todo[Sweep])
            /\ SweepWork' = StepsLeft(pc'[Sweep], todo'[Sweep])
        BY DEF Workers, SweepWork, StepsLeft
      <4>. QED
        BY <4>1, WorkType DEF TypeOK
    <3>. QED
      BY <2>1, <3>1, SMT
  <2>. QED
    BY <2>1, <2>2, OthersAddNoWork
<1>. QED
  BY <1>1, TypeCorrect, PTL DEF Spec, SweepShrinks
=============================================================================
