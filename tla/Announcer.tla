----------------------------- MODULE Announcer ------------------------------
(***************************************************************************)
(* Announcing assets to the catalog.  Three parties write the SQLite table *)
(* "announcements" with no common lock: the periodic sweep, any number of  *)
(* POST /internal/announce requests, and the periodic cleanup.  Each reads *)
(* the clock once and lists the assets once, then makes HTTP calls that    *)
(* take time, may be answered late, processed after the caller gave up, or *)
(* lost; each ignores errors of its own writes; the process may crash      *)
(* between a call and the write, which also empties the backoff.           *)
(*                                                                         *)
(* Times are in ticks, Second of which make a second: the table and the    *)
(* catalog's protocol hold whole seconds, the process's clock does not.    *)
(***************************************************************************)
EXTENDS Backoff, FiniteSets

CONSTANTS
  Assets, Requests,   \* asset ids; concurrent announce requests
  Sweep,              \* the sweep's goroutine
  NoAsset,
  Second,             \* ticks in a second
  Expires, Threshold, Grace,                          \* configured, in ticks
  Base, MaxDelay, RejectedRetry, UnauthorizedRetry,   \* configured, in ticks
  Statuses,           \* HTTP statuses the catalog answers with
  MaxTime, MaxRescans, MaxFaults, MaxWire, \* bounds: clock, changes of the index,
                                           \* errors and crashes, calls in transit
  Cleanups            \* bound: whether the cleanup runs at all

ASSUME AnnouncerAssumption ==
  /\ IsFiniteSet(Assets)
  /\ Sweep \notin Requests
  /\ NoAsset \notin Assets
  /\ Second \in Nat \ {0}
  /\ {Expires, Threshold, Grace} \subseteq Nat
  /\ {Base, MaxDelay, RejectedRetry, UnauthorizedRetry} \subseteq Nat \ {0}
  /\ Statuses \subseteq Nat
  /\ {MaxTime, MaxRescans, MaxFaults, MaxWire} \subseteq Nat
  /\ Cleanups \in BOOLEAN

Workers == Requests \cup {Sweep}

BackoffConfig == [base |-> Base, max |-> MaxDelay,
                  rejected |-> RejectedRetry, unauthorized |-> UnauthorizedRetry]

VARIABLES
  clock,
  asset,        \* asset[a]: status of its row in "assets", "none" if it has none
  annStatus,    \* annStatus[a]: status of its row in "announcements"
  annExpires,   \* annExpires[a]: its expires_at; 0 is the empty string
  backoff,      \* backoff[a]: entry of the sweep's BackoffState
  pc, todo,     \* todo[w]: listed and not yet dealt with
  now,          \* now[w]: the time w read when it started
  cur,          \* cur[w]: the asset of the call w is waiting for
  reply,        \* reply[w]: status that has reached w, 0 if none has
  ctx,          \* ctx[w]: "done" once w's context is cancelled
  wire,         \* requests on their way to the catalog
  cutoff,       \* cutoff of a cleanup under way, 0 if there is none
  lastErr,      \* HealthState: the last error, if any
  sweptAt, deferred,  \* Status: whether a sweep has ended, and the assets it left deferred
  rescans, faults,
  \* history, read by no action of the system
  accepted,     \* announcements the catalog accepted
  goneAt,       \* goneAt[a]: when a last stopped being active
  failure       \* failure[a]: the sweep's last outcome on a, and how many failures in
                \* a row it makes

tableVars  == <<annStatus, annExpires>>
workerVars == <<pc, todo, now, cur, reply, ctx>>
statusVars == <<lastErr, sweptAt, deferred>>
vars == <<clock, asset, tableVars, backoff, workerVars, wire, cutoff, statusVars,
          rescans, faults, accepted, goneAt, failure>>

\* the rows of "assets", as module AssetIndex provides them
Table == INSTANCE AssetTable WITH status <- asset

-----------------------------------------------------------------------------
\* time.Unix and RFC 3339: whole seconds
Unix(t) == t - (t % Second)

\* mutant: expires_at counts from the moment of the call
BuildAnnouncementLate(w, a) ==
  [asset |-> a, expires |-> Unix(clock + Expires), by |-> w]

\* the request of worker w for a; expires_at is fixed by the time w started
BuildAnnouncement(w, a) ==
  [asset |-> a, expires |-> Unix(now[w] + Expires), by |-> w]

Leases == [asset: Assets, expires: Nat, by: Workers]

\* a call is awaited until its caller has an answer, an error or a timeout
Calls == [lease: Leases, awaited: BOOLEAN]

Active == {a \in Assets : asset[a] = "active"}

Failures == [class: Classes, at: Nat, count: Nat]

NoFailure == [class |-> "ok", at |-> 0, count |-> 0]

needsReannounce(w, a) ==
  \/ annStatus[a] # "ok"
  \/ annExpires[a] = 0
  \/ annExpires[a] < now[w] + Threshold

\* the assets that CountDeferred counts
Deferred(t) == {a \in Assets : backoff[a].next > t}

TypeOK ==
  /\ clock \in Nat
  /\ asset \in [Assets -> {"none", "active", "missing"}]
  /\ annStatus \in [Assets -> {"none", "ok", "rejected", "failed", "expired"}]
  /\ annExpires \in [Assets -> Nat]
  /\ backoff \in [Assets -> Entries]
  /\ pc \in [Workers -> {"idle", "list", "now", "loop", "wait"}]
  /\ todo \in [Workers -> SUBSET Assets]
  /\ now \in [Workers -> Nat]
  /\ cur \in [Workers -> Assets \cup {NoAsset}]
  /\ reply \in [Workers -> Nat]
  /\ ctx \in [Workers -> {"live", "done"}]
  /\ wire \subseteq Calls
  /\ cutoff \in Nat
  /\ lastErr \in BOOLEAN
  /\ sweptAt \in {"zero", "set"}
  /\ deferred \subseteq Assets
  /\ rescans \in Nat
  /\ faults \in Nat
  /\ accepted \subseteq Leases
  /\ goneAt \in [Assets -> Nat]
  /\ failure \in [Assets -> Failures]
\* any time at which the cutoff of a cleanup is not negative
Start == Grace + Second

Init ==
  /\ clock = Start
  /\ Table!Init
  /\ annStatus = [a \in Assets |-> "none"]
  /\ annExpires = [a \in Assets |-> 0]
  /\ backoff = [a \in Assets |-> NoEntry]
  /\ pc = [w \in Workers |-> "idle"]
  /\ todo = [w \in Workers |-> {}]
  /\ now = [w \in Workers |-> 0]
  /\ cur = [w \in Workers |-> NoAsset]
  /\ reply = [w \in Workers |-> 0]
  /\ ctx = [w \in Workers |-> "live"]
  /\ wire = {}
  /\ cutoff = 0
  /\ lastErr = FALSE
  /\ sweptAt = "zero"
  /\ deferred = {}
  /\ rescans = 0
  /\ faults = 0
  /\ accepted = {}
  /\ goneAt = [a \in Assets |-> 0]
  /\ failure = [a \in Assets |-> NoFailure]

-----------------------------------------------------------------------------
(* The environment: time passes, rescans change the index, contexts end. *)

Tick ==
  /\ clock < Start + MaxTime
  /\ clock' = clock + 1
  /\ UNCHANGED <<asset, tableVars, backoff, workerVars, wire, cutoff, statusVars,
                 rescans, faults, accepted, goneAt, failure>>

\* UpsertAssets or MarkMissing of some rescan
Rescan(S, st) ==
  /\ rescans < MaxRescans
  /\ rescans' = rescans + 1
  /\ Table!Change(S, st)
  /\ goneAt' = [a \in Assets |-> IF a \in S /\ st = "missing" THEN clock ELSE goneAt[a]]
  /\ UNCHANGED <<clock, tableVars, backoff, workerVars, wire, cutoff, statusVars,
                 faults, accepted, failure>>

\* shutdown for the sweep, a client that goes away or a shutdown for a request
Cancel(w) ==
  /\ ctx[w] = "live"
  /\ w = Sweep \/ pc[w] # "idle"
  /\ faults < MaxFaults
  /\ faults' = faults + 1
  /\ ctx' = [ctx EXCEPT ![w] = "done"]
  /\ UNCHANGED <<clock, asset, tableVars, backoff, pc, todo, now, cur, reply, wire,
                 cutoff, statusVars, rescans, accepted, goneAt, failure>>

\* the catalog handles a call, whether or not its caller still waits
Catalog(c, status) ==
  /\ wire' = wire \ {c}
  /\ accepted' = IF AnnounceError(status) = "nil" THEN accepted \cup {c.lease} ELSE accepted
  /\ reply' = IF c.awaited THEN [reply EXCEPT ![c.lease.by] = status] ELSE reply
  /\ UNCHANGED <<clock, asset, tableVars, backoff, pc, todo, now, cur, ctx, cutoff,
                 statusVars, rescans, faults, goneAt, failure>>

-----------------------------------------------------------------------------
(* Writes to "announcements". *)

\* A write may fail: the context is done, the foreign key has no asset row (on
\* a connection that enforces it), or the database is busy.  No caller looks.
WriteFails(w, a) ==
  /\ \/ (ctx[w] = "done" \/ asset[a] = "none") /\ UNCHANGED faults
     \/ faults < MaxFaults /\ faults' = faults + 1
  /\ UNCHANGED tableVars

UpsertAnnouncementStatus(w, a, expires, status) ==
  /\ ctx[w] = "live"
  /\ annStatus' = [annStatus EXCEPT ![a] = status]
  /\ annExpires' = [annExpires EXCEPT ![a] = expires]

\* mutant: a call that ended without a verdict is taken for a success
RowStatusOptimistic(err) ==
  CASE err \in {"nil", "other"} -> "ok"
    [] err = "ErrNotFound" -> "rejected"
    [] OTHER -> "failed"

\* what the table says of a call that ended with err
RowStatus(err) ==
  CASE err = "nil" -> "ok"
    [] err = "ErrNotFound" -> "rejected"
    [] OTHER -> "failed"

\* what the worker does with an outcome besides writing the row: the sweep
\* records it in its backoff, a request in the catalog health
Outcome(w, a, class) ==
  \/ /\ w = Sweep
     /\ \E e \in Record(BackoffConfig, backoff[a], class, now[w]) :
          /\ backoff' = [backoff EXCEPT ![a] = e]
          /\ failure' = [failure EXCEPT
                           ![a] = [class |-> class, at |-> now[w],
                                   count |-> IF class \in Counted THEN @.count + 1 ELSE 0]]
     /\ UNCHANGED lastErr
  \/ /\ w # Sweep
     /\ lastErr' = (class # "ok")
     /\ UNCHANGED <<backoff, failure>>

-----------------------------------------------------------------------------
(* A worker: RunAnnounceSweep, or the announce handler. *)

\* the sweep reads the clock first and lists the active assets next
SweepStart ==
  /\ pc[Sweep] = "idle"
  /\ pc' = [pc EXCEPT ![Sweep] = "list"]
  /\ now' = [now EXCEPT ![Sweep] = clock]
  /\ UNCHANGED <<clock, asset, tableVars, backoff, todo, cur, reply, ctx, wire, cutoff,
                 statusVars, rescans, faults, accepted, goneAt, failure>>

\* a request names one asset, known or not, or means all active ones
RequestStart(r, named) ==
  /\ r # Sweep
  /\ pc[r] = "idle"
  /\ pc' = [pc EXCEPT ![r] = IF named = {} THEN "list" ELSE "now"]
  /\ todo' = [todo EXCEPT ![r] = named]
  /\ UNCHANGED <<clock, asset, tableVars, backoff, now, cur, reply, ctx, wire, cutoff,
                 statusVars, rescans, faults, accepted, goneAt, failure>>

ListActiveAssetIDs(w) ==
  /\ pc[w] = "list"
  /\ ctx[w] = "live"
  /\ todo' = [todo EXCEPT ![w] = Active]
  /\ pc' = [pc EXCEPT ![w] = IF w = Sweep THEN "loop" ELSE "now"]
  /\ UNCHANGED <<clock, asset, tableVars, backoff, now, cur, reply, ctx, wire, cutoff,
                 statusVars, rescans, faults, accepted, goneAt, failure>>

RequestNow(r) ==
  /\ r # Sweep
  /\ pc[r] = "now"
  /\ now' = [now EXCEPT ![r] = clock]
  /\ pc' = [pc EXCEPT ![r] = "loop"]
  /\ UNCHANGED <<clock, asset, tableVars, backoff, todo, cur, reply, ctx, wire, cutoff,
                 statusVars, rescans, faults, accepted, goneAt, failure>>

\* a request's context ends with it; the sweep's is that of the process
Return(w) ==
  /\ pc' = [pc EXCEPT ![w] = "idle"]
  /\ todo' = [todo EXCEPT ![w] = {}]
  /\ now' = [now EXCEPT ![w] = 0]
  /\ ctx' = [ctx EXCEPT ![w] = IF w = Sweep THEN @ ELSE "live"]
  /\ UNCHANGED <<cur, reply>>

ListFails(w) ==
  /\ pc[w] = "list"
  /\ \/ ctx[w] = "done" /\ UNCHANGED faults
     \/ faults < MaxFaults /\ faults' = faults + 1
  /\ Return(w)
  /\ UNCHANGED <<clock, asset, tableVars, backoff, wire, cutoff, statusVars, rescans,
                 accepted, goneAt, failure>>
\* the sweep passes over an asset whose row it cannot read, whose announcement
\* lasts beyond the threshold, or which must wait
SweepSkip(a) ==
  /\ pc[Sweep] = "loop"
  /\ a \in todo[Sweep]
  /\ \/ /\ \/ ctx[Sweep] = "done"
           \/ ~needsReannounce(Sweep, a)
           \/ ~CanAttempt(backoff[a], now[Sweep])
        /\ UNCHANGED faults
     \/ faults < MaxFaults /\ faults' = faults + 1
  /\ todo' = [todo EXCEPT ![Sweep] = @ \ {a}]
  /\ UNCHANGED <<clock, asset, tableVars, backoff, pc, now, cur, reply, ctx, wire, cutoff,
                 statusVars, rescans, accepted, goneAt, failure>>

\* a is next, and the sweep has found that it needs and may have a call
Attempts(w, a) ==
  /\ pc[w] = "loop"
  /\ a \in todo[w]
  /\ w = Sweep => /\ ctx[w] = "live"
                  /\ needsReannounce(w, a)
                  /\ CanAttempt(backoff[a], now[w])

\* no nonce or no signature: the row loses its expiry
BuildFails(w, a) ==
  /\ Attempts(w, a)
  /\ faults < MaxFaults
  /\ faults' = faults + 1
  /\ UpsertAnnouncementStatus(w, a, 0, "failed") \/ UNCHANGED tableVars
  /\ Outcome(w, a, "permanent")
  /\ todo' = [todo EXCEPT ![w] = @ \ {a}]
  /\ UNCHANGED <<clock, asset, pc, now, cur, reply, ctx, wire, cutoff, sweptAt, deferred,
                 rescans, accepted, goneAt>>

Announce(w, a) ==
  /\ Attempts(w, a)
  /\ ctx[w] = "live"
  /\ Cardinality(wire) < MaxWire
  /\ wire' = wire \cup {[lease |-> BuildAnnouncement(w, a), awaited |-> TRUE]}
  /\ pc' = [pc EXCEPT ![w] = "wait"]
  /\ cur' = [cur EXCEPT ![w] = a]
  /\ todo' = [todo EXCEPT ![w] = @ \ {a}]
  /\ UNCHANGED <<clock, asset, tableVars, backoff, now, reply, ctx, cutoff, statusVars,
                 rescans, faults, accepted, goneAt, failure>>

\* with its context done a request sends and writes nothing, but notes the error
AnnounceCancelled(r, a) ==
  /\ r # Sweep
  /\ Attempts(r, a)
  /\ ctx[r] = "done"
  /\ todo' = [todo EXCEPT ![r] = @ \ {a}]
  /\ lastErr' = TRUE
  /\ UNCHANGED <<clock, asset, tableVars, backoff, pc, now, cur, reply, ctx, wire, cutoff,
                 sweptAt, deferred, rescans, faults, accepted, goneAt, failure>>

\* calls nobody waits for any more may still reach the catalog, or not
Abandoned(W) ==
  LET mine == {c \in wire : c.awaited /\ c.lease.by \in W}
  IN  \/ wire' = wire \ mine
      \/ wire' = (wire \ mine) \cup {[c EXCEPT !.awaited = FALSE] : c \in mine}

\* mutant: no timeout, the caller waits for an answer
SettleAnswered(w) ==
  /\ pc[w] = "wait"
  /\ reply[w] # 0
  /\ UpsertAnnouncementStatus(w, cur[w], BuildAnnouncement(w, cur[w]).expires,
                              RowStatus(AnnounceError(reply[w])))
  /\ Outcome(w, cur[w], ClassifyError(AnnounceError(reply[w])))
  /\ Abandoned({w})
  /\ pc' = [pc EXCEPT ![w] = "loop"]
  /\ cur' = [cur EXCEPT ![w] = NoAsset]
  /\ reply' = [reply EXCEPT ![w] = 0]
  /\ UNCHANGED <<clock, asset, todo, now, ctx, cutoff, sweptAt, deferred, rescans, faults,
                 accepted, goneAt>>

\* Announce returns: the catalog's verdict, or an error of any other kind
\* (timeout, connection, undecodable reply), which may come after a verdict
Settle(w) ==
  /\ pc[w] = "wait"
  /\ \E err \in {"other"} \cup (IF reply[w] = 0 THEN {} ELSE {AnnounceError(reply[w])}) :
       /\ \/ /\ UpsertAnnouncementStatus(w, cur[w], BuildAnnouncement(w, cur[w]).expires,
                                          RowStatus(err))
             /\ UNCHANGED faults
          \/ WriteFails(w, cur[w])
       /\ Outcome(w, cur[w], ClassifyError(err))
  /\ Abandoned({w})
  /\ pc' = [pc EXCEPT ![w] = "loop"]
  /\ cur' = [cur EXCEPT ![w] = NoAsset]
  /\ reply' = [reply EXCEPT ![w] = 0]
  /\ UNCHANGED <<clock, asset, todo, now, ctx, cutoff, sweptAt, deferred, rescans,
                 accepted, goneAt>>

\* the loop is done; the sweep publishes its status
Finish(w) ==
  /\ pc[w] = "loop"
  /\ todo[w] = {}
  /\ Return(w)
  /\ \/ w = Sweep /\ sweptAt' = "set" /\ deferred' = Deferred(clock)
     \/ w # Sweep /\ UNCHANGED <<sweptAt, deferred>>
  /\ UNCHANGED <<clock, asset, tableVars, backoff, wire, cutoff, lastErr, rescans, faults,
                 accepted, goneAt, failure>>

-----------------------------------------------------------------------------
(* The cleanup, and a crash. *)

\* mutant: the grace period is added to the time, not taken off
CleanupStartSwapped ==
  /\ Cleanups
  /\ cutoff = 0
  /\ cutoff' = Unix(clock + Grace)
  /\ UNCHANGED <<clock, asset, tableVars, backoff, workerVars, wire, statusVars, rescans,
                 faults, accepted, goneAt, failure>>

CleanupStart ==
  /\ Cleanups
  /\ cutoff = 0
  /\ cutoff' = Unix(clock - Grace)
  /\ UNCHANGED <<clock, asset, tableVars, backoff, workerVars, wire, statusVars, rescans,
                 faults, accepted, goneAt, failure>>

MarkExpiredBefore ==
  /\ cutoff # 0
  /\ cutoff' = 0
  /\ annStatus' = [a \in Assets |-> IF /\ annStatus[a] \notin {"none", "expired"}
                                       /\ annExpires[a] # 0
                                       /\ annExpires[a] < cutoff
                                      THEN "expired" ELSE annStatus[a]]
  /\ UNCHANGED <<clock, asset, annExpires, backoff, workerVars, wire, statusVars, rescans,
                 faults, accepted, goneAt, failure>>

\* the UPDATE fails, or the job's context is done
CleanupFails ==
  /\ cutoff # 0
  /\ cutoff' = 0
  /\ \/ ctx[Sweep] = "done" /\ UNCHANGED faults
     \/ faults < MaxFaults /\ faults' = faults + 1
  /\ UNCHANGED <<clock, asset, tableVars, backoff, workerVars, wire, statusVars, rescans,
                 accepted, goneAt, failure>>

\* only the database survives, and what is on the wire
Crash ==
  /\ faults < MaxFaults
  /\ faults' = faults + 1
  /\ backoff' = [a \in Assets |-> NoEntry]
  /\ pc' = [w \in Workers |-> "idle"]
  /\ todo' = [w \in Workers |-> {}]
  /\ now' = [w \in Workers |-> 0]
  /\ cur' = [w \in Workers |-> NoAsset]
  /\ reply' = [w \in Workers |-> 0]
  /\ ctx' = [w \in Workers |-> "live"]
  /\ Abandoned(Workers)
  /\ cutoff' = 0
  /\ lastErr' = FALSE
  /\ sweptAt' = "zero"
  /\ deferred' = {}
  /\ failure' = [a \in Assets |-> NoFailure]
  /\ UNCHANGED <<clock, asset, tableVars, rescans, accepted, goneAt>>

-----------------------------------------------------------------------------
\* what a worker does of its own accord once it has started
Proceed(w) ==
  \/ ListActiveAssetIDs(w) \/ ListFails(w)
  \/ RequestNow(w)
  \/ \E a \in Assets : BuildFails(w, a) \/ Announce(w, a) \/ AnnounceCancelled(w, a)
  \/ Settle(w)
  \/ Finish(w)

Next ==
  \/ Tick
  \/ \E S \in SUBSET Assets, st \in {"active", "missing"} : Rescan(S, st)
  \/ \E c \in wire, status \in Statuses : Catalog(c, status)
  \/ SweepStart
  \/ \E a \in Assets : SweepSkip(a)
  \/ \E r \in Requests, named \in {{}} \cup {{a} : a \in Assets} : RequestStart(r, named)
  \/ \E w \in Workers : Proceed(w) \/ Cancel(w)
  \/ CleanupStart
  \/ MarkExpiredBefore
  \/ CleanupFails
  \/ Crash

Spec == Init /\ [][Next]_vars

SweepStep == Proceed(Sweep) \/ \E a \in Assets : SweepSkip(a)

\* Goroutines that can run do run; a call without an answer ends with the HTTP
\* client's timeout.  The catalog owes nothing.
Fairness ==
  /\ \A r \in Requests : WF_vars(Proceed(r))
  /\ WF_vars(SweepStep)

FairSpec == Spec /\ Fairness

-----------------------------------------------------------------------------
\* OkRowAccepted.  A row that says "ok" records an announcement the catalog did
\* accept, with exactly the expiry it was given, whoever wrote the row last and
\* whatever was lost, late, repeated or cut short by a crash
\* (UpsertAnnouncementStatus after Announce, in the sweep and in the handler).
OkRowAccepted ==
  \A a \in Assets : annStatus[a] = "ok" =>
    \E l \in accepted : l.asset = a /\ l.expires = annExpires[a]

\* MissingLeaseLapses.  Once an asset is missing, no announcement the sweep made
\* for it, not even one from a list read before or one still on the wire, lasts
\* longer than Expires from the moment it went missing (RunAnnounceSweep reads
\* the clock before it lists the active assets).
MissingLeaseLapses ==
  \A l \in accepted \cup {c.lease : c \in wire} :
    (l.by = Sweep /\ asset[l.asset] = "missing") => l.expires <= goneAt[l.asset] + Expires

LongestWait ==
  CHOOSE d \in {MaxDelay, RejectedRetry, UnauthorizedRetry} :
    \A e \in {MaxDelay, RejectedRetry, UnauthorizedRetry} : e <= d

\* DeferralBounded.  No asset is ever put off for longer than the longest
\* configured wait, counted from the present, whatever the number of failures
\* and however late their answers come (BackoffState.Record).
DeferralBounded == \A a \in Assets : backoff[a].next <= clock + LongestWait

\* least time the sweep owes the catalog after an error
LeastWait(class, failCount) ==
  CASE class = "ok" -> 0
    [] class = "rejected" -> RejectedRetry
    [] class = "unauthorized" -> UnauthorizedRetry
    [] class = "permanent" -> MaxDelay
    [] OTHER -> LeastDelay(BackoffConfig, failCount)

\* BackoffRespected.  The sweep calls the catalog for an asset only after the
\* wait that its last failure earned, counted from the start of the sweep that
\* failed: not found, unauthorized, permanent, or doubled with every failure in
\* a row (CanAttempt against Record).
BackoffRespected ==
  [][\A a \in Assets : Announce(Sweep, a) =>
       clock >= failure[a].at + LeastWait(failure[a].class, failure[a].count)]_vars

\* ExpiredAfterGrace.  Cleanup marks a row expired only when its expiry lies more
\* than the grace period in the past, also when the row was renewed between the
\* choice of the cutoff and the UPDATE; a row without an expiry is never marked
\* (RunCleanupJob, MarkExpiredBefore).
ExpiredAfterGrace ==
  [][\A a \in Assets : (annStatus[a] # "expired" /\ annStatus'[a] = "expired") =>
       annExpires[a] # 0 /\ annExpires[a] + Grace < clock]_vars

\* SweepEnds.  Every sweep ends, even if the catalog never answers and every write
\* fails (RunAnnounceSweep with the client's timeout), so the next one can start.
SweepEnds == pc[Sweep] # "idle" ~> pc[Sweep] = "idle"

\* the steps at most left to a sweep that is at p with the assets of T to go
StepsLeft(p, T) ==
  CASE p = "list" -> 2 * Cardinality(Assets) + 2
    [] p = "loop" -> 2 * Cardinality(T) + 1
    [] p = "wait" -> 2 * Cardinality(T) + 2
    [] OTHER -> 0

SweepWork == StepsLeft(pc[Sweep], todo[Sweep])

\* SweepShrinks.  Each step of a sweep leaves it less to do, and nothing that others
\* do in the meantime (rescans, requests, the catalog, the clock, the cleanup) gives
\* it more: it takes two steps at most for each asset, with one call at most among
\* them, whatever fails (RunAnnounceSweep lists the assets once).
SweepShrinks ==
  [][/\ SweepStep => SweepWork' < SweepWork
     /\ SweepWork' > SweepWork => SweepStart]_vars
-----------------------------------------------------------------------------
(* The parts of the inductive invariant behind the properties above. *)

\* nobody's time is ahead of the clock, and a cutoff is at least Grace behind it
Clocks ==
  /\ clock >= Start
  /\ \A w \in Workers : now[w] <= clock
  /\ cutoff # 0 => cutoff + Grace <= clock

\* an awaited call is the one its worker waits for
CallsMatch ==
  \A c \in wire : c.awaited =>
    /\ pc[c.lease.by] = "wait"
    /\ c.lease = BuildAnnouncement(c.lease.by, cur[c.lease.by])

\* only a waiting worker has a reply, and a good one means an accepted lease
RepliesHonest ==
  \A w \in Workers : reply[w] # 0 =>
    /\ pc[w] = "wait"
    /\ AnnounceError(reply[w]) = "nil" => BuildAnnouncement(w, cur[w]) \in accepted

WaitsForAsset == \A w \in Workers : pc[w] = "wait" => cur[w] \in Assets

AllLeases == accepted \cup {c.lease : c \in wire}

LeasesBounded == \A l \in AllLeases : l.expires <= clock + Expires

\* an asset on the sweep's list went missing, if at all, after the sweep began
ListCurrent ==
  /\ pc[Sweep] \in {"idle", "list"} => todo[Sweep] = {}
  /\ \A a \in todo[Sweep] : asset[a] = "missing" => now[Sweep] <= goneAt[a]

\* FailuresWait.  What the backoff holds of an asset is no less than what the
\* sweep's failures on it have earned, and counts the same failures (Record).
FailuresWait ==
  \A a \in Assets :
    LET f == failure[a] IN
    /\ f.count = backoff[a].failCount
    /\ f.class = "transient" => f.count > 0
    /\ f.at <= clock
    /\ f.class # "ok" => f.at + LeastWait(f.class, f.count) <= backoff[a].next

\* AnnouncerInv.  The inductive invariant: what each worker of RunAnnounceSweep or
\* the announce handler remembers is still true of the clock, the wire and the
\* catalog when it acts on it.
AnnouncerInv ==
  /\ TypeOK
  /\ Clocks
  /\ CallsMatch
  /\ RepliesHonest
  /\ WaitsForAsset
  /\ LeasesBounded
  /\ ListCurrent
  /\ OkRowAccepted
  /\ MissingLeaseLapses
  /\ DeferralBounded
=============================================================================
