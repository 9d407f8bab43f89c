# A TLA+ model of audistro-provider

audistro-provider serves HLS assets (playlists and segments) from a directory
or from an origin behind it, keeps an index of them in SQLite, and announces
them to a catalog so that players find them.  This directory holds a model of
its stateful parts in TLA+, the TLC configurations that check it on small
instances, and TLAPS proofs of the main safety properties for every instance.

## 1. The system

| part | state | operations | met by |
|---|---|---|---|
| asset index: `scanner`, `repository/assets_repo.go`, `jobs/rescan_job.go`, `internalapi/rescan_handler.go` | table `assets`, gauges, job status | `Scan`, `UpsertAssets`, `MarkMissing`, `CountActive`, `CountMissing` | a tree that changes while it is read; overlapping rescans of the job and of requests; errors and crashes between two transactions |
| announcements: `jobs/announce_sweep.go`, `internalapi/announce_handler.go`, `jobs/cleanup_job.go`, `repository/announcements_repo.go`, `catalog` | table `announcements`, backoff entries, catalog health, leases at the catalog | `RunAnnounceSweep`, `POST /internal/announce`, `RunCleanupJob` | lost and late answers, two writers of a row, values read long before they are used, restarts |
| backoff: `jobs/backoff.go` | fail count and next attempt per asset | `Record`, `CanAttempt`, `NextAttempt`, `CountDeferred` | classes of errors in any order, delays at their limits |
| asset serving: `assets/handler.go`, `fssecure`, `proxyguard`, `httpserver` middleware | semaphore, counters and gauges, open files, response in progress | local file, proxy, hybrid fallback, byte limit, panic recovery | cancellation and panics at any point, files replaced while being opened, bodies cut short |
| rate limiter: `assets/ratelimit.go` | token buckets | `allow` | times read before the lock, hence out of order |
| identity: `identity` | identity file | `LoadOrCreate`, `Load`, `Save` | kills, power loss, a second process |
| settings: `config`, `envcheck`, and the constructors `NewIPAllowlistMiddleware`, `ParseAllowedOrigins`, `NewSemaphore`, `initProxy`, `NewClient`, `NewBackoffState` | the configuration | `Load`, `Validate`, and each component's own reading | two parsers of one setting, defaults that depend on others, values of every kind |
| database: `db/db.go` | database file, its lock and transactions | `Open`, `Migrate` | a failure or a kill between two statements, a second process, a newer or half-made schema |
| startup and readiness: `main.go`, `health/readyz.go`, `fssecure` audit, `catalog/healthstate.go` | where main is, the signer, the last catalog error, the answer of `/readyz` | main up to the server, `readinessChecker` | a secret or a directory that changes after it was checked, restarts |
| lifecycle: `main.go`, `jobs/runner.go` | goroutines, channels, exit status | serve, `runPeriodic`, signal, drain, exit | signals and failures at any time, ticks after cancellation, requests that never end |
| `validate.go`, `originauth`, `openapi_validation.go`, `apidocs.go`, `health/handler.go`, `metrics`, `logging`, `buildinfo` | none that changes, or counters | predicates, headers, read-only pages | |

The parts meet in three places.  The table `assets` is written by rescans and
read by the sweep.  `AssetTable` is the contract between the two: `AssetIndex`
implements it (theorem ProvidesTable), and the environment of `Announcer` makes
any change that it allows, so what holds there holds of the two together.  All
parts are made from one configuration: `Startup` composes `Settings` and
`Migration` into the order in which main runs them, and its properties are the
assumptions of the other modules (a limit and a rate above zero, positive delays,
a semaphore with slots, the two tables with their columns).  And all of them live
in the process that `Startup` starts and `Lifecycle` stops.

## 2. Modules

Each component has a module `X`, an `MCX` that instantiates it for TLC, and,
for eight of them, an `XProofs` with the theorems.  Operators named as a mutant
in their comment are wrong versions of the operator that follows them; each
one shows that some property notices that mistake.  `Upgrade`, `AtomicFile` and
`AssetTable` are abstract specifications that `Startup`, `IdentityStore` and
`AssetIndex` are shown to implement.

**AssetIndex.**  A rescan is `StartScan` (list the root), for each directory
`LstatAssetDir`, `ReadAssetDir` and one `Info` for each listed file, then
`UpsertAssets`, `MarkMissing` and the counts; the job then sets its gauges one by
one.  The tree changes between any two steps (`Tree`), any step may fail, and any
rescan may be killed.  Under an asset's name there is nothing, a directory, a link
to one, a link to nowhere or a file (`entry`).  The listing of the root and Lstat
pass over links, but ReadDir follows one: a directory that is replaced by a link
after Lstat is read, and indexed, through the link.  `checked` is the directory in
that window, and the history `sawLinked` the assets that were links to something
playable while they were in it.  Size and modification time are one stamp; the
content hash is a function of the stamps; "segment" stands for every playable file;
directories are visited in any order.  The history variables `startedAt`, `sawFit`,
`sawUnfit`, `sawLinked`, `clean` and `fresh` are read by no action of the system.

**AssetTable** has the status of each row and two kinds of step: some rows that
were not active become active, or some that were become missing.

**Backoff** holds the pure operators of `backoff.go`, and the schedule they are
meant to keep in closed form (`LeastDelay`).  `Delays` is the loop of
`NextAttempt`; its `break` is the branch that stays at the maximum.  Durations are
natural numbers: that `delay *= 2` wraps for a maximum above 2^62 nanoseconds (146
years) is left out.  **Retries**
is the entry of one asset under every sequence of outcomes, recorded with times
in any order; its history (`last`, `recorded`, `streak`) is kept apart from what
the code counts.

**Announcer** has one worker for the
sweep and one for each concurrent announce request.  A worker lists, reads the
row, decides, sends, and then takes an answer, a timeout or nothing; the wire
keeps announcements that the catalog may accept at any later time.  Time is a
clock that may advance at any step.  `Second` is the resolution of the
announced Unix time: `BuildAnnouncement` rounds down as the code does.
Cleanup computes its cutoff and later runs the UPDATE.  Restart loses the
workers and the backoff, not the rows.  `deferred` is the set of assets whose
number `CountDeferred` returns.  The history `failure` counts the sweep's failures
in a row by itself, so that `FailuresWait` can compare it with the backoff's count.

**AssetServer** follows a request through `TryServeLocal` (Lstat, Open, Stat,
ServeContent), `ServeProxy` (Acquire, Sign, the origin's headers, a body read
chunk by chunk) and the middleware.  The limit reader is modelled with its
counters and with the width of `int64` where one more than the limit can wrap.
A copy error is the panic of the reverse proxy; `Recover` turns it into the
end of the response and a logged 500.  The text of that error, which `http.Error`
appends to a body that has begun, is not counted in `sent`: the bytes of the body
that were written to the response, whether or not the client has them.
"unreadable" stands for a permission error of Lstat or of Open; `LookFails` is any
other error of Lstat, Open or Stat (no descriptors left, an I/O error), which is
answered 500 and never sent upstream.  `signer`, chosen at the start, says whether requests
to the origin are signed: not at all, with a secret, or through the nil pointer
that main passes without one, on which `Sign` panics.

**RateLimit** separates reading the clock from entering the lock.  Tokens are
integers in units of `1/Second`; the rounding of floating point is left out.

**IdentityStore** has one process counter per process.  `file` is what a
process sees, `durable` what survives a power loss: `Flush` copies one to the
other at a moment the program does not choose, since it does not sync the
directory.  An identity is the number it was generated as.  A temporary file
left behind by a kill is never read and is left out.  The history variable
`beside` holds the processes started while another one was running: what is
promised to a process alone is promised as long as it is empty.
**AtomicFile** is what `Save` promises: a file that changes from one whole
identity to another in one step, and that a power loss sets back to a value it
had.  The instance `Atomic` maps `file` and `durable` to themselves.

**Settings** has no state: `Load`, `envcheckValidate` and `ValidateConfig` are
operators on an environment, followed by what each constructor makes of the
configuration on its own (`HasProxy`, `HasCatalogClient`, `ParsedNetworks`,
`NewBackoffState` and so on), and `Usable` says what the components need.  A
string is a word with its treatment (`" Proxy"`, `"HMAC"` and `" prod"` are there
because the code lowers and trims, and `envcheck` only trims), a list is the sequence of its parts, an address is a model
value and a network the set of its addresses.  Settings that are only passed on
are left out.  Products of seconds and units are not wrapped to 64 bits:
one that wraps is either positive or takes the default, which is all that `Usable`
asks of it.

**Migration** is `Open` and `Migrate` by several processes on one file.  The
transaction is deferred, as `BeginTx` makes it: it reads the file at its first
statement and takes the lock at its first write, which fails as busy if another
process holds the lock or has committed since.  `work` is the database as the
transaction sees it, and rolling back forgets it.  **Upgrade** is what it
implements: one step from an old schema to the present one, with its rows, and
no step for an unknown version.

**Startup** is main up to the server, with `/readyz`: the environment check,
`Validate`, which creates the directories and reads the secret, the identity (its
file is `IdentityStore`'s), the second reading of the secret, the database, the
first scan, of which only the root matters here (made again if it is gone), and the
catalog.  A schema is its version, its tables and the columns that `Migrate` may
add to `announcements`; `CREATE TABLE IF NOT EXISTS` leaves the columns of an
existing table `assets` as they are, and so does the model, which does not know
them.  The secret and the
assets path may change at any moment.  A process that exits is started again.

**Lifecycle** has `main`, the server's goroutine and one goroutine for each
job.  Jobs and requests only hold the database here.  A request comes on an accepted
connection, also after `Shutdown` has begun or the server has failed; `Shutdown`
returns when no connection is left, which is what net/http documents (the instant
in which it takes a connection for idle whose next request is just being read is
not modelled).  The two channels
`errCh` and `sigCh`, the ticker channels and the random choice of `select` are
kept.  A signal before `Notify` kills the process.

## 3. What the runs check

All passing runs explore their instance completely.

| run | checks | size and why it is enough |
|---|---|---|
| AssetIndex_rescan | IInv, FreshIndexExact, NeverDroppedWhileFit, NeverAddedUnlooked, EventuallyIndexed, GaugesSettle | 1 asset, playlist, segment and symlink, job and request, a tree to start from with nothing, a file, a link, or a directory with a playlist and with or without a segment (`Contents`) under the name, 1 change after that (`MaxChanges` counts the first tree), 1 fault: a file can vanish or appear between the listing and its Info, and the directory become a link, with other files, before or after Lstat, in one rescan while the other has finished.  The safety properties speak of each asset by itself, and the proofs are for any number of them; that one unreadable directory holds up the index of all the others is not to be seen with one asset |
| Backoff | BackoffSchedule, NeverRetriesSooner | base up to 6, maximum up to 24, 7 failures in a row: the clamp is reached from below, exactly and from above |
| Announcer_sweep | MissingLeaseLapses, DeferralBounded, BackoffRespected, ExpiredAfterGrace | 1 asset, 4 ticks of half a second, 2 rescans, 1 fault, 2 announcements on the wire, answers 200, 404, 503, with the cleanup: a lease of 2 ticks, announced from the first tick, expires at tick 1 in whole seconds, and the cutoff of a cleanup with a grace of 1 passes it at tick 4; the row can then be marked expired, or renewed between the cutoff and the UPDATE |
| Announcer_race | AnnouncerInv, OkRowAccepted, SweepEnds | sweep and one request for 1 asset, 1 fault, up to 6 announcements on the wire, one tick between any two steps: both writers hold answers and times of different age |
| AssetServer_hybrid | ServerInv, LimitRespected, LoggedOkIsWhole, SteadyFileServed | 2 requests for 1 slot, limit 1, bodies of 0 to 2 in reads of 1 or 2, a file replaced once, 1 fault |
| AssetServer_proxy | UpstreamBounded, CountedOrFailed, GoneClientReleases | 2 requests for 1 slot, unsigned or with a signer that panics, an origin that may stall, 1 fault |
| RateLimit | LimiterInv, RateBounded, NotRefusedAfterPause | 3 requests, 2 per second, burst 2, two seconds of three ticks: all orders of three readings of the clock |
| IdentityStore_faults | IdentityKept, StoreInv, AtomicSave, ComesUp | 2 processes, 2 faults, 1 power loss: a start can fail, fail again, and lose its file |
| Startup | AcceptedIsUsable, ReadyMeansSigned, ServesMigrated, AtomicUpgrade, ComesToServe | 2 processes, 1 fault; environments that vary each group of settings (internal endpoints, origin, secret, catalog, CORS, numbers, paths, environment names) around the defaults, and databases that are new, current, newer, without some columns, or half made by an older program: every check of `Validate` both passes and fails, and each process can be stopped anywhere in the transaction while the other one waits for the lock |
| Lifecycle | LifecycleInv, DbOutlivesUsers, CleanExit, ShutdownEnds, FailureEnds, JobsKeepRunning | 3 jobs or none, 2 connections with any number of requests, 3 signals: before `Notify`, during the select and after it |

Two more runs show that the code does not do what a text of the repository
says; each checks the text's statement and ends with a counterexample.

* **AssetServer_oversize**: a segment over the limit and without a length is
  answered 200 and cut off, not 413 "Segment too large", although the client stays
  and the reader of the body has found it too large.
* **IdentityStore_power**: after a power loss the identity can be generated a
  second time ("otherwise generated once").

`NeverAddedUnlooked` is weaker than a reader of the scanner might hope: links are
kept out of the index but for the window between Lstat and ReadDir.  No text of the
repository promises more, the next rescan drops such an asset (`FreshIndexExact`,
`EventuallyIndexed`), and `OpenFileNoSymlinks` looks again when a file is served.

Two smaller disagreements were met on the way.  A proxied request whose copy fails ends
in a panic that skips `ObserveProxy`, so it is in neither metric of "Total
proxied asset requests by result and status"; `CountedOrFailed` says what does
hold of it.  And a request cancelled before it asks for a slot is counted as
"rejected due to upstream concurrency saturation" with every slot free.
The settings have two of the kind: the README's defaults for
`PROVIDER_INTERNAL_ENABLE` and `PROVIDER_INTERNAL_ALLOWED_CIDRS` are those of the
environment "dev" only, and with "test" and nothing else set `Validate` refuses to
start; and `/readyz` does not look at the catalog, which the README's advice on
an unhealthy `/readyz` mentions.

### Bounds

`MaxChanges`, `MaxRescans`, `MaxFaults`, `MaxPowerLosses`, `MaxSignals`,
`MaxFiles` bound what the environment does; `MaxTime`, `MaxClock` bound clocks;
`MaxWire` bounds announcements under way; `Contents` bounds what a directory holds
when it appears; `MaxBody`, `MaxStreak`, `MaxBase`,
`MaxMax` bound data.  The theorems hold for every value of them.
`Announcer_sweep` uses a VIEW that leaves out the variables which are only ever
written (`lastErr`, `sweptAt`, `deferred`).

### Fairness

* AssetIndex: a rescan under way takes its next step, and the job starts again
  (`runPeriodic`'s ticker).  Requests need not come.
* Announcer: a worker under way takes its next step; a call to the catalog ends
  because the HTTP client has a timeout.  The catalog owes nothing.
* AssetServer: a handler that can take a step takes one.  The origin owes
  nothing, and a client need not leave.
* IdentityStore, Startup: a supervisor starts the provider again, and a process
  that can run does.  In Startup that is enough for two processes that migrate at
  once: one of them commits, and the other finds nothing left to wait for.
* Lifecycle: goroutines that can run do; a job's function returns (queries take
  a context, calls a timeout); the ticker and the timeout of `Shutdown` fire.
  A job whose context is done leaves its loop under strong fairness, since Go's
  `select` chooses at random between the context and a tick.  Requests owe
  nothing.

## 4. What is proved

All theorems hold for every value of the constants that satisfies the named
assumptions (`AssetIndexAssumption`, and so on: bounds are natural numbers,
delays are positive where the configuration demands it).  Each module's proof
has the same form: an inductive invariant, one lemma for each action or group
of actions, and the properties as consequences.

| module | inductive invariant | why it is needed | theorems |
|---|---|---|---|
| AssetIndexProofs | `IInv`: what a rescan has seen is explained by the moments of its history, a link it has read through by the window between Lstat and ReadDir; rescans that are current agree with the tree; when `fresh`, no stale rescan is left to write | exactness of the table alone says nothing about rescans that will still write | TypeCorrect, Invariance, FreshExact, NeverDropped, NeverAdded, ExactnessStays, ProvidesTable, RescansShrink |
| BackoffProofs | `RetryInv`: the entry's count is the number of failures in a row, and its time follows the schedule for that number | the wait is computed from the count, not from the wait before | RetryInvariance, ScheduleKept, RetriesNeverSooner |
| AnnouncerProofs | `AnnouncerInv`: a worker's clock is not in the future and not later than its list; what is on the wire or accepted was built from such a clock; an answer "accepted" is backed by the catalog.  On top of it `FailuresWait`: the backoff counts the same failures as the history and holds at least the wait they earn | the row is written from values held since before the call; a call is made on the word of an entry written by an earlier sweep | TypeCorrect, Invariance, OkRowsAccepted, MissingLeasesLapse, DeferralsBounded, ExpiresAfterGrace, FailuresHeld, WaitsRespected, SweepsShrink |
| AssetServerProofs | `ServerInv`: at each point of a request the limit reader's count, what was sent and what is logged agree; slots are held exactly by the requests upstream; a held file is the one looked at | the limit is a sum over reads, the slots a count over requests | TypeCorrect, Invariance, SlotsExact, SegmentsLimited, LoggedOkWhole, SteadyServed, CountedOrRecordedFailed |
| RateLimitProofs | `LimiterInv`: tokens left plus tokens taken are at most the burst plus what came in since; a bucket holds at least what came in after the last grant | the bound counts from any moment, not from the first request | TypeCorrect, Invariance, RateIsBounded, PauseIsEnough |
| IdentityStoreProofs | `StoreInv`: content is on the disk before its name is; a process alone generates only while there is no file | neither "whole" nor "once" survives a step without it | TypeCorrect, Invariance, NeverTorn, OneIdentity, SaveIsAtomic |
| StartupProofs | `StartupInv`: only the process with the lock is past its first write, and what it holds follows from what is committed; what was accepted stays acceptable but for the secret; a secret that went bad leaves a nil signer | a commit writes what was computed steps before, and readiness speaks of a secret read long ago | AcceptedUsable, Invariance, MigratesAtOnce, ServesPresentSchema, AcceptedSettingsUsable, ReadyIsSigned |
| LifecycleProofs | `LifecycleInv`: where main is tells what has been drained, and what was drained does not come back | the close of the database reads neither jobs nor requests | Invariance, DbOutlives, ExitsClean |

Three theorems are refinements.  `SaveIsAtomic` shows that every step of
`IdentityStore` is a step of `AtomicFile` or leaves its variables alone;
`MigratesAtOnce` that the only step of `Startup` that changes the schema is a
commit, whose transaction holds the present schema by `StartupInv`; and
`ProvidesTable` that a step of `AssetIndex` changes the rows as `AssetTable` does,
with the rows that `UpsertAssets` or `MarkMissing` really changes as the witness.
`AcceptedUsable` is about the operators of `Settings` alone and holds for every
environment, not only for those of the run.

The schedule of the backoff is a statement about a loop run any number of times.
`BackoffProofs` proves it by induction without a scheme for it: a set of naturals
that contains 0 and the successor of each member is all of Nat, since the least
number outside it cannot exist (`NatSetInduction`, from the library's WFMin).  The
same lemma shows that the recursive functions `Power2` and `Delays` satisfy their
own equations (`SequenceExists`), that the loop leaves `base` times a power of 2
cut off at `max`, or a `base` above `max` as it is (`DoubledClosed`), and so that
`Record`, which clamps once more, keeps to the schedule (`RecordSchedule`).  `AnnouncerProofs` rests on that last lemma and
therefore extends `BackoffProofs`, whose constants and variables it does not use.
`MCBackoff` has TLC check `Power2` against the built-in power.

Why the loops end is half a safety property.  `SweepShrinks` and `RescanShrinks`
name a number that every step of a sweep or of a rescan makes smaller and that no
other step makes larger; they are proved.  What turns them into `SweepEnds` and
into the end of each rescan in `EventuallyIndexed`, that a step is possible and is
taken, is ENABLED and fairness and stays with TLC.

Three action properties and the refinement `TableProvided` are proved and not in
a run: `SweepShrinks`, `RescanShrinks`, `ExactStays`.  TLC agrees with each of them
on the instances of `Announcer_race` and `AssetIndex_rescan`, and with
`FailuresWait` on that of `Announcer_sweep`.

Only model-checked: the liveness properties EventuallyIndexed, GaugesSettle,
SweepEnds, GoneClientReleases, ComesUp, ComesToServe, ShutdownEnds, FailureEnds and
JobsKeepRunning (fairness and ENABLED are out of the prover's reach); and,
naturally, the two runs that end in a counterexample.

## 5. What is not modelled

* The bodies of messages to the catalog, signatures and key formats: functions
  of data without state; what their failure does is modelled.
* Range requests, headers, path validation, the CORS headers, OpenAPI validation
  and API docs: functions of strings without state, which a model could only
  spell out character by character.
* The connection pool: `foreign_keys` and `busy_timeout` hold for the one
  connection that ran the pragma.  Write errors at any time are modelled, the
  reason for them is not.  Whether an announcement requested for an unknown asset
  is stored depends on the connection, and no document says what is meant.
* `/healthz`, which only reads.  `catalog_last_error` keeps an error of startup
  until a request to `/internal/announce` succeeds, since sweeps do not set it; no
  document says what it should agree with.
* The gauges that main itself sets at startup: with `ScanOnStartup` off, a count
  that main read before the first run of the job may overwrite the job's until the
  next tick.  The timestamps of `jobs.Status`.
* Floating point in the rate limiter, and the buckets and backoff entries that
  are never removed: their growth is plain from the code.
* `metrics`, `logging`, `buildinfo`: registration and output.
