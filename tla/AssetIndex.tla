----------------------------- MODULE AssetIndex -----------------------------
(***************************************************************************)
(* The asset index: directories under the assets root, rescans that read   *)
(* them one by one, and the SQLite table "assets" that the rescans write.  *)
(*                                                                         *)
(* A rescan is Scan (list the root, then look at each directory), then one *)
(* transaction that upserts what was found, then a separate UPDATE that    *)
(* marks every other row missing.  Nothing serialises two rescans: the     *)
(* background job and any number of POST /internal/rescan requests may be  *)
(* anywhere in that sequence at once, while the files keep changing.       *)
(***************************************************************************)
EXTENDS Naturals, FiniteSets

CONSTANTS
  Assets,       \* directory names that match assetIDRegex
  Files,        \* the kinds of file that come and go in them
  Contents,     \* bound: what a directory may hold when it appears, and at the start
  Scanners,     \* concurrent executions of a rescan
  Job,          \* the one of them that is the background job's
  MaxChanges,   \* bound: changes to the file tree
  MaxFaults     \* bound: I/O errors, SQLITE_BUSY, cancelled contexts, crashes

FileKinds == {"master", "segment", "link", "other"}

ASSUME AssetIndexAssumption ==
  /\ IsFiniteSet(Assets)
  /\ Files \subseteq FileKinds
  /\ Contents \subseteq SUBSET FileKinds
  /\ Job \in Scanners
  /\ MaxChanges \in Nat
  /\ MaxFaults \in Nat

VARIABLES
  \* the file tree
  entry,         \* entry[a]: what the root holds under the name a
  mtime,         \* mtime[a][f]: modification stamp of a file, 0 if there is none
  changes,       \* stamp of the last change made to the tree
  \* the table "assets"
  status,        \* status[a]: "none" when there is no row
  hash,          \* hash[a]: content_hash of the row
  \* the local variables of each rescan
  pc,
  todo,          \* directories listed and not yet looked at
  checked,       \* the directory that Lstat has found and ReadDir has not yet read
  open, names,   \* the directory that was read, and its files yet to be looked at
  seen,          \* seenIDs
  records,       \* records[s][a]: content hash found for a seen asset
  \* the job's gauges and status
  activeGauge,
  missingGauge,
  lastRescanAt,  \* "zero" until the job has succeeded once
  faults,
  \* history, read by no action of the system
  startedAt,     \* startedAt[s]: value of changes when s listed the root
  sawFit,        \* sawFit[s]: assets that were fit for the index at some moment of s
  sawUnfit,      \* sawUnfit[s]: assets that were not, at some moment of s
  sawLinked,     \* sawLinked[s]: assets that were links to playable files between
                 \* their Lstat and their ReadDir by s
  clean,         \* clean[s]: s upserted while every scan under way was current
  fresh          \* a clean, current scan has completed since the last change

\* what the announcer sees of it
Table == INSTANCE AssetTable WITH status <- status

treeVars  == <<entry, mtime, changes>>
tableVars == <<status, hash>>
scanVars  == <<pc, todo, checked, open, names, seen, records>>
gaugeVars == <<activeGauge, missingGauge, lastRescanAt>>
ghostVars == <<startedAt, sawFit, sawUnfit, sawLinked, clean, fresh>>
vars == <<treeVars, tableVars, scanVars, gaugeVars, faults, ghostVars>>

-----------------------------------------------------------------------------
(* What a scan makes of one directory. *)

\* a link leads to a directory, a broken one to none; a file is anything else
EntryKinds == {"none", "dir", "link", "broken", "file"}

IsSymlink(kind) == kind \in {"link", "broken"}

\* what ReadDir can list: it follows links
Directories == {"dir", "link"}

AllowedFiles == {"master", "segment"}

Hashes == [AllowedFiles -> Nat]

\* name, size and mtime of every allowlisted file, and of nothing else
computeContentHash(m) == [f \in AllowedFiles |-> m[f]]

NoHash == [f \in AllowedFiles |-> 0]

Present(m) == {f \in FileKinds : m[f] # 0}

\* a directory with these files is added to the index: no symbolic link among
\* them, a master playlist, and at least one segment or init file
Playable(files) == "link" \notin files /\ {"master", "segment"} \subseteq files

Fit == {a \in Assets : entry[a] = "dir" /\ Playable(Present(mtime[a]))}

\* and those that would be, were they not links
Linked == {a \in Assets : entry[a] = "link" /\ Playable(Present(mtime[a]))}

Writing == {"scan", "upsert", "mark"}

\* rescans that have still to write what they read before the last change
Stale == {s \in Scanners : pc[s] \in Writing /\ startedAt[s] # changes}

-----------------------------------------------------------------------------
TypeOK ==
  /\ entry \in [Assets -> EntryKinds]
  /\ mtime \in [Assets -> [FileKinds -> Nat]]
  /\ changes \in Nat
  /\ status \in [Assets -> {"none", "active", "missing"}]
  /\ hash \in [Assets -> Hashes]
  /\ pc \in [Scanners -> {"idle", "scan", "upsert", "mark", "count", "gauge"}]
  /\ todo \in [Scanners -> SUBSET Assets]
  /\ checked \in [Scanners -> SUBSET Assets]
  /\ open \in [Scanners -> SUBSET Assets]
  /\ names \in [Scanners -> SUBSET FileKinds]
  /\ seen \in [Scanners -> SUBSET Assets]
  /\ records \in [Scanners -> [Assets -> Hashes]]
  /\ activeGauge \in Nat
  /\ missingGauge \in Nat
  /\ lastRescanAt \in {"zero", "set"}
  /\ faults \in Nat
  /\ startedAt \in [Scanners -> Nat]
  /\ sawFit \in [Scanners -> SUBSET Assets]
  /\ sawUnfit \in [Scanners -> SUBSET Assets]
  /\ sawLinked \in [Scanners -> SUBSET Assets]
  /\ clean \in [Scanners -> BOOLEAN]
  /\ fresh \in BOOLEAN

\* a provider with an empty database, on whatever tree it finds
Init ==
  /\ entry \in [Assets -> EntryKinds]
  /\ mtime \in [Assets -> [FileKinds -> {0, 1}]]
  /\ \A a \in Assets :
       Present(mtime[a]) \in IF entry[a] \in Directories THEN Contents ELSE {{}}
  /\ changes = 1
  /\ status = [a \in Assets |-> "none"]
  /\ hash = [a \in Assets |-> NoHash]
  /\ pc = [s \in Scanners |-> "idle"]
  /\ todo = [s \in Scanners |-> {}]
  /\ checked = [s \in Scanners |-> {}]
  /\ open = [s \in Scanners |-> {}]
  /\ names = [s \in Scanners |-> {}]
  /\ seen = [s \in Scanners |-> {}]
  /\ records = [s \in Scanners |-> [a \in Assets |-> NoHash]]
  /\ activeGauge = 0
  /\ missingGauge = 0
  /\ lastRescanAt = "zero"
  /\ startedAt = [s \in Scanners |-> 0]
  /\ sawFit = [s \in Scanners |-> {}]
  /\ sawUnfit = [s \in Scanners |-> {}]
  /\ sawLinked = [s \in Scanners |-> {}]
  /\ clean = [s \in Scanners |-> FALSE]
  /\ faults = 0
  /\ fresh = FALSE
-----------------------------------------------------------------------------
(* The file tree changes under the scans' feet. *)

\* history that every change of the tree updates
TreeChanged ==
  /\ changes < MaxChanges
  /\ changes' = changes + 1
  /\ sawFit' = [s \in Scanners |->
                  IF pc[s] = "idle" THEN {} ELSE sawFit[s] \cup Fit']
  /\ sawUnfit' = [s \in Scanners |->
                    IF pc[s] = "idle" THEN {} ELSE sawUnfit[s] \cup (Assets \ Fit')]
  /\ sawLinked' = [s \in Scanners |-> sawLinked[s] \cup (checked[s] \cap Linked')]
  /\ fresh' = FALSE
  /\ UNCHANGED <<tableVars, scanVars, gaugeVars, faults, startedAt, clean>>

\* in a directory, through a link to one, or in a new one
WriteFile(a, f) ==
  /\ entry[a] \in Directories \cup {"none"}
  /\ entry' = [entry EXCEPT ![a] = IF @ = "none" THEN "dir" ELSE @]
  /\ mtime' = [mtime EXCEPT ![a][f] = changes + 1]
  /\ TreeChanged

RemoveFile(a, f) ==
  /\ mtime[a][f] # 0
  /\ mtime' = [mtime EXCEPT ![a][f] = 0]
  /\ UNCHANGED entry
  /\ TreeChanged

\* rm -r, mv, ln -s: the name comes to stand for something else, with these files
Replace(a, by, files) ==
  /\ entry[a] # by
  /\ entry' = [entry EXCEPT ![a] = by]
  /\ mtime' = [mtime EXCEPT ![a] =
                 [f \in FileKinds |-> IF by \in Directories /\ f \in files
                                       THEN changes + 1 ELSE 0]]
  /\ TreeChanged

-----------------------------------------------------------------------------
(* One rescan: RunRescanJob for the job, RunRescan for a request. *)

\* the rescan returns: its local variables, and its history, are gone
Return(s) ==
  /\ pc' = [pc EXCEPT ![s] = "idle"]
  /\ todo' = [todo EXCEPT ![s] = {}]
  /\ checked' = [checked EXCEPT ![s] = {}]
  /\ open' = [open EXCEPT ![s] = {}]
  /\ names' = [names EXCEPT ![s] = {}]
  /\ seen' = [seen EXCEPT ![s] = {}]
  /\ records' = [records EXCEPT ![s] = [a \in Assets |-> NoHash]]
  /\ startedAt' = [startedAt EXCEPT ![s] = 0]
  /\ sawFit' = [sawFit EXCEPT ![s] = {}]
  /\ sawUnfit' = [sawUnfit EXCEPT ![s] = {}]
  /\ sawLinked' = [sawLinked EXCEPT ![s] = {}]
  /\ clean' = [clean EXCEPT ![s] = FALSE]

\* mutant: what the index holds already is not looked at again
StartScanOfNew(s) ==
  /\ pc[s] = "idle"
  /\ pc' = [pc EXCEPT ![s] = "scan"]
  /\ todo' = [todo EXCEPT ![s] = {a \in Assets : entry[a] = "dir" /\ status[a] # "active"}]
  /\ startedAt' = [startedAt EXCEPT ![s] = changes]
  /\ sawFit' = [sawFit EXCEPT ![s] = Fit]
  /\ sawUnfit' = [sawUnfit EXCEPT ![s] = Assets \ Fit]
  /\ UNCHANGED <<treeVars, tableVars, checked, open, names, seen, records, gaugeVars, faults,
                 sawLinked, clean, fresh>>

\* os.ReadDir of the root; symbolic links are skipped here
StartScan(s) ==
  /\ pc[s] = "idle"
  /\ pc' = [pc EXCEPT ![s] = "scan"]
  /\ todo' = [todo EXCEPT ![s] = {a \in Assets : entry[a] = "dir"}]
  /\ startedAt' = [startedAt EXCEPT ![s] = changes]
  /\ sawFit' = [sawFit EXCEPT ![s] = Fit]
  /\ sawUnfit' = [sawUnfit EXCEPT ![s] = Assets \ Fit]
  /\ UNCHANGED <<treeVars, tableVars, checked, open, names, seen, records, gaugeVars, faults,
                 sawLinked, clean, fresh>>

\* mutant: the listing of the root is taken for the last word on links
LstatAssetDirAny(s, a) ==
  /\ pc[s] = "scan"
  /\ checked[s] = {} /\ open[s] = {}
  /\ a \in todo[s]
  /\ entry[a] # "none"
  /\ todo' = [todo EXCEPT ![s] = @ \ {a}]
  /\ checked' = [checked EXCEPT ![s] = {a}]
  /\ UNCHANGED <<treeVars, tableVars, pc, open, names, seen, records, gaugeVars, faults,
                 ghostVars>>

\* scanAssetDir looks again at a name that was listed, and passes over what has
\* become a symbolic link
LstatAssetDir(s, a) ==
  /\ pc[s] = "scan"
  /\ checked[s] = {} /\ open[s] = {}
  /\ a \in todo[s]
  /\ entry[a] # "none"
  /\ todo' = [todo EXCEPT ![s] = @ \ {a}]
  /\ checked' = [checked EXCEPT ![s] = IF IsSymlink(entry[a]) THEN {} ELSE {a}]
  /\ UNCHANGED <<treeVars, tableVars, pc, open, names, seen, records, gaugeVars, faults,
                 ghostVars>>

\* os.ReadDir, which follows a link that was put there since
ReadAssetDir(s, a) ==
  /\ pc[s] = "scan"
  /\ checked[s] = {a}
  /\ entry[a] \in Directories
  /\ checked' = [checked EXCEPT ![s] = {}]
  /\ open' = [open EXCEPT ![s] = {a}]
  /\ names' = [names EXCEPT ![s] = Present(mtime[a])]
  /\ records' = [records EXCEPT ![s][a] = NoHash]
  /\ UNCHANGED <<treeVars, tableVars, pc, todo, seen, gaugeVars, faults, ghostVars>>

\* one file, as it is by now
Info(s, a, f) ==
  /\ pc[s] = "scan"
  /\ open[s] = {a}
  /\ f \in names[s] \cap AllowedFiles
  /\ mtime[a][f] # 0
  /\ names' = [names EXCEPT ![s] = @ \ {f}]
  /\ records' = [records EXCEPT ![s][a][f] = mtime[a][f]]
  /\ UNCHANGED <<treeVars, tableVars, pc, todo, checked, open, seen, gaugeVars, faults, ghostVars>>

\* the files of the open directory a that the listing held
Listed(s, a) == names[s] \cup {f \in AllowedFiles : records[s][a][f] # 0}

\* scanAssetDir returns, at the first symbolic link or after the last file
AssetDirDone(s, a) ==
  /\ pc[s] = "scan"
  /\ open[s] = {a}
  /\ "link" \in names[s] \/ names[s] \cap AllowedFiles = {}
  /\ \/ /\ Playable(Listed(s, a))
        /\ seen' = [seen EXCEPT ![s] = @ \cup {a}]
        /\ UNCHANGED records
     \/ /\ ~Playable(Listed(s, a))
        /\ records' = [records EXCEPT ![s][a] = NoHash]
        /\ UNCHANGED seen
  /\ open' = [open EXCEPT ![s] = {}]
  /\ names' = [names EXCEPT ![s] = {}]
  /\ UNCHANGED <<treeVars, tableVars, pc, todo, checked, gaugeVars, faults, ghostVars>>

\* a directory or a file is gone, or no longer one, after it was listed
Vanished(s, a) ==
  \/ checked[s] = {} /\ open[s] = {} /\ a \in todo[s] /\ entry[a] = "none"
  \/ checked[s] = {a} /\ entry[a] \notin Directories
  \/ open[s] = {a} /\ \E f \in names[s] \cap AllowedFiles : mtime[a][f] = 0

\* which fails the whole scan
ScanVanished(s, a) ==
  /\ pc[s] = "scan"
  /\ Vanished(s, a)
  /\ Return(s)
  /\ UNCHANGED <<treeVars, tableVars, gaugeVars, faults, fresh>>

ScanDone(s) ==
  /\ pc[s] = "scan"
  /\ todo[s] = {} /\ checked[s] = {} /\ open[s] = {}
  /\ pc' = [pc EXCEPT ![s] = "upsert"]
  /\ UNCHANGED <<treeVars, tableVars, todo, checked, open, names, seen, records, gaugeVars, faults,
                 ghostVars>>

\* mutant: ON CONFLICT DO NOTHING
UpsertAssetsInsertOnly(s) ==
  /\ pc[s] = "upsert"
  /\ LET new == {a \in seen[s] : status[a] = "none"}
     IN  /\ status' = [a \in Assets |-> IF a \in new THEN "active" ELSE status[a]]
         /\ hash' = [a \in Assets |-> IF a \in new THEN records[s][a] ELSE hash[a]]
  /\ pc' = [pc EXCEPT ![s] = "mark"]
  /\ clean' = [clean EXCEPT ![s] = (Stale = {})]
  /\ UNCHANGED <<treeVars, todo, checked, open, names, seen, records, gaugeVars, faults,
                 startedAt, sawFit, sawUnfit, sawLinked, fresh>>

\* one transaction for everything the scan found
UpsertAssets(s) ==
  /\ pc[s] = "upsert"
  /\ status' = [a \in Assets |-> IF a \in seen[s] THEN "active" ELSE status[a]]
  /\ hash' = [a \in Assets |-> IF a \in seen[s] THEN records[s][a] ELSE hash[a]]
  /\ pc' = [pc EXCEPT ![s] = "mark"]
  /\ clean' = [clean EXCEPT ![s] = (Stale = {})]
  /\ UNCHANGED <<treeVars, todo, checked, open, names, seen, records, gaugeVars, faults,
                 startedAt, sawFit, sawUnfit, sawLinked, fresh>>

\* mutant: an empty scan marks nothing
MarkMissingUnlessEmpty(s) ==
  /\ pc[s] = "mark"
  /\ status' = [a \in Assets |-> IF /\ seen[s] # {}
                                    /\ a \notin seen[s] /\ status[a] = "active"
                                   THEN "missing" ELSE status[a]]
  /\ pc' = [pc EXCEPT ![s] = "count"]
  /\ fresh' = (fresh \/ (clean[s] /\ startedAt[s] = changes))
  /\ UNCHANGED <<treeVars, hash, todo, checked, open, names, seen, records, gaugeVars, faults,
                 startedAt, sawFit, sawUnfit, sawLinked, clean>>

\* the rows that exist, are not yet missing and were not seen
MarkMissing(s) ==
  /\ pc[s] = "mark"
  /\ status' = [a \in Assets |-> IF a \notin seen[s] /\ status[a] = "active"
                                   THEN "missing" ELSE status[a]]
  /\ pc' = [pc EXCEPT ![s] = "count"]
  /\ fresh' = (fresh \/ (clean[s] /\ startedAt[s] = changes))
  /\ UNCHANGED <<treeVars, hash, todo, checked, open, names, seen, records, gaugeVars, faults,
                 startedAt, sawFit, sawUnfit, sawLinked, clean>>

Count(st) == Cardinality({a \in Assets : status[a] = st})

\* mutant: a count of nothing is taken for no count
CountActiveUnlessZero(s) ==
  /\ pc[s] = "count"
  /\ \/ /\ s = Job
        /\ pc' = [pc EXCEPT ![s] = "gauge"]
        /\ activeGauge' = IF Count("active") = 0 THEN activeGauge ELSE Count("active")
        /\ UNCHANGED <<todo, checked, open, names, seen, records, startedAt, sawFit, sawUnfit,
                       sawLinked, clean>>
     \/ s # Job /\ Return(s) /\ UNCHANGED activeGauge
  /\ UNCHANGED <<treeVars, tableVars, missingGauge, lastRescanAt, faults, fresh>>

\* a request answers with the count; the job publishes it
CountActive(s) ==
  /\ pc[s] = "count"
  /\ \/ /\ s = Job
        /\ pc' = [pc EXCEPT ![s] = "gauge"]
        /\ activeGauge' = Count("active")
        /\ UNCHANGED <<todo, checked, open, names, seen, records, startedAt, sawFit, sawUnfit,
                       sawLinked, clean>>
     \/ s # Job /\ Return(s) /\ UNCHANGED activeGauge
  /\ UNCHANGED <<treeVars, tableVars, missingGauge, lastRescanAt, faults, fresh>>

\* the tail of the job's loop body; an error of CountMissing is passed over
CountMissing(s) ==
  /\ pc[s] = "gauge"
  /\ \/ missingGauge' = Count("missing") /\ UNCHANGED faults
     \/ faults < MaxFaults /\ faults' = faults + 1 /\ UNCHANGED missingGauge
  /\ lastRescanAt' = "set"
  /\ Return(s)
  /\ UNCHANGED <<treeVars, tableVars, activeGauge, fresh>>

\* an I/O error, a busy database or a cancelled context ends the rescan where
\* it stands; the transaction of UpsertAssets is rolled back
Abort(s) ==
  /\ pc[s] \in {"scan", "upsert", "mark", "count"}
  /\ faults < MaxFaults
  /\ faults' = faults + 1
  /\ Return(s)
  /\ UNCHANGED <<treeVars, tableVars, gaugeVars, fresh>>

\* the process dies and is started again: only the table survives
Crash ==
  /\ faults < MaxFaults
  /\ faults' = faults + 1
  /\ pc' = [s \in Scanners |-> "idle"]
  /\ todo' = [s \in Scanners |-> {}]
  /\ checked' = [s \in Scanners |-> {}]
  /\ open' = [s \in Scanners |-> {}]
  /\ names' = [s \in Scanners |-> {}]
  /\ seen' = [s \in Scanners |-> {}]
  /\ records' = [s \in Scanners |-> [a \in Assets |-> NoHash]]
  /\ activeGauge' = 0
  /\ missingGauge' = 0
  /\ lastRescanAt' = "zero"
  /\ startedAt' = [s \in Scanners |-> 0]
  /\ sawFit' = [s \in Scanners |-> {}]
  /\ sawUnfit' = [s \in Scanners |-> {}]
  /\ sawLinked' = [s \in Scanners |-> {}]
  /\ clean' = [s \in Scanners |-> FALSE]
  /\ UNCHANGED <<treeVars, tableVars, fresh>>

-----------------------------------------------------------------------------
Tree ==
  \E a \in Assets :
    \/ \E f \in Files : WriteFile(a, f) \/ RemoveFile(a, f)
    \/ \E by \in EntryKinds, files \in Contents : Replace(a, by, files)

\* what a rescan does of its own accord once it has started
Proceed(s) ==
  \/ \E a \in Assets :
       \/ LstatAssetDir(s, a) \/ ReadAssetDir(s, a)
       \/ AssetDirDone(s, a) \/ ScanVanished(s, a)
       \/ \E f \in AllowedFiles : Info(s, a, f)
  \/ ScanDone(s)
  \/ UpsertAssets(s)
  \/ MarkMissing(s)
  \/ CountActive(s)
  \/ CountMissing(s)

Next ==
  \/ Tree
  \/ \E s \in Scanners : StartScan(s) \/ Proceed(s) \/ Abort(s)
  \/ Crash

Spec == Init /\ [][Next]_vars

\* Goroutines that can run do run, and the job's ticker keeps firing.  Requests
\* may or may not arrive.
Fairness ==
  /\ \A s \in Scanners : WF_vars(Proceed(s))
  /\ WF_vars(StartScan(Job))

FairSpec == Spec /\ Fairness

-----------------------------------------------------------------------------
\* The table agrees with the tree: exactly the fit directories are active, with
\* the hash of what they now hold.
IndexExact ==
  \A a \in Assets :
    /\ status[a] = "active" <=> a \in Fit
    /\ a \in Fit => hash[a] = computeContentHash(mtime[a])

\* FreshIndexExact.  A rescan that overlapped no change of the tree, and no
\* older rescan from the moment it upserted, leaves the table in agreement with
\* the tree, and any number of further rescans keep it so until the tree
\* changes (UpsertAssets then MarkMissing, in RunRescan and RunRescanJob).
FreshIndexExact == fresh => IndexExact

\* NeverDroppedWhileFit.  A rescan marks missing only an asset that was absent
\* or unfit at some moment between its listing and its UPDATE, however many
\* rescans overlap: MarkMissing's NOT IN list leaves out nothing that stayed fit.
NeverDroppedWhileFit ==
  [][\A s \in Scanners, a \in Assets :
       (MarkMissing(s) /\ status[a] = "active" /\ status'[a] = "missing")
         => a \in sawUnfit[s]]_vars

\* NeverAddedUnlooked.  A rescan makes active only an asset that was fit at some moment
\* since it listed the root, or whose directory was replaced, between the Lstat and
\* the ReadDir of this very rescan, by a link to playable files; a link that was
\* there at any other time is not followed (scanAssetDir, UpsertAssets).
NeverAddedUnlooked ==
  [][\A s \in Scanners, a \in Assets :
       (UpsertAssets(s) /\ status[a] # "active" /\ status'[a] = "active")
         => a \in sawFit[s] \cup sawLinked[s]]_vars

\* EventuallyIndexed.  Once the tree and the faults come to rest the table comes
\* to agree with the tree and stays so: the job's loop goes on after an error,
\* and no stale rescan is left to write (rescanLoop, runPeriodic).
EventuallyIndexed == <>[]IndexExact

\* GaugesSettle.  Once the tree and the faults come to rest the gauges come to agree
\* with the table and stay so, though rescans that a request asked for change the
\* table and not the gauges, and a failed CountMissing is passed over (rescanLoop).
GaugesSettle == <>[](activeGauge = Count("active") /\ missingGauge = Count("missing"))

\* the steps at most left to a rescan at p, with the directories of T to look at, that
\* of C to read, and the files N of the open directory, if any, to look at
StepsLeft(p, T, C, O, N) ==
  CASE p = "scan" -> 5 + 7 * Cardinality(T) + 6 * Cardinality(C) + Cardinality(O)
                       + Cardinality(N)
    [] p = "upsert" -> 4
    [] p = "mark" -> 3
    [] p = "count" -> 2
    [] p = "gauge" -> 1
    [] OTHER -> 0

RescanWork(s) == StepsLeft(pc[s], todo[s], checked[s], open[s], names[s])

\* RescanShrinks.  Each step of a rescan leaves it less to do, and neither another
\* rescan nor files that come and go in the meantime give it more: Scan reads the
\* root once, and each directory in it once (Scan, scanAssetDir).
RescanShrinks ==
  [][\A s \in Scanners :
       /\ Proceed(s) => RescanWork(s)' < RescanWork(s)
       /\ RescanWork(s)' > RescanWork(s) => StartScan(s)]_vars

\* ExactStays.  An index that a rescan has brought into agreement with the tree stays
\* so for as long as the tree does, through any rescans, errors and crashes, and what
\* the job then publishes is the number of the playable directories (rescanLoop).
ExactStays ==
  [][/\ fresh /\ UNCHANGED treeVars => IndexExact'
     /\ fresh /\ CountActive(Job) => activeGauge' = Cardinality(Fit)]_vars

\* TableProvided.  Whatever rescans do, alone or at once, to the rows of "assets" is one
\* of the two changes that the announcer is prepared for: some rows that were not
\* active become so, or some that were become missing (UpsertAssets, MarkMissing).
TableProvided == Table!Spec

-----------------------------------------------------------------------------
(* The parts of the inductive invariant behind the properties above. *)

\* a rescan that is not under way has seen nothing, and none is from the future
Bookkeeping ==
  /\ changes \in Nat \ {0}
  /\ \A s \in Scanners : startedAt[s] <= changes
  /\ \A s \in Scanners : pc[s] = "idle" => seen[s] = {}
  /\ \A s \in Scanners : pc[s] # "scan" => checked[s] = {} /\ open[s] = {}
  /\ \A s \in Scanners : todo[s] \cap (checked[s] \cup open[s]) = {}
  /\ \A s \in Scanners : checked[s] = {} \/ open[s] = {}

\* the history of a rescan under way covers the present, and that of a directory
\* about to be read the link it may have become
History ==
  \A s \in Scanners : pc[s] # "idle" =>
    /\ Fit \subseteq sawFit[s]
    /\ Assets \ Fit \subseteq sawUnfit[s]
    /\ checked[s] \cap Linked \subseteq sawLinked[s]

\* what the listing of an open directory said was so at some moment
Opened ==
  \A s \in Scanners : \A a \in open[s] :
    IF Playable(Listed(s, a)) THEN a \in sawFit[s] \cup sawLinked[s]
                              ELSE a \in sawUnfit[s]

Done(s) == Assets \ (IF pc[s] = "scan" THEN todo[s] \cup checked[s] \cup open[s]
                                               ELSE {})

\* what a rescan has looked at and was fit throughout, it has seen
Coverage ==
  \A s \in Scanners : pc[s] \in Writing => Done(s) \ sawUnfit[s] \subseteq seen[s]

\* what it has seen was fit at some moment, or a link at the wrong one
Provenance == \A s \in Scanners : seen[s] \subseteq sawFit[s] \cup sawLinked[s]

\* a rescan that overlapped no change has an exact picture of what it looked at
Currency ==
  \A s \in Scanners : (pc[s] \in Writing /\ startedAt[s] = changes) =>
    /\ seen[s] = Done(s) \cap Fit
    /\ \A a \in seen[s] : records[s][a] = computeContentHash(mtime[a])
    /\ \A a \in checked[s] : ~IsSymlink(entry[a])
    /\ \A a \in open[s] : /\ Playable(Listed(s, a)) <=> a \in Fit
                          /\ \A f \in AllowedFiles \ names[s] : records[s][a][f] = mtime[a][f]

\* every fit asset is indexed with its present content
FitIndexed ==
  \A a \in Fit : status[a] = "active" /\ hash[a] = computeContentHash(mtime[a])

\* between a clean upsert and its MarkMissing only current rescans write
CleanUpsert ==
  \A s \in Scanners : (pc[s] = "mark" /\ clean[s] /\ startedAt[s] = changes) =>
    Stale = {} /\ FitIndexed

FreshIndex == fresh => Stale = {} /\ IndexExact

\* IInv.  The inductive invariant: what the rescans under way know of the tree
\* (Scan), what they have written (UpsertAssets, MarkMissing) and what the
\* others may still write.
IInv ==
  /\ TypeOK
  /\ Bookkeeping
  /\ History
  /\ Opened
  /\ Coverage
  /\ Provenance
  /\ Currency
  /\ CleanUpsert
  /\ FreshIndex
=============================================================================
