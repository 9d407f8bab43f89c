-------------------------- MODULE AssetIndexProofs --------------------------
(* Proofs of the properties of AssetIndex for any set of assets, any number  *)
(* of concurrent rescans and any number of changes and faults.               *)
EXTENDS AssetIndex, FiniteSetTheorems, TLAPS

\* Most leaves are set and function reasoning: Zenon first, then SMT, then Zenon with time.
USE ZenonT(3), SMTT(60), ZenonT(60)

\* The count of rows with a status is a natural number (CountActive and
\* CountMissing return the COUNT of a finite table).
LEMMA CountType == \A st : Count(st) \in Nat
<1>. SUFFICES ASSUME NEW st PROVE Count(st) \in Nat
  OBVIOUS
<1>1. IsFiniteSet({a \in Assets : status[a] = st})
  BY FS_Subset, AssetIndexAssumption
<1>. QED
  BY <1>1, FS_CardinalityType DEF Count

\* The initial states satisfy the type invariant: whatever tree the provider
\* finds, with an empty table.
LEMMA InitTypeOK == Init => TypeOK
<1>. SUFFICES ASSUME Init PROVE TypeOK
  OBVIOUS
<1>1. mtime \in [Assets -> [FileKinds -> Nat]]
  BY DEF Init
<1>2. NoHash \in Hashes
  BY DEF NoHash, Hashes
<1>. QED
  BY <1>1, <1>2 DEF Init, TypeOK

\* Each step of the tree, of a rescan, and a crash, preserves the type
\* invariant.
LEMMA NextTypeOK == TypeOK /\ [Next]_vars => TypeOK'
<1>. SUFFICES ASSUME TypeOK, [Next]_vars PROVE TypeOK'
  OBVIOUS
<1>. USE DEF TypeOK
<1>a. NoHash \in Hashes
  BY DEF NoHash, Hashes
<1>b. /\ Fit \subseteq Assets
      /\ Fit' \subseteq Assets
      /\ Linked' \subseteq Assets
  BY DEF Fit, Linked
<1>0. ASSUME TreeChanged, entry' \in [Assets -> EntryKinds],
             mtime' \in [Assets -> [FileKinds -> Nat]]
      PROVE  TypeOK'
  <2>1. /\ sawFit' \in [Scanners -> SUBSET Assets]
        /\ sawUnfit' \in [Scanners -> SUBSET Assets]
        /\ sawLinked' \in [Scanners -> SUBSET Assets]
    BY <1>0, <1>b DEF TreeChanged
  <2>2. /\ changes' \in Nat
        /\ fresh' = FALSE
        /\ UNCHANGED <<status, hash, pc, todo, checked, open, names, seen, records,
                       activeGauge, missingGauge, lastRescanAt, faults, startedAt, clean>>
    BY <1>0 DEF TreeChanged, tableVars, scanVars, gaugeVars
  <2>. QED
    BY <1>0, <2>1, <2>2
<1>1. ASSUME NEW a \in Assets, NEW f \in Files, WriteFile(a, f) PROVE TypeOK'
  <2>1. f \in FileKinds
    BY AssetIndexAssumption
  <2>2. entry' \in [Assets -> EntryKinds]
    BY <1>1 DEF WriteFile, EntryKinds
  <2>3. mtime' \in [Assets -> [FileKinds -> Nat]]
    BY <1>1, <2>1 DEF WriteFile
  <2>. QED
    BY <1>0, <1>1, <2>2, <2>3 DEF WriteFile
<1>2. ASSUME NEW a \in Assets, NEW f \in Files, RemoveFile(a, f) PROVE TypeOK'
  <2>1. f \in FileKinds
    BY AssetIndexAssumption
  <2>2. mtime' \in [Assets -> [FileKinds -> Nat]]
    BY <1>2, <2>1 DEF RemoveFile
  <2>. QED
    BY <1>0, <1>2, <2>2 DEF RemoveFile
<1>3. ASSUME NEW a \in Assets, NEW by \in EntryKinds, NEW files, Replace(a, by, files)
      PROVE  TypeOK'
  <2>1. entry' \in [Assets -> EntryKinds]
    BY <1>3 DEF Replace
  <2>2. mtime' \in [Assets -> [FileKinds -> Nat]]
    BY <1>3 DEF Replace
  <2>. QED
    BY <1>0, <1>3, <2>1, <2>2 DEF Replace
<1>4. ASSUME NEW s \in Scanners, StartScan(s) PROVE TypeOK'
  BY <1>4, <1>b DEF StartScan, treeVars, tableVars, gaugeVars
<1>18. ASSUME NEW s \in Scanners, NEW a \in Assets, LstatAssetDir(s, a) PROVE TypeOK'
  <2>1. /\ todo' \in [Scanners -> SUBSET Assets]
        /\ checked' \in [Scanners -> SUBSET Assets]
    BY <1>18 DEF LstatAssetDir
  <2>. QED
    BY <1>18, <2>1 DEF LstatAssetDir, treeVars, tableVars, gaugeVars, ghostVars
<1>5. ASSUME NEW s \in Scanners, NEW a \in Assets, ReadAssetDir(s, a) PROVE TypeOK'
  <2>1. Present(mtime[a]) \subseteq FileKinds
    BY DEF Present
  <2>2. /\ checked' \in [Scanners -> SUBSET Assets]
        /\ open' \in [Scanners -> SUBSET Assets]
        /\ names' \in [Scanners -> SUBSET FileKinds]
        /\ records' \in [Scanners -> [Assets -> Hashes]]
    BY <1>5, <1>a, <2>1 DEF ReadAssetDir
  <2>. QED
    BY <1>5, <2>2 DEF ReadAssetDir, treeVars, tableVars, gaugeVars, ghostVars
<1>16. ASSUME NEW s \in Scanners, NEW a \in Assets, NEW f \in AllowedFiles, Info(s, a, f)
       PROVE  TypeOK'
  <2>1. mtime[a][f] \in Nat
    BY DEF AllowedFiles, FileKinds
  <2>2. records' \in [Scanners -> [Assets -> Hashes]]
    BY <1>16, <2>1 DEF Info, Hashes
  <2>3. names' \in [Scanners -> SUBSET FileKinds]
    BY <1>16 DEF Info
  <2>. QED
    BY <1>16, <2>2, <2>3 DEF Info, treeVars, tableVars, gaugeVars, ghostVars
<1>17. ASSUME NEW s \in Scanners, NEW a \in Assets, AssetDirDone(s, a) PROVE TypeOK'
  <2>1. /\ open' \in [Scanners -> SUBSET Assets]
        /\ names' \in [Scanners -> SUBSET FileKinds]
    BY <1>17 DEF AssetDirDone
  <2>2. /\ seen' \in [Scanners -> SUBSET Assets]
        /\ records' \in [Scanners -> [Assets -> Hashes]]
    <3>1. CASE seen' = [seen EXCEPT ![s] = @ \cup {a}] /\ UNCHANGED records
      BY <3>1
    <3>2. CASE UNCHANGED seen /\ records' = [records EXCEPT ![s][a] = NoHash]
      BY <1>a, <3>2
    <3>. QED
      BY <1>17, <3>1, <3>2 DEF AssetDirDone
  <2>. QED
    BY <1>17, <2>1, <2>2 DEF AssetDirDone, treeVars, tableVars, gaugeVars, ghostVars
<1>6. ASSUME NEW s \in Scanners, Return(s),
             UNCHANGED <<treeVars, tableVars, fresh>>,
             activeGauge' \in Nat, missingGauge' \in Nat,
             lastRescanAt' \in {"zero", "set"}, faults' \in Nat
      PROVE  TypeOK'
  BY <1>6, <1>a DEF Return, treeVars, tableVars
<1>7. ASSUME NEW s \in Scanners, NEW a \in Assets, ScanVanished(s, a) PROVE TypeOK'
  BY <1>6, <1>7 DEF ScanVanished, gaugeVars
<1>8. ASSUME NEW s \in Scanners, ScanDone(s) PROVE TypeOK'
  BY <1>8 DEF ScanDone, treeVars, tableVars, gaugeVars, ghostVars
<1>9. ASSUME NEW s \in Scanners, UpsertAssets(s) PROVE TypeOK'
  BY <1>9 DEF UpsertAssets, treeVars, gaugeVars
<1>10. ASSUME NEW s \in Scanners, MarkMissing(s) PROVE TypeOK'
  BY <1>10 DEF MarkMissing, treeVars, gaugeVars
<1>11. ASSUME NEW s \in Scanners, CountActive(s) PROVE TypeOK'
  <2>1. CASE s = Job
    <3>1. /\ pc' = [pc EXCEPT ![s] = "gauge"]
          /\ activeGauge' = Count("active")
          /\ UNCHANGED <<todo, checked, open, names, seen, records, startedAt, sawFit,
                         sawUnfit, sawLinked, clean, treeVars, tableVars, missingGauge,
                         lastRescanAt, faults, fresh>>
      BY <1>11, <2>1 DEF CountActive
    <3>. QED
      BY <3>1, CountType DEF treeVars, tableVars
  <2>2. CASE s # Job
    BY <1>6, <1>11, <2>2 DEF CountActive
  <2>. QED
    BY <2>1, <2>2
<1>12. ASSUME NEW s \in Scanners, CountMissing(s) PROVE TypeOK'
  BY <1>6, <1>12, CountType DEF CountMissing
<1>13. ASSUME NEW s \in Scanners, Abort(s) PROVE TypeOK'
  BY <1>6, <1>13 DEF Abort, gaugeVars
<1>14. CASE Crash
  BY <1>14, <1>a DEF Crash, treeVars, tableVars
<1>15. CASE UNCHANGED vars
  BY <1>15 DEF vars, treeVars, tableVars, scanVars, gaugeVars, ghostVars
<1>. QED
  BY <1>1, <1>2, <1>3, <1>4, <1>5, <1>7, <1>8, <1>9, <1>10, <1>11, <1>12,
     <1>13, <1>14, <1>15, <1>16, <1>17, <1>18 DEF Next, Tree, Proceed

\* Type correctness of the tree, the table and the rescans (all of Spec).
THEOREM TypeCorrect == Spec => []TypeOK
<1>. QED
  BY InitTypeOK, NextTypeOK, PTL DEF Spec
-----------------------------------------------------------------------------
(* The inductive invariant. *)

\* Which assets are fit depends on the tree alone (scanAssetDir reads nothing
\* else).
LEMMA FitStays == UNCHANGED treeVars => Fit' = Fit /\ Linked' = Linked
BY DEF Fit, Linked, treeVars

\* What is known of open directories depends on the listing and on the history
\* alone (Listed).
LEMMA OpenedStays ==
  ASSUME Opened, UNCHANGED <<open, names, records, sawFit, sawUnfit, sawLinked>>
  PROVE  Opened'
BY DEF Opened, Listed

\* A provider that has just started satisfies the invariant: no rescan is under
\* way.
LEMMA InitIInv == Init => IInv
<1>. SUFFICES ASSUME Init PROVE IInv
  OBVIOUS
<1>1. TypeOK
  BY InitTypeOK
<1>2. Bookkeeping
  BY DEF Init, Bookkeeping
<1>3. History /\ Coverage /\ Currency /\ CleanUpsert
  BY DEF Init, History, Coverage, Currency, CleanUpsert, Writing
<1>4. Opened /\ Provenance /\ FreshIndex
  BY DEF Init, Opened, Provenance, FreshIndex
<1>. QED
  BY <1>1, <1>2, <1>3, <1>4 DEF IInv

\* A change of the tree makes every rescan under way stale, and its history
\* takes in the new state of every directory (WriteFile, RemoveFile, Replace).
LEMMA TreeStep == ASSUME IInv, TypeOK', TreeChanged PROVE IInv'
<1>. USE DEF IInv
<1>1. /\ changes' = changes + 1
      /\ fresh' = FALSE
      /\ UNCHANGED <<pc, todo, checked, open, names, seen, records, startedAt, clean>>
  BY DEF TreeChanged, scanVars
<1>2. \A s \in Scanners : pc[s] # "idle" =>
        /\ sawFit'[s] = sawFit[s] \cup Fit'
        /\ sawUnfit'[s] = sawUnfit[s] \cup (Assets \ Fit')
        /\ sawLinked'[s] = sawLinked[s] \cup (checked[s] \cap Linked')
  BY DEF TreeChanged
<1>3. \A s \in Scanners : startedAt'[s] # changes'
  BY <1>1 DEF TypeOK, Bookkeeping
<1>4. Bookkeeping'
  <2>1. /\ changes' \in Nat \ {0}
        /\ \A s \in Scanners : startedAt'[s] <= changes'
    BY <1>1, SMT DEF TypeOK, Bookkeeping
  <2>2. /\ \A s \in Scanners : pc'[s] = "idle" => seen'[s] = {}
        /\ \A s \in Scanners : pc'[s] # "scan" => checked'[s] = {} /\ open'[s] = {}
        /\ \A s \in Scanners : todo'[s] \cap (checked'[s] \cup open'[s]) = {}
        /\ \A s \in Scanners : checked'[s] = {} \/ open'[s] = {}
    BY <1>1, Zenon DEF Bookkeeping
  <2>. QED
    BY <2>1, <2>2 DEF Bookkeeping
<1>5. History'
  BY <1>1, <1>2 DEF History
<1>6. Coverage'
  BY <1>1, <1>2 DEF Coverage, Done, Writing
<1>7. Provenance'
  <2>. SUFFICES ASSUME NEW s \in Scanners PROVE seen'[s] \subseteq sawFit'[s] \cup sawLinked'[s]
    BY DEF Provenance
  <2>1. CASE pc[s] = "idle"
    BY <1>1, <2>1 DEF Bookkeeping
  <2>2. CASE pc[s] # "idle"
    BY <1>1, <1>2, <2>2 DEF Provenance
  <2>. QED
    BY <2>1, <2>2
<1>8. Currency' /\ CleanUpsert'
  BY <1>3 DEF Currency, CleanUpsert
<1>9. FreshIndex'
  BY <1>1 DEF FreshIndex
<1>10. Opened'
  <2>. SUFFICES ASSUME NEW s \in Scanners, NEW a \in open'[s]
                PROVE  IF Playable(Listed(s, a)') THEN a \in sawFit'[s] \cup sawLinked'[s]
                                                   ELSE a \in sawUnfit'[s]
    BY DEF Opened
  <2>1. pc[s] # "idle" /\ a \in open[s]
    BY <1>1 DEF Bookkeeping
  <2>2. Listed(s, a)' = Listed(s, a)
    BY <1>1 DEF Listed
  <2>. QED
    BY <1>2, <2>1, <2>2 DEF Opened
<1>. QED
  BY <1>4, <1>5, <1>6, <1>7, <1>8, <1>9, <1>10

\* Ending rescans, whether with a result, with an error or in a crash, keeps the
\* invariant: the ones that remain are unaffected and the stale ones only get
\* fewer (the return paths of RunRescan and RunRescanJob).
LEMMA EndStep ==
  ASSUME IInv, TypeOK', UNCHANGED <<treeVars, tableVars, fresh>>,
         NEW E \in SUBSET Scanners,
         \A s \in E : /\ pc'[s] = "idle" /\ checked'[s] = {} /\ open'[s] = {}
                       /\ seen'[s] = {} /\ startedAt'[s] = 0,
         \A s \in Scanners \ E :
           /\ pc'[s] = pc[s] /\ todo'[s] = todo[s] /\ seen'[s] = seen[s]
           /\ checked'[s] = checked[s] /\ open'[s] = open[s] /\ names'[s] = names[s]
           /\ records'[s] = records[s] /\ startedAt'[s] = startedAt[s]
           /\ sawFit'[s] = sawFit[s] /\ sawUnfit'[s] = sawUnfit[s]
           /\ sawLinked'[s] = sawLinked[s] /\ clean'[s] = clean[s]
  PROVE  IInv'
<1>. USE DEF IInv
<1>1. /\ Fit' = Fit /\ Linked' = Linked /\ changes' = changes
      /\ entry' = entry /\ mtime' = mtime
      /\ status' = status /\ hash' = hash /\ fresh' = fresh
  BY FitStays DEF treeVars, tableVars
<1>2. \A s \in Scanners \ E : Done(s)' = Done(s) /\ \A a : Listed(s, a)' = Listed(s, a)
  BY DEF Done, Listed
<1>3. Stale' \subseteq Stale
  BY <1>1 DEF Stale, Writing
<1>4. Bookkeeping'
  BY <1>1 DEF Bookkeeping
<1>5. History'
  BY <1>1 DEF History
<1>6. Coverage'
  BY <1>1, <1>2 DEF Coverage, Writing
<1>7. Provenance'
  BY DEF Provenance
<1>8. Currency'
  <2>. SUFFICES ASSUME NEW s \in Scanners, pc'[s] \in Writing,
                       startedAt'[s] = changes'
                PROVE  /\ seen'[s] = Done(s)' \cap Fit'
                       /\ \A a \in seen'[s] :
                            records'[s][a] = computeContentHash(mtime'[a])
                       /\ \A a \in checked'[s] : ~IsSymlink(entry'[a])
                       /\ \A a \in open'[s] :
                            /\ Playable(Listed(s, a)') <=> a \in Fit'
                            /\ \A f \in AllowedFiles \ names'[s] :
                                 records'[s][a][f] = mtime'[a][f]
    BY DEF Currency
  <2>1. s \notin E
    BY DEF Writing
  <2>. QED
    BY <1>1, <1>2, <2>1 DEF Currency
<1>9. FitIndexed' <=> FitIndexed
  BY <1>1 DEF FitIndexed
<1>10. CleanUpsert'
  BY <1>1, <1>3, <1>9 DEF CleanUpsert
<1>11. IndexExact' <=> IndexExact
  BY <1>1 DEF IndexExact
<1>12. FreshIndex'
  BY <1>1, <1>3, <1>11 DEF FreshIndex
<1>13. Opened'
  BY <1>2 DEF Opened
<1>. QED
  BY <1>4, <1>5, <1>6, <1>7, <1>8, <1>10, <1>12, <1>13
\* Listing the root starts a current rescan that has looked at nothing yet
\* (StartScan: os.ReadDir in Scan).
LEMMA StartStep ==
  ASSUME IInv, TypeOK', NEW s \in Scanners, StartScan(s) PROVE IInv'
<1>. USE DEF IInv
<1>1. /\ Fit' = Fit /\ Linked' = Linked /\ changes' = changes
      /\ entry' = entry /\ mtime' = mtime
      /\ status' = status /\ hash' = hash /\ fresh' = fresh
      /\ seen' = seen /\ records' = records /\ clean' = clean
      /\ checked' = checked /\ open' = open /\ names' = names /\ sawLinked' = sawLinked
  BY FitStays DEF StartScan, treeVars, tableVars
<1>2. /\ pc'[s] = "scan" /\ seen'[s] = {} /\ checked'[s] = {} /\ open'[s] = {}
      /\ startedAt'[s] = changes
      /\ todo'[s] = {a \in Assets : entry[a] = "dir"}
      /\ sawFit'[s] = Fit /\ sawUnfit'[s] = Assets \ Fit
  <2>1. pc[s] = "idle"
    BY DEF StartScan
  <2>2. seen'[s] = {} /\ checked'[s] = {} /\ open'[s] = {}
    BY <1>1, <2>1 DEF Bookkeeping
  <2>. QED
    BY <2>2 DEF StartScan, TypeOK
<1>3. \A t \in Scanners \ {s} :
        /\ pc'[t] = pc[t] /\ todo'[t] = todo[t]
        /\ startedAt'[t] = startedAt[t] /\ sawFit'[t] = sawFit[t]
        /\ sawUnfit'[t] = sawUnfit[t] /\ Done(t)' = Done(t)
        /\ \A a : Listed(t, a)' = Listed(t, a)
  BY <1>1 DEF StartScan, TypeOK, Done, Listed
<1>4. Fit \subseteq todo'[s]
  BY <1>2 DEF Fit
<1>5. Done(s)' \cap Fit = {}
  BY <1>2, <1>4 DEF Done
<1>6. Stale' = Stale
  BY <1>1, <1>2, <1>3 DEF Stale, StartScan, Writing
<1>7. Bookkeeping'
  <2>. SUFFICES ASSUME NEW t \in Scanners
                PROVE  /\ startedAt'[t] <= changes'
                       /\ pc'[t] = "idle" => seen'[t] = {}
                       /\ pc'[t] # "scan" => checked'[t] = {} /\ open'[t] = {}
                       /\ todo'[t] \cap (checked'[t] \cup open'[t]) = {}
                       /\ checked'[t] = {} \/ open'[t] = {}
    BY <1>1 DEF Bookkeeping
  <2>1. CASE t = s
    BY <1>1, <1>2, <2>1 DEF TypeOK
  <2>2. CASE t # s
    BY <1>1, <1>3, <2>2 DEF Bookkeeping
  <2>. QED
    BY <2>1, <2>2
<1>8. History'
  BY <1>1, <1>2, <1>3 DEF History
<1>9. Coverage'
  <2>. SUFFICES ASSUME NEW t \in Scanners, pc'[t] \in Writing
                PROVE  Done(t)' \ sawUnfit'[t] \subseteq seen'[t]
    BY DEF Coverage
  <2>1. CASE t = s
    BY <1>2, <1>5, <2>1 DEF Done
  <2>2. CASE t # s
    BY <1>1, <1>3, <2>2 DEF Coverage
  <2>. QED
    BY <2>1, <2>2
<1>10. Provenance'
  BY <1>1, <1>2, <1>3 DEF Provenance
<1>11. Currency'
  <2>. SUFFICES ASSUME NEW t \in Scanners, pc'[t] \in Writing,
                       startedAt'[t] = changes'
                PROVE  /\ seen'[t] = Done(t)' \cap Fit'
                       /\ \A a \in seen'[t] :
                            records'[t][a] = computeContentHash(mtime'[a])
                       /\ \A a \in checked'[t] : ~IsSymlink(entry'[a])
                       /\ \A a \in open'[t] :
                            /\ Playable(Listed(t, a)') <=> a \in Fit'
                            /\ \A f \in AllowedFiles \ names'[t] :
                                 records'[t][a][f] = mtime'[a][f]
    BY DEF Currency
  <2>1. CASE t = s
    BY <1>1, <1>2, <1>5, <2>1
  <2>2. CASE t # s
    BY <1>1, <1>3, <2>2 DEF Currency
  <2>. QED
    BY <2>1, <2>2
<1>12. FitIndexed' <=> FitIndexed
  BY <1>1 DEF FitIndexed
<1>13. CleanUpsert'
  BY <1>1, <1>2, <1>3, <1>6, <1>12 DEF CleanUpsert
<1>14. IndexExact' <=> IndexExact
  BY <1>1 DEF IndexExact
<1>15. FreshIndex'
  BY <1>1, <1>6, <1>14 DEF FreshIndex
<1>16. Opened'
  BY <1>1, <1>2, <1>3 DEF Opened
<1>. QED
  BY <1>7, <1>8, <1>9, <1>10, <1>11, <1>13, <1>15, <1>16

\* The picture of a rescan stays exact when neither it nor the tree changes.
LEMMA CurrencyStays ==
  ASSUME Currency, Fit' = Fit, changes' = changes, entry' = entry, mtime' = mtime,
         startedAt' = startedAt, seen' = seen, records' = records, checked' = checked,
         open' = open, names' = names,
         \A t \in Scanners : Done(t)' = Done(t),
         \A t \in Scanners : pc'[t] \in Writing <=> pc[t] \in Writing
  PROVE  Currency'
<1>. SUFFICES ASSUME NEW t \in Scanners, pc'[t] \in Writing, startedAt'[t] = changes'
              PROVE  /\ seen'[t] = Done(t)' \cap Fit'
                     /\ \A a \in seen'[t] : records'[t][a] = computeContentHash(mtime'[a])
                     /\ \A a \in checked'[t] : ~IsSymlink(entry'[a])
                     /\ \A a \in open'[t] :
                          /\ Playable(Listed(t, a)') <=> a \in Fit'
                          /\ \A f \in AllowedFiles \ names'[t] : records'[t][a][f] = mtime'[a][f]
  BY DEF Currency
<1>1. /\ seen[t] = Done(t) \cap Fit
      /\ \A a \in seen[t] : records[t][a] = computeContentHash(mtime[a])
      /\ \A a \in checked[t] : ~IsSymlink(entry[a])
      /\ \A a \in open[t] : /\ Playable(Listed(t, a)) <=> a \in Fit
                            /\ \A f \in AllowedFiles \ names[t] : records[t][a][f] = mtime[a][f]
  BY DEF Currency
<1>2. \A a : Listed(t, a)' = Listed(t, a)
  BY DEF Listed
<1>3. Done(t)' = Done(t)
  OBVIOUS
<1>. QED
  BY <1>1, <1>2, <1>3

\* What a step within the scan of one rescan leaves alone: the tree, the table,
\* the history, and all other rescans (scanAssetDir).  What it
\* changes has to keep the facts about that rescan.
LEMMA WithinScan ==
  ASSUME IInv, TypeOK', NEW s \in Scanners,
         UNCHANGED <<treeVars, tableVars, pc, ghostVars>>,
         pc[s] = "scan",
         \A t \in Scanners \ {s} :
           /\ todo'[t] = todo[t] /\ checked'[t] = checked[t] /\ open'[t] = open[t]
           /\ names'[t] = names[t] /\ seen'[t] = seen[t] /\ records'[t] = records[t],
         todo'[s] \cap (checked'[s] \cup open'[s]) = {},
         checked'[s] = {} \/ open'[s] = {},
         checked'[s] \cap Linked \subseteq sawLinked[s],
         \A a \in open'[s] :
           IF Playable(Listed(s, a)') THEN a \in sawFit[s] \cup sawLinked[s]
                                      ELSE a \in sawUnfit[s],
         Done(s)' \ sawUnfit[s] \subseteq seen'[s],
         seen'[s] \subseteq sawFit[s] \cup sawLinked[s],
         startedAt[s] = changes =>
           /\ seen'[s] = Done(s)' \cap Fit
           /\ \A a \in seen'[s] : records'[s][a] = computeContentHash(mtime[a])
           /\ \A a \in checked'[s] : ~IsSymlink(entry[a])
           /\ \A a \in open'[s] :
                /\ Playable(Listed(s, a)') <=> a \in Fit
                /\ \A f \in AllowedFiles \ names'[s] : records'[s][a][f] = mtime[a][f]
  PROVE  IInv'
<1>. USE DEF IInv
<1>1. /\ Fit' = Fit /\ Linked' = Linked /\ changes' = changes
      /\ entry' = entry /\ mtime' = mtime
      /\ status' = status /\ hash' = hash /\ fresh' = fresh
      /\ pc' = pc /\ startedAt' = startedAt /\ sawFit' = sawFit
      /\ sawUnfit' = sawUnfit /\ sawLinked' = sawLinked /\ clean' = clean
  BY FitStays DEF treeVars, tableVars, ghostVars
<1>2. \A t \in Scanners \ {s} : Done(t)' = Done(t) /\ \A a : Listed(t, a)' = Listed(t, a)
  BY <1>1 DEF Done, Listed
<1>3. Stale' = Stale
  BY <1>1 DEF Stale
<1>4. Bookkeeping' /\ History'
  BY <1>1 DEF Bookkeeping, History
<1>5. Opened'
  <2>. SUFFICES ASSUME NEW t \in Scanners, NEW a \in open'[t]
                PROVE  IF Playable(Listed(t, a)') THEN a \in sawFit'[t] \cup sawLinked'[t]
                                                   ELSE a \in sawUnfit'[t]
    BY DEF Opened
  <2>1. CASE t = s
    BY <1>1, <2>1
  <2>2. CASE t # s
    <3>1. open'[t] = open[t] /\ Listed(t, a)' = Listed(t, a)
      BY <1>2, <2>2
    <3>2. IF Playable(Listed(t, a)) THEN a \in sawFit[t] \cup sawLinked[t]
                                    ELSE a \in sawUnfit[t]
      BY <3>1 DEF Opened
    <3>. QED
      BY <1>1, <3>1, <3>2
  <2>. QED
    BY <2>1, <2>2
<1>6. Coverage' /\ Provenance'
  <2>1. \A t \in Scanners \ {s} : Done(t)' = Done(t) /\ seen'[t] = seen[t]
    BY <1>2
  <2>2. Coverage'
    <3>1. ASSUME NEW t \in Scanners, pc[t] \in Writing PROVE Done(t)' \ sawUnfit[t] \subseteq seen'[t]
      <4>1. Done(t) \ sawUnfit[t] \subseteq seen[t]
        BY <3>1 DEF Coverage
      <4>. QED
        BY <2>1, <4>1
    <3>. QED
      BY <1>1, <3>1 DEF Coverage
  <2>3. Provenance'
    <3>1. ASSUME NEW t \in Scanners PROVE seen'[t] \subseteq sawFit[t] \cup sawLinked[t]
      <4>1. seen[t] \subseteq sawFit[t] \cup sawLinked[t]
        BY DEF Provenance
      <4>. QED
        BY <2>1, <4>1
    <3>. QED
      BY <1>1, <3>1 DEF Provenance
  <2>. QED
    BY <2>2, <2>3
<1>7. Currency'
  <2>. SUFFICES ASSUME NEW t \in Scanners, pc'[t] \in Writing,
                       startedAt'[t] = changes'
                PROVE  /\ seen'[t] = Done(t)' \cap Fit'
                       /\ \A a \in seen'[t] :
                            records'[t][a] = computeContentHash(mtime'[a])
                       /\ \A a \in checked'[t] : ~IsSymlink(entry'[a])
                       /\ \A a \in open'[t] :
                            /\ Playable(Listed(t, a)') <=> a \in Fit'
                            /\ \A f \in AllowedFiles \ names'[t] :
                                 records'[t][a][f] = mtime'[a][f]
    BY DEF Currency
  <2>1. CASE t = s
    BY <1>1, <2>1
  <2>2. CASE t # s
    BY <1>1, <1>2, <2>2 DEF Currency
  <2>. QED
    BY <2>1, <2>2
<1>8. (FitIndexed' <=> FitIndexed) /\ (IndexExact' <=> IndexExact)
  BY <1>1 DEF FitIndexed, IndexExact
<1>9. CleanUpsert' /\ FreshIndex'
  BY <1>1, <1>3, <1>8 DEF CleanUpsert, FreshIndex
<1>. QED
  BY <1>4, <1>5, <1>6, <1>7, <1>9

\* Looking at a name again before reading it: what has become a symbolic link is not
\* fit, and what goes on to be read is none (LstatAssetDir: scanAssetDir up to
\* IsSymlink).
LEMMA LstatAssetDirStep ==
  ASSUME IInv, TypeOK', NEW s \in Scanners, NEW a \in Assets, LstatAssetDir(s, a)
  PROVE  IInv'
<1>. USE DEF IInv
<1>1. /\ UNCHANGED <<treeVars, tableVars, pc, ghostVars>>
      /\ seen' = seen /\ open' = open /\ names' = names /\ records' = records
      /\ pc[s] = "scan" /\ checked[s] = {} /\ open[s] = {} /\ a \in todo[s]
      /\ todo'[s] = todo[s] \ {a}
      /\ checked'[s] = IF IsSymlink(entry[a]) THEN {} ELSE {a}
      /\ \A t \in Scanners \ {s} : todo'[t] = todo[t] /\ checked'[t] = checked[t]
  BY DEF LstatAssetDir, TypeOK
<1>2. /\ Assets \ Fit \subseteq sawUnfit[s]
      /\ Done(s) \ sawUnfit[s] \subseteq seen[s] /\ seen[s] \subseteq sawFit[s] \cup sawLinked[s]
  BY <1>1 DEF History, Coverage, Provenance, Writing
<1>3. startedAt[s] = changes =>
        /\ seen[s] = Done(s) \cap Fit
        /\ \A b \in seen[s] : records[s][b] = computeContentHash(mtime[b])
  BY <1>1 DEF Currency, Writing
<1>4. Done(s) = Assets \ todo[s]
  BY <1>1 DEF Done
<1>5. CASE IsSymlink(entry[a])
  <2>1. a \notin Fit /\ a \in sawUnfit[s]
    BY <1>2, <1>5 DEF Fit, IsSymlink
  <2>2. Done(s)' = Done(s) \cup {a}
    BY <1>1, <1>4, <1>5 DEF Done, TypeOK
  <2>. QED
    BY <1>1, <1>2, <1>3, <1>5, <2>1, <2>2, WithinScan
<1>6. CASE ~IsSymlink(entry[a])
  <2>1. checked'[s] = {a} /\ a \notin Linked
    BY <1>1, <1>6 DEF Linked, IsSymlink
  <2>2. Done(s)' = Done(s)
    BY <1>1, <1>4, <2>1 DEF Done, TypeOK
  <2>3. /\ todo'[s] \cap (checked'[s] \cup open'[s]) = {}
        /\ checked'[s] \cap Linked \subseteq sawLinked[s]
        /\ \A b \in checked'[s] : ~IsSymlink(entry[b])
    BY <1>1, <1>6, <2>1
  <2>. QED
    BY <1>1, <1>2, <1>3, <2>2, <2>3, WithinScan
<1>. QED
  BY <1>5, <1>6

\* Listing one directory: the listing says what the name leads to at that moment, a
\* directory or a link put there since the Lstat (ReadAssetDir: os.ReadDir in
\* scanAssetDir).
LEMMA ReadAssetDirStep ==
  ASSUME IInv, TypeOK', NEW s \in Scanners, NEW a \in Assets, ReadAssetDir(s, a)
  PROVE  IInv'
<1>. USE DEF IInv
<1>1. /\ UNCHANGED <<treeVars, tableVars, pc, ghostVars>> /\ seen' = seen /\ todo' = todo
      /\ pc[s] = "scan" /\ checked[s] = {a} /\ checked'[s] = {} /\ entry[a] \in Directories
      /\ \A t \in Scanners \ {s} : checked'[t] = checked[t]
  BY DEF ReadAssetDir, TypeOK
<1>2. /\ Fit \subseteq sawFit[s] /\ Assets \ Fit \subseteq sawUnfit[s]
      /\ checked[s] \cap Linked \subseteq sawLinked[s]
      /\ Done(s) \ sawUnfit[s] \subseteq seen[s] /\ seen[s] \subseteq sawFit[s] \cup sawLinked[s]
  BY <1>1 DEF History, Coverage, Provenance, Writing
<1>3. startedAt[s] = changes =>
        /\ seen[s] = Done(s) \cap Fit
        /\ \A b \in seen[s] : records[s][b] = computeContentHash(mtime[b])
        /\ ~IsSymlink(entry[a])
  BY <1>1 DEF Currency, Writing
<1>4. Done(s) = Assets \ (todo[s] \cup {a}) /\ a \notin todo[s] /\ open[s] = {}
  BY <1>1 DEF Done, Bookkeeping
<1>5. /\ open'[s] = {a} /\ names'[s] = Present(mtime[a]) /\ records'[s][a] = NoHash
      /\ \A b \in Assets \ {a} : records'[s][b] = records[s][b]
      /\ \A t \in Scanners \ {s} : /\ open'[t] = open[t] /\ names'[t] = names[t]
                                  /\ records'[t] = records[t]
  BY DEF ReadAssetDir, TypeOK
<1>6. Listed(s, a)' = Present(mtime[a])
  BY <1>5 DEF Listed, NoHash
<1>7. /\ a \in Fit \cup Linked <=> Playable(Present(mtime[a]))
      /\ ~IsSymlink(entry[a]) => (a \in Fit <=> Playable(Present(mtime[a])))
      /\ a \in Linked => a \notin Fit
  BY <1>1 DEF Fit, Linked, Directories, IsSymlink
<1>8. Done(s)' = Done(s)
  BY <1>1, <1>4, <1>5 DEF Done, TypeOK
<1>9. \A b \in open'[s] :
        IF Playable(Listed(s, b)') THEN b \in sawFit[s] \cup sawLinked[s]
                                   ELSE b \in sawUnfit[s]
  BY <1>1, <1>2, <1>5, <1>6, <1>7
<1>10. /\ todo'[s] \cap (checked'[s] \cup open'[s]) = {}
       /\ checked'[s] \cap Linked \subseteq sawLinked[s]
  BY <1>1, <1>4, <1>5
<1>11. \A f \in AllowedFiles \ names'[s] : records'[s][a][f] = mtime[a][f]
  BY <1>5 DEF Present, AllowedFiles, FileKinds, NoHash, TypeOK
<1>12. startedAt[s] = changes =>
         /\ seen'[s] = Done(s)' \cap Fit
         /\ \A b \in seen'[s] : records'[s][b] = computeContentHash(mtime[b])
         /\ \A b \in open'[s] :
              /\ Playable(Listed(s, b)') <=> b \in Fit
              /\ \A f \in AllowedFiles \ names'[s] : records'[s][b][f] = mtime[b][f]
  BY <1>1, <1>3, <1>4, <1>5, <1>6, <1>7, <1>8, <1>11
<1>. QED
  BY <1>1, <1>2, <1>5, <1>8, <1>9, <1>10, <1>12, WithinScan

\* Looking at one file takes it from the names to the records: what the listing
\* said is not forgotten (Info: one iteration of the loop in scanAssetDir).
LEMMA InfoStep ==
  ASSUME IInv, TypeOK', NEW s \in Scanners, NEW a \in Assets, NEW f \in AllowedFiles,
         Info(s, a, f)
  PROVE  IInv'
<1>. USE DEF IInv
<1>1. /\ UNCHANGED <<treeVars, tableVars, pc, ghostVars>> /\ seen' = seen /\ open' = open
      /\ checked' = checked /\ todo' = todo /\ pc[s] = "scan" /\ open[s] = {a} /\ f \in names[s]
      /\ mtime[a][f] # 0 /\ names'[s] = names[s] \ {f}
      /\ \A t \in Scanners \ {s} : names'[t] = names[t] /\ records'[t] = records[t]
  BY DEF Info, TypeOK
<1>2. \A b \in Assets \ {a} : records'[s][b] = records[s][b]
  BY DEF Info, TypeOK
<1>3. records'[s][a] = [records[s][a] EXCEPT ![f] = mtime[a][f]]
  BY DEF Info, TypeOK
<1>4. records[s][a] \in [AllowedFiles -> Nat]
  BY DEF TypeOK, Hashes
<1>5. Listed(s, a)' = Listed(s, a)
  BY <1>1, <1>3, <1>4 DEF Listed
<1>6. /\ Done(s)' = Done(s) /\ a \notin Done(s) /\ checked'[s] = {}
      /\ todo'[s] \cap (checked'[s] \cup open'[s]) = {}
  BY <1>1 DEF Done, Bookkeeping
<1>7. /\ IF Playable(Listed(s, a)) THEN a \in sawFit[s] \cup sawLinked[s] ELSE a \in sawUnfit[s]
      /\ Done(s) \ sawUnfit[s] \subseteq seen[s] /\ seen[s] \subseteq sawFit[s] \cup sawLinked[s]
  BY <1>1 DEF Opened, Coverage, Provenance, Writing
<1>8. startedAt[s] = changes =>
        /\ seen[s] = Done(s) \cap Fit
        /\ \A b \in seen[s] : records[s][b] = computeContentHash(mtime[b])
        /\ Playable(Listed(s, a)) <=> a \in Fit
        /\ \A g \in AllowedFiles \ names[s] : records[s][a][g] = mtime[a][g]
  BY <1>1 DEF Currency, Writing
<1>9. startedAt[s] = changes =>
        /\ \A b \in seen'[s] : records'[s][b] = computeContentHash(mtime[b])
        /\ \A g \in AllowedFiles \ names'[s] : records'[s][a][g] = mtime[a][g]
  <2>. SUFFICES ASSUME startedAt[s] = changes
                PROVE  /\ \A b \in seen'[s] : records'[s][b] = computeContentHash(mtime[b])
                       /\ \A g \in AllowedFiles \ names'[s] : records'[s][a][g] = mtime[a][g]
    OBVIOUS
  <2>1. \A b \in seen'[s] : records'[s][b] = computeContentHash(mtime[b])
    BY <1>1, <1>2, <1>6, <1>8 DEF TypeOK
  <2>2. \A g \in AllowedFiles \ names'[s] : records'[s][a][g] = mtime[a][g]
    BY <1>1, <1>3, <1>4, <1>8
  <2>. QED
    BY <2>1, <2>2
<1>10. \A b \in open'[s] :
         IF Playable(Listed(s, b)') THEN b \in sawFit[s] \cup sawLinked[s]
                                    ELSE b \in sawUnfit[s]
  BY <1>1, <1>5, <1>7
<1>11. startedAt[s] = changes =>
         /\ seen'[s] = Done(s)' \cap Fit
         /\ \A b \in seen'[s] : records'[s][b] = computeContentHash(mtime[b])
         /\ \A b \in open'[s] :
              /\ Playable(Listed(s, b)') <=> b \in Fit
              /\ \A g \in AllowedFiles \ names'[s] : records'[s][b][g] = mtime[b][g]
  BY <1>1, <1>5, <1>6, <1>8, <1>9
<1>. QED
  BY <1>1, <1>6, <1>7, <1>10, <1>11, WithinScan

\* The end of one directory: it is added to what was seen exactly when its listing
\* was that of a fit directory, with the hash of its files as they were looked at
\* (AssetDirDone: scanAssetDir returns to Scan).
LEMMA AssetDirDoneStep ==
  ASSUME IInv, TypeOK', NEW s \in Scanners, NEW a \in Assets, AssetDirDone(s, a)
  PROVE  IInv'
<1>. USE DEF IInv
<1>1. /\ UNCHANGED <<treeVars, tableVars, pc, ghostVars>> /\ todo' = todo
      /\ checked' = checked /\ pc[s] = "scan" /\ open[s] = {a} /\ open'[s] = {}
      /\ "link" \in names[s] \/ names[s] \cap AllowedFiles = {}
      /\ \A t \in Scanners \ {s} : /\ open'[t] = open[t] /\ names'[t] = names[t]
                                  /\ seen'[t] = seen[t] /\ records'[t] = records[t]
  BY DEF AssetDirDone, TypeOK
<1>2. /\ seen'[s] = IF Playable(Listed(s, a)) THEN seen[s] \cup {a} ELSE seen[s]
      /\ Playable(Listed(s, a)) => records' = records
      /\ \A b \in Assets \ {a} : records'[s][b] = records[s][b]
  BY DEF AssetDirDone, TypeOK
<1>a. checked[s] = {} /\ checked'[s] = {} /\ a \notin todo[s]
  BY <1>1 DEF Bookkeeping
<1>3. Done(s)' = Done(s) \cup {a} /\ a \notin Done(s)
  BY <1>1, <1>a DEF Done
<1>4. /\ IF Playable(Listed(s, a)) THEN a \in sawFit[s] \cup sawLinked[s] ELSE a \in sawUnfit[s]
      /\ Done(s) \ sawUnfit[s] \subseteq seen[s] /\ seen[s] \subseteq sawFit[s] \cup sawLinked[s]
  BY <1>1 DEF Opened, Coverage, Provenance, Writing
<1>5. ASSUME startedAt[s] = changes
      PROVE  /\ seen'[s] = Done(s)' \cap Fit
             /\ \A b \in seen'[s] : records'[s][b] = computeContentHash(mtime[b])
  <2>1. /\ seen[s] = Done(s) \cap Fit
        /\ \A b \in seen[s] : records[s][b] = computeContentHash(mtime[b])
        /\ Playable(Listed(s, a)) <=> a \in Fit
        /\ \A g \in AllowedFiles \ names[s] : records[s][a][g] = mtime[a][g]
    BY <1>1, <1>5 DEF Currency, Writing
  <2>3. seen'[s] = Done(s)' \cap Fit
    BY <1>2, <1>3, <2>1
  <2>4. ASSUME Playable(Listed(s, a)) PROVE records[s][a] = computeContentHash(mtime[a])
    <3>1. names[s] \cap AllowedFiles = {}
      BY <1>1, <2>4 DEF Playable, Listed
    <3>2. records[s][a] \in [AllowedFiles -> Nat]
      BY DEF TypeOK, Hashes
    <3>. QED
      BY <2>1, <3>1, <3>2 DEF computeContentHash
  <2>5. \A b \in seen'[s] : records'[s][b] = computeContentHash(mtime[b])
    BY <1>2, <1>3, <2>1, <2>4 DEF TypeOK
  <2>. QED
    BY <2>3, <2>5
<1>. QED
  BY <1>1, <1>2, <1>3, <1>4, <1>5, <1>a, WithinScan

\* Handing the scan's result to the repository changes nothing that is written
\* or known (ScanDone: Scan returns).
LEMMA ScanDoneStep ==
  ASSUME IInv, TypeOK', NEW s \in Scanners, ScanDone(s) PROVE IInv'
<1>. USE DEF IInv
<1>1. /\ Fit' = Fit /\ Linked' = Linked /\ changes' = changes
      /\ entry' = entry /\ mtime' = mtime
      /\ status' = status /\ hash' = hash /\ fresh' = fresh
      /\ startedAt' = startedAt /\ sawFit' = sawFit /\ sawUnfit' = sawUnfit
      /\ sawLinked' = sawLinked /\ checked' = checked
      /\ clean' = clean /\ seen' = seen /\ records' = records
      /\ todo' = todo /\ open' = open /\ names' = names
  BY FitStays DEF ScanDone, treeVars, tableVars, ghostVars
<1>2. /\ pc[s] = "scan" /\ pc'[s] = "upsert" /\ checked[s] = {} /\ open[s] = {}
      /\ \A t \in Scanners \ {s} : pc'[t] = pc[t]
  BY DEF ScanDone, TypeOK
<1>3. \A t \in Scanners : Done(t)' = Done(t)
  BY <1>2 DEF ScanDone, TypeOK, Done
<1>4. \A t \in Scanners : pc'[t] \in Writing <=> pc[t] \in Writing
  BY <1>2 DEF Writing
<1>5. Stale' = Stale
  BY <1>1, <1>4 DEF Stale
<1>6. Bookkeeping' /\ History' /\ Provenance'
  BY <1>1, <1>2 DEF Bookkeeping, History, Provenance
<1>7. Coverage'
  BY <1>1, <1>3, <1>4 DEF Coverage
<1>8. Currency'
  BY <1>1, <1>3, <1>4, CurrencyStays
<1>9. (FitIndexed' <=> FitIndexed) /\ (IndexExact' <=> IndexExact)
  BY <1>1 DEF FitIndexed, IndexExact
<1>10. CleanUpsert' /\ FreshIndex'
  BY <1>1, <1>2, <1>5, <1>9 DEF CleanUpsert, FreshIndex
<1>11. Opened'
  BY <1>1, OpenedStays
<1>. QED
  BY <1>6, <1>7, <1>8, <1>10, <1>11

\* The transaction of UpsertAssets.  A current rescan has seen exactly the fit
\* assets, so it can only repair the table; a clean upsert starts the window in
\* which nobody else can spoil it.
LEMMA UpsertStep ==
  ASSUME IInv, TypeOK', NEW s \in Scanners, UpsertAssets(s) PROVE IInv'
<1>. USE DEF IInv
<1>1. /\ Fit' = Fit /\ Linked' = Linked /\ changes' = changes
      /\ entry' = entry /\ mtime' = mtime /\ fresh' = fresh
      /\ startedAt' = startedAt /\ sawFit' = sawFit /\ sawUnfit' = sawUnfit
      /\ sawLinked' = sawLinked /\ checked' = checked
      /\ seen' = seen /\ records' = records /\ todo' = todo
      /\ open' = open /\ names' = names
  BY FitStays DEF UpsertAssets, treeVars
<1>a. clean' = [clean EXCEPT ![s] = (Stale = {})] /\ clean \in [Scanners -> BOOLEAN]
  BY DEF UpsertAssets, TypeOK
<1>b. clean'[s] = (Stale = {}) /\ \A t \in Scanners \ {s} : clean'[t] = clean[t]
  BY <1>a, Zenon
<1>2. /\ pc[s] = "upsert" /\ pc'[s] = "mark" /\ (clean'[s] => Stale = {})
      /\ \A t \in Scanners \ {s} : pc'[t] = pc[t] /\ clean'[t] = clean[t]
  BY <1>b DEF UpsertAssets, TypeOK
<1>3. \A t \in Scanners : Done(t)' = Done(t)
  BY <1>1, <1>2 DEF TypeOK, Done
<1>4. \A t \in Scanners : pc'[t] \in Writing <=> pc[t] \in Writing
  BY <1>2 DEF Writing
<1>5. Stale' = Stale
  BY <1>1, <1>4 DEF Stale
<1>6. Bookkeeping' /\ History' /\ Provenance'
  BY <1>1, <1>2 DEF Bookkeeping, History, Provenance
<1>7. Coverage'
  BY <1>1, <1>3, <1>4 DEF Coverage
<1>8. Currency'
  BY <1>1, <1>3, <1>4, CurrencyStays
<1>9. ASSUME Stale = {}
      PROVE  /\ seen[s] = Fit
             /\ \A a \in Fit : records[s][a] = computeContentHash(mtime[a])
  <2>1. startedAt[s] = changes
    BY <1>2, <1>9 DEF Stale, Writing
  <2>2. Done(s) = Assets
    BY <1>2 DEF Done
  <2>. QED
    BY <1>2, <2>1, <2>2 DEF Currency, Writing, Fit
<1>10. ASSUME Stale = {} PROVE FitIndexed'
  BY <1>1, <1>9, <1>10 DEF FitIndexed, UpsertAssets, Fit
<1>11. CleanUpsert'
  BY <1>1, <1>2, <1>5, <1>10 DEF CleanUpsert
<1>12. ASSUME fresh PROVE IndexExact'
  <2>1. Stale = {} /\ IndexExact
    BY <1>12 DEF FreshIndex
  <2>2. \A a \in Assets \ Fit : status'[a] = status[a]
    BY <1>9, <2>1 DEF UpsertAssets
  <2>. QED
    BY <1>1, <1>10, <2>1, <2>2 DEF IndexExact, FitIndexed, Fit
<1>13. FreshIndex'
  BY <1>1, <1>5, <1>12 DEF FreshIndex
<1>14. Opened'
  BY <1>1, OpenedStays
<1>. QED
  BY <1>6, <1>7, <1>8, <1>11, <1>13, <1>14

\* The UPDATE of MarkMissing.  A current rescan marks no fit asset, and after a
\* clean upsert what it leaves active is exactly what is fit.
LEMMA MarkStep ==
  ASSUME IInv, TypeOK', NEW s \in Scanners, MarkMissing(s) PROVE IInv'
<1>. USE DEF IInv
<1>1. /\ Fit' = Fit /\ Linked' = Linked /\ changes' = changes
      /\ entry' = entry /\ mtime' = mtime /\ hash' = hash
      /\ startedAt' = startedAt /\ sawFit' = sawFit /\ sawUnfit' = sawUnfit
      /\ sawLinked' = sawLinked /\ checked' = checked
      /\ seen' = seen /\ records' = records /\ todo' = todo /\ clean' = clean
      /\ open' = open /\ names' = names
  BY FitStays DEF MarkMissing, treeVars
<1>2. /\ pc[s] = "mark" /\ pc'[s] = "count"
      /\ \A t \in Scanners \ {s} : pc'[t] = pc[t]
  BY DEF MarkMissing, TypeOK
<1>3. \A t \in Scanners : pc'[t] \in Writing => Done(t)' = Done(t) /\ pc[t] \in Writing
  BY <1>1, <1>2 DEF Done, Writing
<1>4. Stale' \subseteq Stale
  BY <1>1, <1>3 DEF Stale
<1>5. Bookkeeping' /\ History' /\ Provenance'
  BY <1>1, <1>2 DEF Bookkeeping, History, Provenance
<1>6. Coverage'
  BY <1>1, <1>3 DEF Coverage
<1>7. Currency'
  <2>1. \A t \in Scanners, a \in Assets : Listed(t, a)' = Listed(t, a)
    BY <1>1 DEF Listed
  <2>. QED
    BY <1>1, <1>3, <2>1 DEF Currency, TypeOK
<1>8. ASSUME Stale = {} PROVE seen[s] = Fit
  <2>1. startedAt[s] = changes
    BY <1>2, <1>8 DEF Stale, Writing
  <2>2. Done(s) = Assets
    BY <1>2 DEF Done
  <2>. QED
    BY <1>2, <2>1, <2>2 DEF Currency, Writing, Fit
<1>9. ASSUME Stale = {}, FitIndexed PROVE FitIndexed' /\ IndexExact'
  <2>1. seen[s] = Fit
    BY <1>8, <1>9
  <2>2. \A a \in Assets : status'[a] = IF a \notin Fit /\ status[a] = "active"
                                         THEN "missing" ELSE status[a]
    BY <2>1 DEF MarkMissing
  <2>. QED
    BY <1>1, <1>9, <2>2 DEF FitIndexed, IndexExact, Fit
<1>10. CleanUpsert'
  BY <1>1, <1>2, <1>4, <1>9 DEF CleanUpsert
<1>11. FreshIndex'
  <2>. SUFFICES ASSUME fresh' PROVE Stale' = {} /\ IndexExact'
    BY DEF FreshIndex
  <2>1. fresh \/ (clean[s] /\ startedAt[s] = changes)
    BY DEF MarkMissing
  <2>2. Stale = {} /\ FitIndexed
    BY <1>2, <2>1 DEF FreshIndex, CleanUpsert, IndexExact, FitIndexed, Fit
  <2>. QED
    BY <1>4, <1>9, <2>2
<1>12. Opened'
  BY <1>1, OpenedStays
<1>. QED
  BY <1>5, <1>6, <1>7, <1>10, <1>11, <1>12

\* Every step preserves the inductive invariant, one case per action of Next.
LEMMA NextIInv == IInv /\ [Next]_vars => IInv'
<1>. SUFFICES ASSUME IInv, [Next]_vars PROVE IInv'
  OBVIOUS
<1>0. TypeOK'
  BY NextTypeOK DEF IInv
<1>1. CASE Tree
  <2>1. TreeChanged
    BY <1>1 DEF Tree, WriteFile, RemoveFile, Replace
  <2>. QED
    BY <1>0, <2>1, TreeStep
<1>2. ASSUME NEW s \in Scanners, StartScan(s) PROVE IInv'
  BY <1>0, <1>2, StartStep
<1>16. ASSUME NEW s \in Scanners, NEW a \in Assets, LstatAssetDir(s, a) PROVE IInv'
  BY <1>0, <1>16, LstatAssetDirStep
<1>3. ASSUME NEW s \in Scanners, NEW a \in Assets, ReadAssetDir(s, a) PROVE IInv'
  BY <1>0, <1>3, ReadAssetDirStep
<1>14. ASSUME NEW s \in Scanners, NEW a \in Assets, NEW f \in AllowedFiles, Info(s, a, f)
       PROVE  IInv'
  BY <1>0, <1>14, InfoStep
<1>15. ASSUME NEW s \in Scanners, NEW a \in Assets, AssetDirDone(s, a) PROVE IInv'
  BY <1>0, <1>15, AssetDirDoneStep
<1>4. ASSUME NEW s \in Scanners, ScanDone(s) PROVE IInv'
  BY <1>0, <1>4, ScanDoneStep
<1>5. ASSUME NEW s \in Scanners, UpsertAssets(s) PROVE IInv'
  BY <1>0, <1>5, UpsertStep
<1>6. ASSUME NEW s \in Scanners, MarkMissing(s) PROVE IInv'
  BY <1>0, <1>6, MarkStep
<1>7. ASSUME NEW s \in Scanners, Return(s), UNCHANGED <<treeVars, tableVars, fresh>>
      PROVE  IInv'
  <2>1. {s} \in SUBSET Scanners
    OBVIOUS
  <2>2. \A t \in {s} : /\ pc'[t] = "idle" /\ checked'[t] = {} /\ open'[t] = {}
                       /\ seen'[t] = {} /\ startedAt'[t] = 0
    BY <1>7 DEF Return, IInv, TypeOK
  <2>3. \A t \in Scanners \ {s} :
          /\ pc'[t] = pc[t] /\ todo'[t] = todo[t] /\ seen'[t] = seen[t]
          /\ checked'[t] = checked[t] /\ open'[t] = open[t] /\ names'[t] = names[t]
          /\ records'[t] = records[t] /\ startedAt'[t] = startedAt[t]
          /\ sawFit'[t] = sawFit[t] /\ sawUnfit'[t] = sawUnfit[t]
          /\ sawLinked'[t] = sawLinked[t] /\ clean'[t] = clean[t]
    BY <1>7 DEF Return, IInv, TypeOK
  <2>. QED
    BY <1>0, <1>7, <2>1, <2>2, <2>3, EndStep
<1>8. ASSUME NEW s \in Scanners, NEW a \in Assets, ScanVanished(s, a) PROVE IInv'
  BY <1>7, <1>8 DEF ScanVanished
<1>9. ASSUME NEW s \in Scanners, CountActive(s) PROVE IInv'
  <2>1. CASE s = Job
    <3>1. /\ pc' = [pc EXCEPT ![s] = "gauge"] /\ pc[s] = "count"
          /\ UNCHANGED <<todo, checked, open, names, seen, records, startedAt, sawFit,
                         sawUnfit, sawLinked, clean, entry, mtime, changes, status, hash,
                         fresh>>
      BY <1>9, <2>1 DEF CountActive, treeVars, tableVars
    <3>2. \A t \in Scanners \ {s} : pc'[t] = pc[t]
      BY <3>1 DEF IInv, TypeOK
    <3>3. pc'[s] = "gauge"
      BY <3>1 DEF IInv, TypeOK
    <3>4. Fit' = Fit /\ Linked' = Linked
      BY <3>1, FitStays DEF treeVars
    <3>5. \A t \in Scanners : pc'[t] \in Writing => pc'[t] = pc[t] /\ Done(t)' = Done(t)
      BY <3>1, <3>2, <3>3 DEF Done, Writing
    <3>6. Stale' = Stale
      BY <3>1, <3>2, <3>3 DEF Stale, Writing
    <3>7. Bookkeeping' /\ History' /\ Provenance'
      BY <3>1, <3>2, <3>3, <3>4 DEF IInv, Bookkeeping, History, Provenance
    <3>8. Coverage' /\ Currency'
      BY <3>1, <3>4, <3>5 DEF IInv, Coverage, Currency, Listed
    <3>9. (FitIndexed' <=> FitIndexed) /\ (IndexExact' <=> IndexExact)
      BY <3>1, <3>4 DEF FitIndexed, IndexExact
    <3>10. CleanUpsert' /\ FreshIndex'
      BY <3>1, <3>2, <3>3, <3>6, <3>9 DEF IInv, CleanUpsert, FreshIndex
    <3>11. Opened'
      BY <3>1, OpenedStays DEF IInv
    <3>. QED
      BY <1>0, <3>7, <3>8, <3>10, <3>11 DEF IInv
  <2>2. CASE s # Job
    BY <1>7, <1>9, <2>2 DEF CountActive
  <2>. QED
    BY <2>1, <2>2
<1>10. ASSUME NEW s \in Scanners, CountMissing(s) PROVE IInv'
  BY <1>7, <1>10 DEF CountMissing
<1>11. ASSUME NEW s \in Scanners, Abort(s) PROVE IInv'
  BY <1>7, <1>11 DEF Abort
<1>12. CASE Crash
  <2>1. \A s \in Scanners : /\ pc'[s] = "idle" /\ checked'[s] = {} /\ open'[s] = {}
                            /\ seen'[s] = {} /\ startedAt'[s] = 0
    BY <1>12 DEF Crash
  <2>2. UNCHANGED <<treeVars, tableVars, fresh>>
    BY <1>12 DEF Crash
  <2>. QED
    BY <1>0, <2>1, <2>2, EndStep
<1>13. CASE UNCHANGED vars
  <2>1. UNCHANGED <<treeVars, tableVars, fresh, pc, todo, checked, open, names, seen,
                    records, startedAt, sawFit, sawUnfit, sawLinked, clean>>
    BY <1>13 DEF vars, scanVars, ghostVars
  <2>2. {} \in SUBSET Scanners
    OBVIOUS
  <2>. QED
    BY <1>0, <2>1, <2>2, EndStep
<1>. QED
  BY <1>1, <1>2, <1>3, <1>4, <1>5, <1>6, <1>8, <1>9, <1>10, <1>11, <1>12, <1>13,
     <1>14, <1>15, <1>16 DEF Next, Proceed

\* The invariant holds in every reachable state.
THEOREM Invariance == Spec => []IInv
<1>. QED
  BY InitIInv, NextIInv, PTL DEF Spec

\* FreshIndexExact, for any number of assets and of overlapping rescans: a clean
\* rescan leaves UpsertAssets' and MarkMissing's table equal to the tree until
\* the tree changes.
THEOREM FreshExact == Spec => []FreshIndexExact
<1>1. IInv => FreshIndexExact
  BY DEF IInv, FreshIndex, FreshIndexExact
<1>. QED
  BY <1>1, Invariance, PTL

\* NeverDroppedWhileFit: MarkMissing takes no asset that was fit during the whole
\* rescan, whatever the other rescans do.
THEOREM NeverDropped == Spec => NeverDroppedWhileFit
<1>1. IInv => \A s \in Scanners, a \in Assets :
        (MarkMissing(s) /\ status[a] = "active" /\ status'[a] = "missing")
          => a \in sawUnfit[s]
  <2>. SUFFICES ASSUME IInv, NEW s \in Scanners, NEW a \in Assets, MarkMissing(s),
                       status[a] = "active", status'[a] = "missing"
                PROVE  a \in sawUnfit[s]
    OBVIOUS
  <2>1. pc[s] = "mark" /\ a \notin seen[s]
    BY DEF MarkMissing
  <2>2. a \in Done(s)
    BY <2>1 DEF Done
  <2>. QED
    BY <2>1, <2>2 DEF IInv, Coverage, Writing
<1>. QED
  BY <1>1, Invariance, PTL DEF NeverDroppedWhileFit

\* NeverAddedUnlooked: UpsertAssets makes active only what scanAssetDir accepted in this
\* rescan, and that was fit, or became a link after its Lstat.
THEOREM NeverAdded == Spec => NeverAddedUnlooked
<1>1. IInv => \A s \in Scanners, a \in Assets :
        (UpsertAssets(s) /\ status[a] # "active" /\ status'[a] = "active")
          => a \in sawFit[s] \cup sawLinked[s]
  BY DEF IInv, Provenance, UpsertAssets
<1>. QED
  BY <1>1, Invariance, PTL DEF NeverAddedUnlooked

-----------------------------------------------------------------------------
(* What the index promises to the rest of the provider. *)

\* ExactStays: only a change of the tree ends the agreement that a clean rescan has
\* brought about (MarkMissing), and CountActive counts what is in agreement.
THEOREM ExactnessStays == Spec => ExactStays
<1>1. ASSUME IInv, IInv', Next, fresh, UNCHANGED treeVars PROVE IndexExact'
  <2>1. ~TreeChanged
    BY <1>1 DEF IInv, TypeOK, TreeChanged, treeVars
  <2>2. ~Tree
    BY <2>1 DEF Tree, WriteFile, RemoveFile, Replace
  <2>3. ASSUME NEW s \in Scanners, StartScan(s) \/ Abort(s) PROVE fresh'
    BY <1>1, <2>3 DEF StartScan, Abort
  <2>4. ASSUME NEW s \in Scanners, Proceed(s) PROVE fresh'
    <3>1. ASSUME NEW a \in Assets,
                 \/ LstatAssetDir(s, a) \/ ReadAssetDir(s, a)
                 \/ AssetDirDone(s, a) \/ ScanVanished(s, a)
                 \/ \E f \in AllowedFiles : Info(s, a, f)
          PROVE  fresh'
      BY <1>1, <3>1 DEF LstatAssetDir, ReadAssetDir, AssetDirDone, ScanVanished, Info, ghostVars
    <3>2. CASE ScanDone(s) \/ UpsertAssets(s) \/ CountActive(s) \/ CountMissing(s)
      BY <1>1, <3>2 DEF ScanDone, UpsertAssets, CountActive, CountMissing, ghostVars
    <3>3. CASE MarkMissing(s)
      BY <1>1, <3>3 DEF MarkMissing
    <3>. QED
      BY <2>4, <3>1, <3>2, <3>3 DEF Proceed
  <2>5. ASSUME Crash PROVE fresh'
    BY <1>1, <2>5 DEF Crash
  <2>6. fresh'
    BY <1>1, <2>2, <2>3, <2>4, <2>5 DEF Next
  <2>. QED
    BY <1>1, <2>6 DEF IInv, FreshIndex
<1>2. ASSUME IInv, fresh, CountActive(Job) PROVE activeGauge' = Cardinality(Fit)
  <2>1. activeGauge' = Cardinality({a \in Assets : status[a] = "active"})
    BY <1>2 DEF CountActive, Count
  <2>2. {a \in Assets : status[a] = "active"} = Fit
    BY <1>2 DEF IInv, FreshIndex, IndexExact, Fit
  <2>. QED
    BY <2>1, <2>2
<1>3. IInv /\ IInv' /\ [Next]_vars =>
        [/\ fresh /\ UNCHANGED treeVars => IndexExact'
         /\ fresh /\ CountActive(Job) => activeGauge' = Cardinality(Fit)]_vars
  BY <1>1, <1>2
<1>. QED
  BY <1>3, Invariance, PTL DEF Spec, ExactStays

\* TableProvided: every step of the index is one change of AssetTable or none.  The
\* upsert makes active the rows it saw that were not; MarkMissing takes the others.
THEOREM ProvidesTable == Spec => TableProvided
<1>1. Init => Table!Init
  BY DEF Init, Table!Init
<1>2. TypeOK /\ [Next]_vars => [Table!Next]_status
  <2>. SUFFICES ASSUME TypeOK, [Next]_vars, status' # status PROVE Table!Next
    OBVIOUS
  <2>1. PICK s \in Scanners : UpsertAssets(s) \/ MarkMissing(s)
    BY DEF Next, Tree, Proceed, StartScan, Abort, Crash, WriteFile, RemoveFile, Replace,
           TreeChanged, LstatAssetDir, ReadAssetDir, AssetDirDone, ScanVanished, Info, ScanDone, CountActive,
           CountMissing, tableVars, vars
  <2>2. CASE UpsertAssets(s)
    <3>. DEFINE S == {a \in seen[s] : status[a] # "active"}
    <3>1. S \in SUBSET Assets
      BY DEF TypeOK
    <3>2. status' = [a \in Assets |-> IF a \in S THEN "active" ELSE status[a]]
      BY <2>2 DEF UpsertAssets, TypeOK
    <3>3. S # {}
      BY <3>2 DEF TypeOK
    <3>4. Table!Change(S, "active")
      BY <3>2, <3>3 DEF Table!Change
    <3>. QED
      BY <3>1, <3>4 DEF Table!Next
  <2>3. CASE MarkMissing(s)
    <3>. DEFINE S == {a \in Assets : a \notin seen[s] /\ status[a] = "active"}
    <3>1. status' = [a \in Assets |-> IF a \in S THEN "missing" ELSE status[a]]
      BY <2>3 DEF MarkMissing, TypeOK
    <3>2. S # {}
      BY <3>1 DEF TypeOK
    <3>3. Table!Change(S, "missing")
      BY <3>1, <3>2 DEF Table!Change
    <3>. QED
      BY <3>3 DEF Table!Next
  <2>. QED
    BY <2>1, <2>2, <2>3
<1>. QED
  BY <1>1, <1>2, TypeCorrect, PTL DEF Spec, TableProvided, Table!Spec

-----------------------------------------------------------------------------
(* The work of a rescan. *)

\* Lists are finite: of directories as the assets are, of files as their kinds are.
LEMMA ListsFinite ==
  /\ \A T \in SUBSET Assets : /\ IsFiniteSet(T) /\ Cardinality(T) \in Nat
                              /\ \A a \in T : Cardinality(T \ {a}) = Cardinality(T) - 1
  /\ \A N \in SUBSET FileKinds : /\ IsFiniteSet(N) /\ Cardinality(N) \in 0 .. 4
                                 /\ \A f \in N : Cardinality(N \ {f}) = Cardinality(N) - 1
  /\ Cardinality({}) = 0
  /\ \A a : Cardinality({a}) = 1
<1>1. ASSUME NEW T \in SUBSET Assets
      PROVE  /\ IsFiniteSet(T) /\ Cardinality(T) \in Nat
             /\ \A a \in T : Cardinality(T \ {a}) = Cardinality(T) - 1
  <2>1. IsFiniteSet(T)
    BY AssetIndexAssumption, FS_Subset
  <2>. QED
    BY <2>1, FS_CardinalityType, FS_RemoveElement
<1>2. IsFiniteSet(FileKinds) /\ Cardinality(FileKinds) = 4
  <2>1. IsFiniteSet({"master"}) /\ Cardinality({"master"}) = 1
    BY FS_Singleton
  <2>2. /\ IsFiniteSet({"master"} \cup {"segment"})
        /\ Cardinality({"master"} \cup {"segment"}) = 1 + 1
    BY <2>1, FS_AddElement
  <2>3. /\ IsFiniteSet({"master", "segment"} \cup {"link"})
        /\ Cardinality({"master", "segment"} \cup {"link"}) = 2 + 1
    <3>1. {"master"} \cup {"segment"} = {"master", "segment"}
      OBVIOUS
    <3>2. IsFiniteSet({"master", "segment"}) /\ Cardinality({"master", "segment"}) = 2
      BY <2>2, <3>1
    <3>. QED
      BY <3>2, FS_AddElement
  <2>4. /\ IsFiniteSet({"master", "segment", "link"} \cup {"other"})
        /\ Cardinality({"master", "segment", "link"} \cup {"other"}) = 3 + 1
    <3>1. {"master", "segment"} \cup {"link"} = {"master", "segment", "link"}
      OBVIOUS
    <3>2. /\ IsFiniteSet({"master", "segment", "link"})
          /\ Cardinality({"master", "segment", "link"}) = 3
      BY <2>3, <3>1
    <3>. QED
      BY <3>2, FS_AddElement
  <2>5. {"master", "segment", "link"} \cup {"other"} = FileKinds
    BY DEF FileKinds
  <2>. QED
    BY <2>4, <2>5
<1>3. ASSUME NEW N \in SUBSET FileKinds
      PROVE  /\ IsFiniteSet(N) /\ Cardinality(N) \in 0 .. 4
             /\ \A f \in N : Cardinality(N \ {f}) = Cardinality(N) - 1
  <2>1. IsFiniteSet(N) /\ Cardinality(N) <= Cardinality(FileKinds)
    BY <1>2, FS_Subset
  <2>2. Cardinality(N) \in Nat
    BY <2>1, FS_CardinalityType
  <2>3. Cardinality(N) \in 0 .. 4
    BY <1>2, <2>1, <2>2, SMT
  <2>. QED
    BY <2>1, <2>3, FS_RemoveElement
<1>. QED
  BY <1>1, <1>3, FS_EmptySet, FS_Singleton

\* What is left at each place of RunRescanJob.
LEMMA StepsLeftAt ==
  ASSUME NEW T, NEW C, NEW O, NEW N
  PROVE  /\ StepsLeft("scan", T, C, O, N) = 5 + 7 * Cardinality(T) + 6 * Cardinality(C) + Cardinality(O) + Cardinality(N)
         /\ StepsLeft("upsert", T, C, O, N) = 4
         /\ StepsLeft("mark", T, C, O, N) = 3
         /\ StepsLeft("count", T, C, O, N) = 2
         /\ StepsLeft("gauge", T, C, O, N) = 1
         /\ StepsLeft("idle", T, C, O, N) = 0
BY DEF StepsLeft

\* The steps left are a number, and some are left of a rescan under way.
LEMMA StepsLeftType ==
  ASSUME NEW T \in SUBSET Assets, NEW C \in SUBSET Assets, NEW O \in SUBSET Assets,
         NEW N \in SUBSET FileKinds,
         NEW p \in {"idle", "scan", "upsert", "mark", "count", "gauge"}
  PROVE  StepsLeft(p, T, C, O, N) \in Nat /\ (p # "idle" => StepsLeft(p, T, C, O, N) > 0)
<1>1. /\ Cardinality(T) \in Nat /\ Cardinality(C) \in Nat /\ Cardinality(O) \in Nat
      /\ Cardinality(N) \in 0 .. 4
  BY ListsFinite
<1>2. CASE p = "scan"
  <2>1. StepsLeft(p, T, C, O, N) = 5 + 7 * Cardinality(T) + 6 * Cardinality(C) + Cardinality(O) + Cardinality(N)
    BY <1>2 DEF StepsLeft
  <2>. QED
    BY <1>1, <2>1, SMT
<1>3. CASE p # "scan"
  BY <1>3, StepsLeftAt
<1>. QED
  BY <1>2, <1>3

\* So it is before and after every step of RunRescanJob.
LEMMA WorkType ==
  ASSUME TypeOK, TypeOK', NEW s \in Scanners
  PROVE  /\ RescanWork(s) \in Nat /\ (pc[s] # "idle" => RescanWork(s) > 0)
         /\ RescanWork(s)' \in Nat
<1>1. /\ RescanWork(s) = StepsLeft(pc[s], todo[s], checked[s], open[s], names[s])
      /\ RescanWork(s)' = StepsLeft(pc'[s], todo'[s], checked'[s], open'[s], names'[s])
  BY DEF RescanWork, StepsLeft
<1>. DEFINE Places == {"idle", "scan", "upsert", "mark", "count", "gauge"}
<1>2. /\ pc[s] \in Places /\ todo[s] \in SUBSET Assets /\ open[s] \in SUBSET Assets
      /\ checked[s] \in SUBSET Assets /\ names[s] \in SUBSET FileKinds
  BY DEF TypeOK
<1>3. /\ pc'[s] \in Places /\ todo'[s] \in SUBSET Assets /\ open'[s] \in SUBSET Assets
      /\ checked'[s] \in SUBSET Assets /\ names'[s] \in SUBSET FileKinds
  BY DEF TypeOK
<1>4. /\ StepsLeft(pc[s], todo[s], checked[s], open[s], names[s]) \in Nat
      /\ pc[s] # "idle" => StepsLeft(pc[s], todo[s], checked[s], open[s], names[s]) > 0
  BY <1>2, StepsLeftType
<1>5. StepsLeft(pc'[s], todo'[s], checked'[s], open'[s], names'[s]) \in Nat
  BY <1>3, StepsLeftType
<1>. QED
  BY <1>1, <1>4, <1>5

\* A step within Scan takes a directory, a file or the open directory off the lists.
LEMMA ScanShrinks ==
  ASSUME TypeOK, TypeOK', Bookkeeping, NEW s \in Scanners, NEW a \in Assets,
         \/ LstatAssetDir(s, a) \/ ReadAssetDir(s, a) \/ AssetDirDone(s, a)
         \/ \E f \in AllowedFiles : Info(s, a, f)
  PROVE  RescanWork(s)' < RescanWork(s)
<1>. DEFINE T == Cardinality(todo[s])     T1 == Cardinality(todo'[s])
            C == Cardinality(checked[s])  C1 == Cardinality(checked'[s])
            O == Cardinality(open[s])     O1 == Cardinality(open'[s])
            N == Cardinality(names[s])    N1 == Cardinality(names'[s])
<1>1. /\ todo[s] \in SUBSET Assets /\ checked[s] \in SUBSET Assets
      /\ open[s] \in SUBSET Assets /\ names[s] \in SUBSET FileKinds
      /\ todo'[s] \in SUBSET Assets /\ checked'[s] \in SUBSET Assets
      /\ open'[s] \in SUBSET Assets /\ names'[s] \in SUBSET FileKinds
  BY DEF TypeOK
<1>2. /\ T \in Nat /\ C \in Nat /\ O \in Nat /\ N \in 0 .. 4
      /\ T1 \in Nat /\ C1 \in Nat /\ O1 \in Nat /\ N1 \in 0 .. 4
  BY <1>1, ListsFinite
<1>3. pc[s] = "scan" /\ pc'[s] = "scan"
  BY DEF LstatAssetDir, ReadAssetDir, AssetDirDone, Info
<1>4. /\ RescanWork(s) = 5 + 7 * T + 6 * C + O + N
      /\ RescanWork(s)' = 5 + 7 * T1 + 6 * C1 + O1 + N1
  <2>1. RescanWork(s) = StepsLeft("scan", todo[s], checked[s], open[s], names[s])
    BY <1>3 DEF RescanWork
  <2>2. RescanWork(s)' = StepsLeft("scan", todo'[s], checked'[s], open'[s], names'[s])
    BY <1>3 DEF RescanWork, StepsLeft
  <2>3. StepsLeft("scan", todo[s], checked[s], open[s], names[s]) = 5 + 7 * T + 6 * C + O + N
    BY DEF StepsLeft
  <2>4. StepsLeft("scan", todo'[s], checked'[s], open'[s], names'[s])
          = 5 + 7 * T1 + 6 * C1 + O1 + N1
    BY DEF StepsLeft
  <2>. HIDE DEF T, T1, C, C1, O, O1, N, N1
  <2>. QED
    BY <2>1, <2>2, <2>3, <2>4, Zenon
<1>8. CASE LstatAssetDir(s, a)
  <2>1. /\ a \in todo[s] /\ todo'[s] = todo[s] \ {a} /\ checked[s] = {}
        /\ checked'[s] = {} \/ checked'[s] = {a}
        /\ open' = open /\ names' = names
    BY <1>8 DEF LstatAssetDir, TypeOK
  <2>2. T1 = T - 1 /\ C = 0 /\ C1 \in {0, 1} /\ O1 = O /\ N1 = N
    BY <1>1, <2>1, ListsFinite
  <2>. HIDE DEF T, T1, C, C1, O, O1, N, N1
  <2>. QED
    BY <1>2, <1>4, <2>2, SMT
<1>5. CASE ReadAssetDir(s, a)
  <2>1. /\ todo'[s] = todo[s] /\ checked[s] = {a} /\ checked'[s] = {}
        /\ open[s] = {} /\ open'[s] = {a}
    BY <1>5 DEF ReadAssetDir, TypeOK, Bookkeeping
  <2>2. T1 = T /\ C = 1 /\ C1 = 0 /\ O = 0 /\ O1 = 1
    BY <1>1, <2>1, ListsFinite
  <2>. HIDE DEF T, T1, C, C1, O, O1, N, N1
  <2>. QED
    BY <1>2, <1>4, <2>2, SMT
<1>6. CASE AssetDirDone(s, a)
  <2>1. /\ open[s] = {a} /\ open'[s] = {} /\ names'[s] = {}
        /\ todo'[s] = todo[s] /\ checked'[s] = checked[s]
    BY <1>6 DEF AssetDirDone, TypeOK
  <2>2. T1 = T /\ C1 = C /\ O = 1 /\ O1 = 0 /\ N1 = 0
    BY <2>1, ListsFinite
  <2>. HIDE DEF T, T1, C, C1, O, O1, N, N1
  <2>. QED
    BY <1>2, <1>4, <2>2, SMT
<1>7. ASSUME NEW f \in AllowedFiles, Info(s, a, f) PROVE RescanWork(s)' < RescanWork(s)
  <2>1. /\ f \in names[s] /\ names'[s] = names[s] \ {f} /\ open'[s] = open[s]
        /\ todo'[s] = todo[s] /\ checked'[s] = checked[s]
    BY <1>7 DEF Info, TypeOK
  <2>2. T1 = T /\ C1 = C /\ O1 = O /\ N1 = N - 1
    BY <1>1, <2>1, ListsFinite
  <2>. HIDE DEF T, T1, C, C1, O, O1, N, N1
  <2>. QED
    BY <1>2, <1>4, <2>2, SMT
<1>. QED
  BY <1>5, <1>6, <1>7, <1>8

\* Every step that a rescan takes leaves it less to do, until it returns.
LEMMA ProceedShrinks ==
  ASSUME TypeOK, TypeOK', Bookkeeping, NEW s \in Scanners, Proceed(s)
  PROVE  RescanWork(s)' < RescanWork(s)
<1>1. ASSUME Return(s), pc[s] # "idle" PROVE RescanWork(s)' < RescanWork(s)
  <2>1. pc'[s] = "idle"
    BY <1>1 DEF Return, TypeOK
  <2>2. RescanWork(s)' = 0
    BY <2>1 DEF RescanWork, StepsLeft
  <2>. QED
    BY <1>1, <2>2, WorkType
<1>2. ASSUME NEW a \in Assets, ScanVanished(s, a) PROVE RescanWork(s)' < RescanWork(s)
  BY <1>1, <1>2 DEF ScanVanished
<1>3. CASE ScanDone(s)
  <2>1. /\ pc[s] = "scan" /\ pc'[s] = "upsert" /\ todo[s] = {} /\ checked[s] = {}
        /\ open[s] = {} /\ names[s] \in SUBSET FileKinds
    BY <1>3 DEF ScanDone, TypeOK
  <2>2. RescanWork(s) = 5 + 7 * 0 + 6 * 0 + 0 + Cardinality(names[s]) /\ Cardinality(names[s]) \in 0 .. 4
    <3>1. RescanWork(s) = StepsLeft("scan", {}, {}, {}, names[s])
      BY <2>1 DEF RescanWork
    <3>2. Cardinality({}) = 0 /\ Cardinality(names[s]) \in 0 .. 4
      BY <2>1, ListsFinite
    <3>3. StepsLeft("scan", {}, {}, {}, names[s])
            = 5 + 7 * Cardinality({}) + 6 * Cardinality({}) + Cardinality({}) + Cardinality(names[s])
      BY DEF StepsLeft
    <3>. QED
      BY <3>1, <3>2, <3>3
  <2>3. RescanWork(s)' = 4
    BY <2>1 DEF RescanWork, StepsLeft
  <2>. QED
    BY <2>2, <2>3, SMT
<1>4. CASE UpsertAssets(s)
  <2>1. pc[s] = "upsert" /\ pc'[s] = "mark"
    BY <1>4 DEF UpsertAssets, TypeOK
  <2>2. RescanWork(s) = 4 /\ RescanWork(s)' = 3
    BY <2>1 DEF RescanWork, StepsLeft
  <2>. QED
    BY <2>2, SMT
<1>5. CASE MarkMissing(s)
  <2>1. pc[s] = "mark" /\ pc'[s] = "count"
    BY <1>5 DEF MarkMissing, TypeOK
  <2>2. RescanWork(s) = 3 /\ RescanWork(s)' = 2
    BY <2>1 DEF RescanWork, StepsLeft
  <2>. QED
    BY <2>2, SMT
<1>6. CASE CountActive(s)
  <2>1. CASE Return(s)
    BY <1>1, <1>6, <2>1 DEF CountActive
  <2>2. CASE ~Return(s)
    <3>1. pc[s] = "count" /\ pc'[s] = "gauge"
      BY <1>6, <2>2 DEF CountActive, TypeOK
    <3>2. RescanWork(s) = 2 /\ RescanWork(s)' = 1
      BY <3>1 DEF RescanWork, StepsLeft
    <3>. QED
      BY <3>2, SMT
  <2>. QED
    BY <2>1, <2>2
<1>7. CASE CountMissing(s)
  BY <1>1, <1>7 DEF CountMissing
<1>. QED
  BY <1>2, <1>3, <1>4, <1>5, <1>6, <1>7, ScanShrinks DEF Proceed

\* Only the start of a rescan gives it work: what the tree and the other rescans do is
\* not read again (Scan).
LEMMA OthersAddNoWork ==
  ASSUME TypeOK, TypeOK', Bookkeeping, Next, NEW s \in Scanners, ~StartScan(s)
  PROVE  ~(RescanWork(s)' > RescanWork(s))
<1>0. RescanWork(s) \in Nat
  BY WorkType
<1>1. ASSUME pc'[s] = pc[s], todo'[s] = todo[s], checked'[s] = checked[s],
             open'[s] = open[s], names'[s] = names[s]
      PROVE  ~(RescanWork(s)' > RescanWork(s))
  <2>1. RescanWork(s)' = RescanWork(s)
    BY <1>1 DEF RescanWork, StepsLeft
  <2>. QED
    BY <1>0, <2>1, SMT
<1>2. ASSUME pc'[s] = "idle" PROVE ~(RescanWork(s)' > RescanWork(s))
  <2>1. RescanWork(s)' = 0
    BY <1>2 DEF RescanWork, StepsLeft
  <2>. QED
    BY <1>0, <2>1, SMT
<1>3. CASE Tree
  BY <1>1, <1>3 DEF Tree, WriteFile, RemoveFile, Replace, TreeChanged, scanVars
<1>4. CASE Crash
  BY <1>2, <1>4 DEF Crash
<1>5. CASE Proceed(s)
  <2>1. RescanWork(s)' \in Nat /\ RescanWork(s)' < RescanWork(s)
    BY <1>5, WorkType, ProceedShrinks
  <2>. QED
    BY <1>0, <2>1, SMT
<1>6. CASE Abort(s)
  BY <1>2, <1>6 DEF Abort, Return, TypeOK
<1>7. ASSUME NEW t \in Scanners \ {s}, StartScan(t) \/ Proceed(t) \/ Abort(t)
      PROVE  ~(RescanWork(s)' > RescanWork(s))
  <2>. DEFINE Left == /\ pc'[s] = pc[s] /\ todo'[s] = todo[s] /\ checked'[s] = checked[s]
                      /\ open'[s] = open[s] /\ names'[s] = names[s]
  <2>0. t # s /\ t \in Scanners
    BY <1>7
  <2>1. Return(t) => Left
    BY <2>0 DEF Return, TypeOK
  <2>2. StartScan(t) => Left
    BY <2>0 DEF StartScan, TypeOK
  <2>3. ASSUME NEW a \in Assets,
               LstatAssetDir(t, a) \/ ReadAssetDir(t, a) \/ AssetDirDone(t, a)
        PROVE  Left
    BY <2>0, <2>3 DEF LstatAssetDir, ReadAssetDir, AssetDirDone, TypeOK
  <2>4. ASSUME NEW a \in Assets, NEW f \in AllowedFiles, Info(t, a, f) PROVE Left
    BY <2>0, <2>4 DEF Info, TypeOK
  <2>5. ScanDone(t) \/ UpsertAssets(t) \/ MarkMissing(t) => Left
    BY <2>0 DEF ScanDone, UpsertAssets, MarkMissing, TypeOK
  <2>6. CountActive(t) => Left
    BY <2>0, <2>1 DEF CountActive, TypeOK
  <2>7. CountMissing(t) \/ Abort(t) \/ (\E a \in Assets : ScanVanished(t, a)) => Left
    BY <2>1 DEF CountMissing, Abort, ScanVanished
  <2>8. Left
    <3>. HIDE DEF Left
    <3>. QED
      BY <1>7, <2>2, <2>3, <2>4, <2>5, <2>6, <2>7 DEF Proceed
  <2>. QED
    BY <1>1, <2>8
<1>. QED
  BY <1>3, <1>4, <1>5, <1>6, <1>7 DEF Next

\* RescanShrinks: the safety half of EventuallyIndexed.  A rescan ends after a number of
\* steps that the first listing bounds, however the tree changes under it (Scan).
THEOREM RescansShrink == Spec => RescanShrinks
<1>1. IInv /\ IInv' /\ [Next]_vars =>
        [\A s \in Scanners :
           /\ Proceed(s) => RescanWork(s)' < RescanWork(s)
           /\ RescanWork(s)' > RescanWork(s) => StartScan(s)]_vars
  BY ProceedShrinks, OthersAddNoWork DEF IInv
<1>. QED
  BY <1>1, Invariance, PTL DEF Spec, RescanShrinks
=============================================================================
