------------------------- MODULE IdentityStoreProofs ------------------------
(* Proofs for IdentityStore: a start never finds a torn identity, and a     *)
(* provider that is alone on a machine that keeps its power has one         *)
(* identity for ever.                                                       *)
EXTENDS IdentityStore, TLAPS

\* On a new data path the invariant holds: nothing is in place or in use
\* (LoadOrCreate has not run).
LEMMA InitInv == Init => StoreInv
  BY IdentityStoreAssumption
  DEF Init, StoreInv, TypeOK, Contents, WholeOrAbsent, SyncedFirst, HoldsIdentity, Holding,
      InPlace, Alone, Identities

\* A process that ends (main after an error, a kill, a stop) leaves the file alone,
\* so the invariant holds for the others and for the next start.
LEMMA ExitStep ==
  ASSUME StoreInv, NEW p \in Processes, Exit(p), faults' \in Nat
  PROVE  StoreInv'
<1>1. TypeOK'
  BY DEF StoreInv, TypeOK, Exit, diskVars, historyVars
<1>2. WholeOrAbsent' /\ SyncedFirst' /\ HoldsIdentity'
  BY DEF StoreInv, TypeOK, WholeOrAbsent, SyncedFirst, HoldsIdentity, Holding, Exit, diskVars
<1>3. Alone' => InPlace'
  BY DEF StoreInv, TypeOK, Alone, InPlace, Exit, diskVars, historyVars
<1> QED
  BY <1>1, <1>2, <1>3 DEF StoreInv

\* A start reads nothing yet.
LEMMA StartStep ==
  ASSUME StoreInv, NEW p \in Processes, Start(p)
  PROVE  StoreInv'
<1>1. TypeOK'
  BY DEF StoreInv, TypeOK, Start, diskVars, historyVars
<1>2. WholeOrAbsent' /\ SyncedFirst' /\ HoldsIdentity'
  BY DEF StoreInv, TypeOK, WholeOrAbsent, SyncedFirst, HoldsIdentity, Holding, Start, diskVars
<1>3. ASSUME Alone' PROVE InPlace'
  <2>1. Alone /\ \A q \in Processes : pc[q] = "down"
    BY <1>3 DEF Alone, Start
  <2> QED
    BY <2>1 DEF StoreInv, TypeOK, InPlace, Start, diskVars
<1> QED
  BY <1>1, <1>2, <1>3 DEF StoreInv

\* What Load returns is what is in place, so a process that is alone uses nothing
\* else.
LEMMA LoadStep ==
  ASSUME StoreInv, NEW p \in Processes, Load(p)
  PROVE  StoreInv'
<1>1. TypeOK'
  BY DEF StoreInv, TypeOK, Load, Up, diskVars, historyVars
<1>2. WholeOrAbsent' /\ SyncedFirst' /\ HoldsIdentity'
  BY DEF StoreInv, TypeOK, WholeOrAbsent, SyncedFirst, HoldsIdentity, Holding, Load, Up,
         diskVars, historyVars
<1>3. ASSUME Alone' PROVE InPlace'
  <2>1. InPlace
    BY <1>3 DEF StoreInv, Alone, Load, Up, diskVars
  <2>2. \A q \in Processes : q # p => pc'[q] = "down"
    BY <2>1 DEF StoreInv, TypeOK, InPlace, Load, Up, diskVars
  <2>3. used' = {file'} /\ file' \in Identities
    BY <2>1 DEF InPlace, Load, Up, diskVars
  <2>4. pc'[p] = "up" /\ id'[p] = file'
    BY DEF StoreInv, TypeOK, Load, Up, diskVars
  <2> QED
    BY <2>2, <2>3, <2>4 DEF InPlace
<1> QED
  BY <1>1, <1>2, <1>3 DEF StoreInv

\* A new identity is drawn only after Load has found no file.
LEMMA CreateStep ==
  ASSUME StoreInv, NEW p \in Processes, NotFound(p) \/ newIdentity(p)
  PROVE  StoreInv'
<1>1. TypeOK' /\ HoldsIdentity'
  <2>1. CASE NotFound(p)
    BY <2>1 DEF StoreInv, TypeOK, HoldsIdentity, Holding, NotFound, diskVars, historyVars
  <2>2. CASE newIdentity(p)
    <3> DEFINE i == generated + 1
    <3>1. i \in Identities /\ i \in Nat
      BY DEF StoreInv, TypeOK, Identities
    <3>2. generated' = i /\ id' = [id EXCEPT ![p] = i]
      BY <2>2 DEF newIdentity
    <3> HIDE DEF i
    <3>3. /\ pc' = [pc EXCEPT ![p] = "write"]
          /\ UNCHANGED <<file, durable, synced, tempSynced, faults, powerLosses, used, beside>>
      BY <2>2 DEF newIdentity, diskVars, historyVars
    <3> QED
      BY <3>1, <3>2, <3>3 DEF StoreInv, TypeOK, HoldsIdentity, Holding
  <2> QED
    BY <2>1, <2>2
<1>2. WholeOrAbsent' /\ SyncedFirst'
  BY DEF StoreInv, TypeOK, WholeOrAbsent, SyncedFirst, NotFound, newIdentity, diskVars
<1>3. ASSUME Alone' PROVE InPlace'
  <2>1. InPlace
    BY <1>3 DEF StoreInv, Alone, NotFound, newIdentity, diskVars, historyVars
  <2>2. \A q \in Processes : q # p => pc'[q] = "down"
    BY <2>1 DEF StoreInv, TypeOK, InPlace, NotFound, newIdentity, diskVars, historyVars
  <2>3. file' = Absent /\ used' = {}
    BY <2>1, IdentityStoreAssumption
    DEF InPlace, Identities, NotFound, newIdentity, diskVars, historyVars
  <2>4. pc'[p] \in {"create", "write"}
    BY DEF StoreInv, TypeOK, NotFound, newIdentity
  <2> QED
    BY <2>2, <2>3, <2>4 DEF InPlace
<1> QED
  BY <1>1, <1>2, <1>3 DEF StoreInv

\* Writing and syncing the temporary file change nothing under the name; after
\* Sync the content is on the disk.
LEMMA WriteStep ==
  ASSUME StoreInv, NEW p \in Processes, WriteTemp(p) \/ Sync(p)
  PROVE  StoreInv'
<1>1. TypeOK'
  BY DEF StoreInv, TypeOK, WriteTemp, Sync, diskVars, historyVars
<1>2. WholeOrAbsent' /\ SyncedFirst' /\ HoldsIdentity'
  BY DEF StoreInv, TypeOK, WholeOrAbsent, SyncedFirst, HoldsIdentity, Holding, WriteTemp,
         Sync, diskVars, historyVars
<1>3. ASSUME Alone' PROVE InPlace'
  <2>1. InPlace
    BY <1>3 DEF StoreInv, Alone, WriteTemp, Sync, historyVars
  <2> QED
    BY <2>1 DEF StoreInv, TypeOK, InPlace, WriteTemp, Sync, diskVars, historyVars
<1> QED
  BY <1>1, <1>2, <1>3 DEF StoreInv

\* Rename puts a whole identity in place whose content is on the disk; a process
\* that is alone replaces nothing.
LEMMA RenameStep ==
  ASSUME StoreInv, NEW p \in Processes, Rename(p)
  PROVE  StoreInv'
<1>1. id[p] \in Identities /\ p \in tempSynced
  BY DEF StoreInv, HoldsIdentity, Holding, SyncedFirst, Rename
<1>2. TypeOK'
  BY <1>1 DEF StoreInv, TypeOK, Contents, Rename, historyVars
<1>3. WholeOrAbsent' /\ HoldsIdentity'
  BY <1>1, IdentityStoreAssumption
  DEF StoreInv, TypeOK, WholeOrAbsent, HoldsIdentity, Holding, Identities, Rename
<1>4. SyncedFirst'
  BY <1>1 DEF StoreInv, TypeOK, SyncedFirst, Rename
<1>5. ASSUME Alone' PROVE InPlace'
  <2>1. InPlace
    BY <1>5 DEF StoreInv, Alone, Rename, historyVars
  <2>2. \A q \in Processes : q # p => pc'[q] = "down"
    BY <2>1 DEF StoreInv, TypeOK, InPlace, Rename, historyVars
  <2>3. used' = {}
    BY <2>1, IdentityStoreAssumption DEF InPlace, Identities, Rename, historyVars
  <2>4. pc'[p] = "chmod" /\ file' = id'[p]
    BY DEF StoreInv, TypeOK, Rename
  <2> QED
    BY <2>2, <2>3, <2>4 DEF InPlace
<1> QED
  BY <1>2, <1>3, <1>4, <1>5 DEF StoreInv

\* The identity a process comes up with after Save is the one in place.
LEMMA ChmodStep ==
  ASSUME StoreInv, NEW p \in Processes, Chmod(p)
  PROVE  StoreInv'
<1>1. id[p] \in Identities
  BY DEF StoreInv, HoldsIdentity, Holding, Chmod
<1>2. TypeOK'
  BY <1>1 DEF StoreInv, TypeOK, Chmod, Up, diskVars, historyVars
<1>3. WholeOrAbsent' /\ SyncedFirst' /\ HoldsIdentity'
  BY <1>1 DEF StoreInv, TypeOK, WholeOrAbsent, SyncedFirst, HoldsIdentity, Holding, Chmod, Up,
              diskVars, historyVars
<1>4. ASSUME Alone' PROVE InPlace'
  <2>1. InPlace
    BY <1>4 DEF StoreInv, Alone, Chmod, Up, diskVars
  <2>2. \A q \in Processes : q # p => pc'[q] = "down"
    BY <2>1 DEF StoreInv, TypeOK, InPlace, Chmod, Up, diskVars
  <2>3. used' = {file'} /\ file' \in Identities
    BY <1>1, <2>1 DEF InPlace, Chmod, Up, diskVars
  <2>4. pc'[p] = "up" /\ file' = id'[p]
    BY <2>1 DEF StoreInv, TypeOK, InPlace, Chmod, Up, diskVars
  <2> QED
    BY <2>2, <2>3, <2>4 DEF InPlace
<1> QED
  BY <1>2, <1>3, <1>4 DEF StoreInv

\* What the system writes back has its content on the disk, and a power loss
\* brings back a whole identity or none.
LEMMA DiskStep ==
  ASSUME StoreInv, Flush \/ PowerLoss
  PROVE  StoreInv'
<1>1. CASE Flush
  <2>1. TypeOK'
    BY <1>1 DEF StoreInv, TypeOK, Flush, SyncedFirst, historyVars
  <2>2. WholeOrAbsent' /\ SyncedFirst' /\ HoldsIdentity'
    BY <1>1 DEF StoreInv, TypeOK, WholeOrAbsent, SyncedFirst, HoldsIdentity, Holding, Flush
  <2>3. Alone' => InPlace'
    BY <1>1 DEF StoreInv, Alone, InPlace, Flush, historyVars
  <2> QED
    BY <2>1, <2>2, <2>3 DEF StoreInv
<1>2. CASE PowerLoss
  <2>1. TypeOK'
    BY <1>2 DEF StoreInv, TypeOK, PowerLoss, historyVars
  <2>2. WholeOrAbsent' /\ SyncedFirst' /\ HoldsIdentity'
    BY <1>2 DEF StoreInv, TypeOK, WholeOrAbsent, SyncedFirst, HoldsIdentity, Holding, PowerLoss
  <2>3. ~Alone'
    BY <1>2 DEF StoreInv, TypeOK, Alone, PowerLoss
  <2> QED
    BY <2>1, <2>2, <2>3 DEF StoreInv
<1> QED
  BY <1>1, <1>2

\* Every step of LoadOrCreate, Save and the environment preserves the invariant.
LEMMA NextInv == StoreInv /\ [Next]_vars => StoreInv'
<1> SUFFICES ASSUME StoreInv, [Next]_vars
             PROVE  StoreInv'
  OBVIOUS
<1>1. CASE UNCHANGED vars
  BY <1>1 DEF StoreInv, TypeOK, WholeOrAbsent, SyncedFirst, HoldsIdentity, Holding, InPlace,
              Alone, vars
<1>2. ASSUME NEW p \in Processes, Start(p) PROVE StoreInv'
  BY <1>2, StartStep
<1>3. ASSUME NEW p \in Processes, LoadOrCreate(p) PROVE StoreInv'
  <2>1. CASE LoadFails(p)
    BY <2>1, ExitStep DEF LoadFails, StoreInv, TypeOK
  <2> QED
    BY <1>3, <2>1, LoadStep, CreateStep, WriteStep, RenameStep, ChmodStep DEF LoadOrCreate
<1>4. ASSUME NEW p \in Processes, SaveFails(p) \/ Crash(p) \/ Stop(p) PROVE StoreInv'
  BY <1>4, ExitStep DEF SaveFails, Crash, Stop, Fault, StoreInv, TypeOK
<1>5. CASE Flush \/ PowerLoss
  BY <1>5, DiskStep
<1> QED
  BY <1>1, <1>2, <1>3, <1>4, <1>5 DEF Next

\* The invariant of LoadOrCreate and Save holds in every behaviour, for any number
\* of processes, faults and power losses.
THEOREM Invariance == Spec => []StoreInv
  BY InitInv, NextInv, PTL DEF Spec

\* Every variable of the identity store keeps its type in every behaviour.
THEOREM TypeCorrect == Spec => []TypeOK
<1>1. StoreInv => TypeOK
  BY DEF StoreInv
<1> QED
  BY <1>1, Invariance, PTL

\* WholeOrAbsent holds in every behaviour: no crash and no power loss in the middle of
\* Save, and no second process, makes a later Load reject the file.
THEOREM NeverTorn == Spec => []WholeOrAbsent
<1>1. StoreInv => WholeOrAbsent
  BY DEF StoreInv
<1> QED
  BY <1>1, Invariance, PTL

\* Under the invariant every step replaces the file by a whole identity (Rename), writes
\* back what is in place (Flush), brings back what is on the disk (PowerLoss), or
\* leaves both alone.
LEMMA AtomicStep ==
  StoreInv /\ [Next]_vars =>
    [Atomic!Replace \/ Atomic!WriteBack \/ Atomic!LosePower]_<<file, durable>>
<1> SUFFICES ASSUME StoreInv, [Next]_vars, ~UNCHANGED <<file, durable>>
             PROVE  Atomic!Replace \/ Atomic!WriteBack \/ Atomic!LosePower
  OBVIOUS
<1>1. ASSUME NEW p \in Processes, Rename(p) PROVE Atomic!Replace
  BY <1>1 DEF StoreInv, HoldsIdentity, Holding, Rename, Atomic!Replace
<1>2. ASSUME Flush PROVE Atomic!WriteBack
  BY <1>2 DEF StoreInv, SyncedFirst, Flush, Atomic!WriteBack
<1>3. ASSUME PowerLoss PROVE Atomic!LosePower
  BY <1>3 DEF PowerLoss, Atomic!LosePower
<1>4. ASSUME NEW p \in Processes, Start(p) \/ SaveFails(p) \/ Crash(p) \/ Stop(p)
      PROVE  FALSE
  BY <1>4 DEF Start, SaveFails, Crash, Stop, Exit, diskVars
<1>5. ASSUME NEW p \in Processes, LoadOrCreate(p), ~Rename(p)
      PROVE  FALSE
  BY <1>5 DEF LoadOrCreate, Load, LoadFails, NotFound, newIdentity, WriteTemp, Sync, Chmod,
              Exit, diskVars
<1> QED
  BY <1>1, <1>2, <1>3, <1>4, <1>5 DEF Next, vars

\* AtomicSave holds in every behaviour: the temporary file, Sync and Rename of Save
\* implement a file that is replaced in one step.
THEOREM SaveIsAtomic == Spec => AtomicSave
<1>1. Init => Atomic!Init
  BY DEF Init, Atomic!Init
<1> QED
  BY <1>1, AtomicStep, Invariance, PTL DEF Spec, AtomicSave, Atomic!Spec

\* IdentityKept holds in every behaviour: as long as one process at a time runs and
\* the power stays on, LoadOrCreate never returns a second identity, whatever fails
\* in Load and Save and whenever the process is killed.
THEOREM OneIdentity == Spec => []IdentityKept
<1>1. StoreInv => IdentityKept
  BY DEF StoreInv, InPlace, IdentityKept, OneUsed
<1> QED
  BY <1>1, Invariance, PTL
=============================================================================
