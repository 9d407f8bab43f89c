--------------------------- MODULE IdentityStore ----------------------------
(***************************************************************************)
(* The provider's identity: loaded from a file when there is one, else     *)
(* generated and saved by writing a temporary file, syncing it, renaming   *)
(* it into place and setting its mode.  The process may be killed at any   *)
(* point, the machine may lose power, and a second process may be started  *)
(* on the same data path.                                                  *)
(*                                                                         *)
(* An identity, a provider id and its key pair, is the number it was       *)
(* generated as.  The temporary name is new each time and never read, so   *)
(* only the file it becomes is kept.  The directory is not synced: a       *)
(* rename is lost with the power until the system happens to write the     *)
(* directory back.                                                         *)
(***************************************************************************)
EXTENDS Naturals

CONSTANTS
  Processes,
  Absent, Torn,      \* no file; a file that is not a whole identity
  MaxFaults, MaxPowerLosses   \* bounds: errors and killed processes; power losses

ASSUME IdentityStoreAssumption ==
  /\ {Absent, Torn} \cap Nat = {}
  /\ Absent # Torn
  /\ MaxFaults \in Nat /\ MaxPowerLosses \in Nat

VARIABLES
  file,           \* what the processes find under the name
  durable,        \* what they would find after a power loss
  synced,         \* whether the content of the file is on the disk
  pc, id,         \* of each process: where LoadOrCreate stands, and its result
  tempSynced,     \* processes whose temporary file is on the disk
  generated,      \* how many identities have been generated
  faults, powerLosses,
  \* history, read by no action
  used,           \* identities a provider has come up with
  beside          \* processes that were started while another one was running

vars == <<file, durable, synced, pc, id, tempSynced, generated, faults, powerLosses, used,
          beside>>
diskVars == <<file, durable, synced>>
historyVars == <<used, beside>>

Identities == Nat
Contents == Identities \cup {Absent, Torn}

TypeOK ==
  /\ file \in Contents
  /\ durable \in Contents
  /\ synced \in BOOLEAN
  /\ pc \in [Processes -> {"down", "load", "create", "write", "sync", "rename", "chmod", "up"}]
  /\ id \in [Processes -> Identities \cup {Absent}]
  /\ tempSynced \subseteq Processes
  /\ generated \in Nat
  /\ faults \in Nat /\ powerLosses \in Nat
  /\ used \subseteq Identities
  /\ beside \subseteq Processes

\* a new data path
Init ==
  /\ file = Absent
  /\ durable = Absent
  /\ synced = TRUE
  /\ pc = [p \in Processes |-> "down"]
  /\ id = [p \in Processes |-> Absent]
  /\ tempSynced = {}
  /\ generated = 0
  /\ faults = 0 /\ powerLosses = 0
  /\ used = {}
  /\ beside = {}

Fault ==
  /\ faults < MaxFaults
  /\ faults' = faults + 1

\* the process ends: main exits on any error of LoadOrCreate
Exit(p) ==
  /\ pc' = [pc EXCEPT ![p] = "down"]
  /\ id' = [id EXCEPT ![p] = Absent]
  /\ tempSynced' = tempSynced \ {p}
  /\ UNCHANGED <<diskVars, generated, powerLosses, historyVars>>

Up(p, i) ==
  /\ pc' = [pc EXCEPT ![p] = "up"]
  /\ id' = [id EXCEPT ![p] = i]
  /\ used' = used \cup {i}
  /\ UNCHANGED beside

Start(p) ==
  /\ pc[p] = "down"
  /\ pc' = [pc EXCEPT ![p] = "load"]
  /\ beside' = IF \A q \in Processes : pc[q] = "down" THEN beside ELSE beside \cup {p}
  /\ UNCHANGED <<diskVars, id, tempSynced, generated, faults, powerLosses, used>>

-----------------------------------------------------------------------------
(* LoadOrCreate *)

Load(p) ==
  /\ pc[p] = "load"
  /\ file \in Identities
  /\ Up(p, file)
  /\ UNCHANGED <<diskVars, tempSynced, generated, faults, powerLosses>>

\* mutant: any error of Load leads to a new identity
LoadFailsCreates(p) ==
  /\ pc[p] = "load"
  /\ Fault
  /\ pc' = [pc EXCEPT ![p] = "create"]
  /\ UNCHANGED <<diskVars, id, tempSynced, generated, powerLosses, historyVars>>

\* the file cannot be read, or it is not a whole and consistent identity
LoadFails(p) ==
  /\ pc[p] = "load"
  /\ file = Torn \/ faults < MaxFaults
  /\ faults' = IF file = Torn THEN faults ELSE faults + 1
  /\ Exit(p)

NotFound(p) ==
  /\ pc[p] = "load"
  /\ file = Absent
  /\ pc' = [pc EXCEPT ![p] = "create"]
  /\ UNCHANGED <<diskVars, id, tempSynced, generated, faults, powerLosses, historyVars>>

newIdentity(p) ==
  /\ pc[p] = "create"
  /\ generated' = generated + 1
  /\ id' = [id EXCEPT ![p] = generated + 1]
  /\ pc' = [pc EXCEPT ![p] = "write"]
  /\ UNCHANGED <<diskVars, tempSynced, faults, powerLosses, historyVars>>

-----------------------------------------------------------------------------
(* Save *)

\* CreateTemp, enforce0600 and Write: nothing is sure to be on the disk yet
WriteTemp(p) ==
  /\ pc[p] = "write"
  /\ pc' = [pc EXCEPT ![p] = "sync"]
  /\ UNCHANGED <<diskVars, id, tempSynced, generated, faults, powerLosses, historyVars>>

\* mutant: the file is closed but not synced
SyncSkipped(p) ==
  /\ pc[p] = "sync"
  /\ pc' = [pc EXCEPT ![p] = "rename"]
  /\ UNCHANGED <<diskVars, id, tempSynced, generated, faults, powerLosses, historyVars>>

\* Sync and Close
Sync(p) ==
  /\ pc[p] = "sync"
  /\ tempSynced' = tempSynced \cup {p}
  /\ pc' = [pc EXCEPT ![p] = "rename"]
  /\ UNCHANGED <<diskVars, id, generated, faults, powerLosses, historyVars>>

\* whatever is there by now is replaced
Rename(p) ==
  /\ pc[p] = "rename"
  /\ file' = id[p]
  /\ synced' = (p \in tempSynced)
  /\ tempSynced' = tempSynced \ {p}
  /\ pc' = [pc EXCEPT ![p] = "chmod"]
  /\ UNCHANGED <<durable, id, generated, faults, powerLosses, historyVars>>

\* enforce0600 on the file in place
Chmod(p) ==
  /\ pc[p] = "chmod"
  /\ Up(p, id[p])
  /\ UNCHANGED <<diskVars, tempSynced, generated, faults, powerLosses>>

\* Any call fails.  Before the rename the temporary file is removed; after it,
\* the new identity stays in place and the next start will load it.
SaveFails(p) ==
  /\ pc[p] \in {"create", "write", "sync", "rename", "chmod"}
  /\ Fault
  /\ Exit(p)

-----------------------------------------------------------------------------
(* The environment. *)

\* killed at any moment
Crash(p) ==
  /\ pc[p] # "down"
  /\ Fault
  /\ Exit(p)

\* an orderly stop
Stop(p) ==
  /\ pc[p] = "up"
  /\ Exit(p)
  /\ UNCHANGED faults

\* the system writes the directory back, with or without content not synced
Flush ==
  /\ durable # file
  /\ durable' \in {file} \cup (IF synced THEN {} ELSE {Torn})
  /\ UNCHANGED <<file, synced, pc, id, tempSynced, generated, faults, powerLosses, historyVars>>

PowerLoss ==
  /\ powerLosses < MaxPowerLosses
  /\ powerLosses' = powerLosses + 1
  /\ file' = durable
  /\ synced' = TRUE
  /\ pc' = [p \in Processes |-> "down"]
  /\ id' = [p \in Processes |-> Absent]
  /\ tempSynced' = {}
  /\ UNCHANGED <<durable, generated, faults, historyVars>>

-----------------------------------------------------------------------------
LoadOrCreate(p) ==
  \/ Load(p) \/ LoadFails(p) \/ NotFound(p) \/ newIdentity(p)
  \/ WriteTemp(p) \/ Sync(p) \/ Rename(p) \/ Chmod(p)

Next ==
  \/ \E p \in Processes :
       Start(p) \/ LoadOrCreate(p) \/ SaveFails(p) \/ Crash(p) \/ Stop(p)
  \/ Flush
  \/ PowerLoss

Spec == Init /\ [][Next]_vars

\* The supervisor starts the provider again whenever it has ended, and a process
\* that can run does run.
FairSpec ==
  Spec /\ \A p \in Processes : WF_vars(Start(p)) /\ WF_vars(LoadOrCreate(p))

-----------------------------------------------------------------------------
\* WholeOrAbsent.  Whenever the process is killed and the power lost, and however
\* many processes save at once, a start finds either no identity or a whole one,
\* never one that Load rejects (Save: temporary file, Sync, Rename).
WholeOrAbsent == file # Torn /\ durable # Torn

Atomic == INSTANCE AtomicFile WITH Values <- Identities, NoFile <- Absent

\* AtomicSave.  Save, with its temporary file, its errors and its crashes, by any
\* number of processes, implements a file that is replaced in one step: what is
\* read, before and after a power loss, is a whole identity that was in place.
AtomicSave == Atomic!Spec

\* only one process at a time, on a machine that has kept its power
Alone == powerLosses = 0 /\ beside = {}

OneUsed == \A i, j \in used : i = j

\* IdentityKept.  As long as one process at a time runs and the power stays on, all
\* starts come up with the same identity, also when starts before were cut short
\* or failed anywhere in Load or Save (LoadOrCreate).
IdentityKept == Alone => OneUsed

\* GeneratedOnce.  The README: "Identity is loaded from disk if present; otherwise
\* generated once", that is, all starts come up with the same identity (LoadOrCreate).
GeneratedOnce == beside = {} => OneUsed

\* ComesUp.  Errors, killed processes and power losses never leave the data path in
\* a state from which the provider cannot start: it comes up again and again
\* (Load accepts whatever Save has left behind).
ComesUp == \A p \in Processes : []<>(pc[p] = "up")

-----------------------------------------------------------------------------
(* The parts of the inductive invariant behind the properties above. *)

\* what is renamed, and what is in place, is on the disk
SyncedFirst ==
  /\ synced
  /\ \A p \in Processes : pc[p] = "rename" => p \in tempSynced

Holding == {"write", "sync", "rename", "chmod", "up"}

HoldsIdentity == \A p \in Processes : pc[p] \in Holding => id[p] \in Identities

\* then what has been used is what is in place, and it is never replaced
InPlace ==
  /\ \A p, q \in Processes : pc[p] # "down" /\ pc[q] # "down" => p = q
  /\ used # {} => file \in Identities /\ used = {file}
  /\ \A p \in Processes :
       /\ pc[p] \in {"create", "write", "sync", "rename"} => file = Absent
       /\ pc[p] \in {"chmod", "up"} => file = id[p]

\* StoreInv.  The inductive invariant: content reaches the disk before its name does
\* (Save), and a process that is alone generates only while there is no file.
StoreInv ==
  /\ TypeOK
  /\ WholeOrAbsent
  /\ SyncedFirst
  /\ HoldsIdentity
  /\ Alone => InPlace
=============================================================================
