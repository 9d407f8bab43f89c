------------------------------ MODULE Startup -------------------------------
(***************************************************************************)
(* main, from the environment to a process that serves: the two checks of  *)
(* the settings, the directories, the identity, the secret of the origin,  *)
(* the database and its migration, the first scan and the catalog client;  *)
(* and then /readyz.  Two processes may start on one data path, a          *)
(* supervisor starts again what has ended, and the secret and the tree of  *)
(* assets may change at any time.                                          *)
(*                                                                         *)
(* What the identity, a scan or a call to the catalog do is in the other   *)
(* modules: here each succeeds or fails.                                   *)
(***************************************************************************)
EXTENDS Settings, Migration

CONSTANT Starts   \* the environments, and the files there are, to start from

ASSUME StartupAssumption ==
  Starts \subseteq [env: Environments, schema: Committed!Schemas,
                   secret: {"missing", "short", "long"}, root: {"none", "file", "dir", "link"}]

VARIABLES
  env,          \* the environment of the processes
  cfg,          \* what config.Load makes of it
  secret,       \* the file with the secret: "missing", "short" or "long"
  root,         \* under the assets path: "none", "file", "dir", or "link" for a
                \* directory with a symbolic link in it
  signer,       \* signer[p]: the origin's signer, nil when the secret is unusable
  lastErr,      \* lastErr[p]: of the catalog's HealthState
  answer        \* answer[p]: what /readyz last said, "" before

diskVars == <<env, cfg, secret, root>>
mainVars == <<signer, lastErr, answer>>
vars == <<dbVars, pc, faults, diskVars, mainVars>>

Unchecked == {"down", "config", "validate"}
Booted == {"scan", "catalog", "up"}
Opened == {"open", "begin"} \cup InTx \cup Booted

TypeOK ==
  /\ schema \in Committed!Schemas
  /\ writer \in {{}} \cup {{p} : p \in Processes}
  /\ pc \in [Processes -> Unchecked \cup {"identity", "secret"} \cup Opened]
  /\ work \in [Processes -> Committed!Schemas]
  /\ faults \in Nat
  /\ env \in Environments
  /\ cfg = Load(env)
  /\ secret \in {"missing", "short", "long"}
  /\ root \in {"none", "file", "dir", "link"}
  /\ signer \in [Processes -> {"off", "nilptr", "ready"}]
  /\ lastErr \in [Processes -> {"", "error"}]
  /\ answer \in [Processes -> {"", "ready", "not_ready"}]

Init ==
  /\ \E s \in Starts : env = s.env /\ schema = s.schema /\ secret = s.secret /\ root = s.root
  /\ cfg = Load(env)
  /\ writer = {}
  /\ pc = [p \in Processes |-> "down"]
  /\ work = [p \in Processes |-> NoWork]
  /\ signer = [p \in Processes |-> "off"]
  /\ lastErr = [p \in Processes |-> ""]
  /\ answer = [p \in Processes |-> ""]
  /\ faults = 0

-----------------------------------------------------------------------------
Goto(p, label) == pc' = [pc EXCEPT ![p] = label]

Forget(p) ==
  /\ signer' = [signer EXCEPT ![p] = "off"]
  /\ lastErr' = [lastErr EXCEPT ![p] = ""]
  /\ answer' = [answer EXCEPT ![p] = ""]

\* os.Exit, or killed
Exit(p) == Ended(p) /\ Forget(p)

Start(p) ==
  /\ pc[p] = "down"
  /\ Goto(p, "config")
  /\ UNCHANGED <<dbVars, faults, diskVars, mainVars>>

EnvCheck(p) ==
  /\ pc[p] = "config"
  /\ \/ envcheckValidate(env) /\ Goto(p, "validate") /\ UNCHANGED <<dbVars, mainVars>>
     \/ ~envcheckValidate(env) /\ Exit(p)
  /\ UNCHANGED <<faults, diskVars>>

\* the directories are created before the later checks are made
Validate(p) ==
  /\ pc[p] = "validate"
  /\ root' = IF root = "none" /\ ValidatePaths(cfg) THEN "dir" ELSE root
  /\ \/ ValidateConfig(cfg, secret) /\ root # "file" /\ Goto(p, "identity")
          /\ UNCHANGED <<dbVars, mainVars>>
     \/ ~(ValidateConfig(cfg, secret) /\ root # "file") /\ Exit(p)
  /\ UNCHANGED <<faults, env, cfg, secret>>

\* MkdirAll again, the audit of symbolic links, which is only logged, and
\* identity.LoadOrCreate
LoadIdentity(p) ==
  /\ pc[p] = "identity"
  /\ \/ root # "file" /\ Goto(p, "secret") /\ UNCHANGED <<dbVars, mainVars>>
     \/ root = "file" /\ Exit(p)
  /\ root' = IF root = "none" THEN "dir" ELSE root
  /\ UNCHANGED <<faults, env, cfg, secret>>

\* the secret file is read for the second time; what is wrong with it by now
\* is only logged, and leaves the pointer to the signer nil
ReadSecret(p) ==
  /\ pc[p] = "secret"
  /\ signer' = [signer EXCEPT ![p] =
       IF normalizeOriginAuthMode(cfg) # "hmac" THEN "off"
       ELSE IF secret = "long" THEN "ready" ELSE "nilptr"]
  /\ Goto(p, "open")
  /\ UNCHANGED <<dbVars, faults, diskVars, lastErr, answer>>

\* db.Open and db.Migrate; main exits when one of them fails
Database(p) ==
  /\ Open(p) \/ OpenBusy(p) \/ Migrate(p)
  /\ IF pc'[p] = "down" THEN Forget(p) ELSE UNCHANGED mainVars
  /\ UNCHANGED diskVars

\* RunRescan when ScanOnStartup is set: Scan makes a root that is gone once more, and
\* fails on a file in its place
StartupScan(p) ==
  /\ pc[p] = "scan"
  /\ \/ /\ ~cfg.flag.ScanOnStartup \/ root # "file"
        /\ Goto(p, "catalog")
        /\ UNCHANGED <<dbVars, mainVars>>
     \/ cfg.flag.ScanOnStartup /\ root = "file" /\ Exit(p)
  /\ root' = IF cfg.flag.ScanOnStartup /\ root = "none" THEN "dir" ELSE root
  /\ UNCHANGED <<faults, env, cfg, secret>>

\* the errors Client.EnsureProvider may come back with
EnsureProvider(c) == IF c.word.PublicBaseURL = "" THEN {"error"} ELSE {"", "error"}

\* NewHealthState, NewClient and EnsureProvider: an error is recorded, and the
\* server and the jobs start all the same
ConnectCatalog(p) ==
  /\ pc[p] = "catalog"
  /\ \E err \in IF cfg.word.CatalogBaseURL = "" THEN {""}
                ELSE IF HasCatalogClient(cfg) THEN EnsureProvider(cfg) ELSE {"error"} :
       lastErr' = [lastErr EXCEPT ![p] = err]
  /\ Goto(p, "up")
  /\ UNCHANGED <<dbVars, faults, diskVars, signer, answer>>

-----------------------------------------------------------------------------
\* whether the walk through the assets finds a symbolic link
AuditNoSymlinks == root = "link"

\* mutant: the signer is wanted in proxy mode only
ReadyWithoutOrigin(p) ==
  /\ root \in {"dir", "link"}
  /\ cfg.flag.EnforceNoSymlinks => ~AuditNoSymlinks
  /\ normalizeStorageMode(cfg) = "proxy" => signer[p] # "nilptr"

\* the readiness checker: the directory, the audit, the secret as it was at start
Ready(p) ==
  /\ root \in {"dir", "link"}
  /\ cfg.flag.EnforceNoSymlinks => ~AuditNoSymlinks
  /\ signer[p] # "nilptr"

\* GET /readyz; a failing ping or audit says not_ready as well
Readyz(p) ==
  /\ pc[p] = "up"
  /\ answer' = [answer EXCEPT ![p] = IF Ready(p) THEN "ready" ELSE "not_ready"]
  /\ UNCHANGED <<dbVars, pc, faults, diskVars, signer, lastErr>>

ReadyzFails(p) ==
  /\ pc[p] = "up"
  /\ Fault
  /\ answer' = [answer EXCEPT ![p] = "not_ready"]
  /\ UNCHANGED <<dbVars, pc, diskVars, signer, lastErr>>

\* killed, or a call that main does not survive fails
Crash(p) ==
  /\ pc[p] # "down"
  /\ Fault
  /\ Exit(p)
  /\ UNCHANGED diskVars

SecretChanges ==
  /\ Fault
  /\ secret' \in {"missing", "short", "long"} \ {secret}
  /\ UNCHANGED <<dbVars, pc, env, cfg, root, mainVars>>

TreeChanges ==
  /\ Fault
  /\ root' \in {"none", "file", "dir", "link"} \ {root}
  /\ UNCHANGED <<dbVars, pc, env, cfg, secret, mainVars>>

Boot(p) ==
  \/ EnvCheck(p) \/ Validate(p) \/ LoadIdentity(p) \/ ReadSecret(p)
  \/ Database(p) \/ StartupScan(p) \/ ConnectCatalog(p)

Next ==
  \/ \E p \in Processes : Start(p) \/ Boot(p) \/ Readyz(p) \/ ReadyzFails(p) \/ Crash(p)
  \/ SecretChanges
  \/ TreeChanges

Spec == Init /\ [][Next]_vars

\* the supervisor starts what has ended, and a process that can run does
FairSpec == Spec /\ \A p \in Processes : WF_vars(Start(p) \/ Boot(p))
-----------------------------------------------------------------------------
\* AcceptedIsUsable.  A process that has come to serve has components that can do what
\* its settings ask for: what config.Validate accepted is what initProxy,
\* NewSemaphore, NewRateLimitMiddleware, NewClient, ParseAllowedOrigins and
\* NewIPAllowlistMiddleware accept, though each reads the settings in its own way.
AcceptedIsUsable == \A p \in Processes : pc[p] \in Booted => Usable(cfg)

\* ReadyMeansSigned.  A process that says it is ready can sign its requests to the
\* origin when they are to be signed, also when the secret was changed between
\* the check of the settings and main's own reading (readinessChecker).
ReadyMeansSigned ==
  \A p \in Processes :
    (answer[p] = "ready" /\ normalizeOriginAuthMode(cfg) = "hmac") => signer[p] = "ready"

\* AtomicUpgrade.  The migration, with its statements one by one, its lock, its
\* errors and its crashes, by any number of processes, implements one step from
\* the schema found to the present one (Migrate in one transaction).
AtomicUpgrade == Committed!Spec

\* ServesMigrated.  Nothing is read from or written to a database of another version,
\* or without a table, or without one of the columns that Migrate adds to
\* "announcements": a process past Migrate finds the present
\* schema, whatever other processes do (main's order, and CheckVersion).
ServesMigrated ==
  (\E p \in Processes : pc[p] \in Booted) => schema = Committed!Present(schema)

Bootable ==
  /\ envcheckValidate(env) /\ ValidateConfig(cfg, secret)
  /\ schema.version \in {0, Committed!currentSchemaVersion}
  /\ root # "file"

\* ComesToServe.  Whatever failed before, a process whose settings, secret and
\* database are good in the end comes to serve: no attempt leaves a lock or half a
\* schema behind, and processes that migrate at once do not fail one another for
\* ever (Migrate, Busy and the supervisor).
ComesToServe == <>[]Bootable => \A p \in Processes : <>(pc[p] = "up")
-----------------------------------------------------------------------------
(* The parts of the inductive invariant behind the properties above. *)

\* what a transaction holds while it holds the lock
TxOk(p) ==
  /\ pc[p] \in Locked <=> writer = {p}
  /\ pc[p] = "version" => work[p] = WithTables(schema)
  /\ pc[p] = "columns" => work[p] = WithTables(schema) /\ work[p].version = 1
  /\ pc[p] = "commit" => work[p] = Committed!Present(schema) /\ schema.version \in {0, 1}

\* what has been accepted stays acceptable, but for the secret
Accepted(p) == pc[p] \notin Unchecked => ValidateConfig(cfg, "long")

\* and a secret that has become unusable is remembered
Signed(p) ==
  /\ answer[p] = "ready" => signer[p] # "nilptr" /\ pc[p] = "up"
  /\ pc[p] \in Opened /\ normalizeOriginAuthMode(cfg) = "hmac" => signer[p] # "off"

\* StartupInv.  The inductive invariant: only the process with the lock is past its
\* first write, and what it holds follows from what is committed (Migrate); what has
\* been accepted stays so, and the signer follows from the secret main has read.
StartupInv ==
  /\ TypeOK
  /\ \A p \in Processes : TxOk(p) /\ Accepted(p) /\ Signed(p)
  /\ ServesMigrated
=============================================================================
