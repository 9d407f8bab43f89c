---------------------------- MODULE StartupProofs ---------------------------
(* Proofs for Startup: for every environment and database to start from, any *)
(* number of processes and any number of faults, the migration is one step   *)
(* from the schema found to the present one, what serves is migrated, and    *)
(* what was accepted is usable.                                              *)
EXTENDS Startup, TLAPS

-----------------------------------------------------------------------------
(* What the configuration accepts, the components can use. *)

\* Load gives every number a value, so that Validate and the constructors compare
\* numbers.
LEMMA LoadedNumbers ==
  ASSUME NEW e \in Environments, NEW n \in DOMAIN DefaultNumber
  PROVE  Load(e).number[n] \in Int
<1>1. DefaultNumber[n] \in Int
  BY SMT DEF DefaultNumber
<1>2. e.number[n] \in Int \cup {Unset}
  BY SMT DEF Environments
<1> QED
  BY <1>1, <1>2, SMT DEF Load, getenvInt

\* Each of the two parsers of a list of networks accepts what the other accepts: a list
\* that parseCIDRs accepts gives parseCIDRList at least one network, and an address in it.
LEMMA AcceptedNetworks ==
  ASSUME NEW l, parseCIDRsOk(l)
  PROVE  \E ip \in Addresses : ipInCIDRs(ip, l)
<1>1. PICK c \in splitCSV(l) : c \in DOMAIN Networks
  BY DEF parseCIDRsOk
<1>2. PICK ip \in Addresses : ip \in Networks[c]
  BY <1>1, SettingsAssumption
<1> QED
  BY <1>1, <1>2 DEF parseCIDRsOk, ipInCIDRs, ParsedNetworks

\* X-Forwarded-For from an address that is no trusted proxy makes no difference to
\* clientIP, and neither does one that is not an address.
LEMMA ForwardedIgnored ==
  ASSUME NEW c, NEW ip, NEW xff,
         xff \notin Addresses \/ ~ipInCIDRs(ip, c.list.TrustedProxyCIDRs)
  PROVE  Admitted(c, ip, xff) = ipInCIDRs(ip, c.list.InternalAllowedCIDRs)
  BY DEF Admitted, clientIP

\* What Config.Validate accepts, for whatever secret, the constructors can use, though
\* they read the settings again and in their own way.
THEOREM AcceptedUsable ==
  ASSUME NEW e \in Environments, NEW file, ValidateConfig(Load(e), file)
  PROVE  Usable(Load(e))
<1> DEFINE c == Load(e)
<1>1. \A n \in DOMAIN DefaultNumber : c.number[n] \in Int
  BY LoadedNumbers
<1>2. /\ "MaxSegmentBytes" \in DOMAIN DefaultNumber
      /\ "RateLimitRPS" \in DOMAIN DefaultNumber
      /\ "RateLimitBurst" \in DOMAIN DefaultNumber
      /\ "ProxyMaxUpstreamConcurrency" \in DOMAIN DefaultNumber
      /\ "CatalogTimeoutSeconds" \in DOMAIN DefaultNumber
      /\ "RescanIntervalSeconds" \in DOMAIN DefaultNumber
      /\ "AnnounceSweepIntervalSeconds" \in DOMAIN DefaultNumber
      /\ "BackoffBaseMillis" \in DOMAIN DefaultNumber
      /\ "BackoffMaxSeconds" \in DOMAIN DefaultNumber
      /\ "RejectedRetrySeconds" \in DOMAIN DefaultNumber
      /\ "UnauthorizedRetrySeconds" \in DOMAIN DefaultNumber
  BY SMT DEF DefaultNumber
<1>3. ValidateConfig(c, file)
  OBVIOUS
<1> HIDE DEF c
<1>4. /\ c.number.MaxSegmentBytes \in Int /\ c.number.MaxSegmentBytes > 0
      /\ c.number.RateLimitRPS \in Int /\ c.number.RateLimitRPS > 0
      /\ c.number.RateLimitBurst \in Int /\ c.number.RateLimitBurst > 0
      /\ c.number.ProxyMaxUpstreamConcurrency \in Int
      /\ c.number.ProxyMaxUpstreamConcurrency > 0
  BY <1>1, <1>2, <1>3, ZenonT(30) DEF ValidateConfig, ValidatePaths
<1>5. c.number.CatalogTimeoutSeconds \in Int
  BY <1>1, <1>2, ZenonT(30)
<1>6. normalizeStorageMode(c) \in {"proxy", "hybrid"} => HasProxy(c) /\ SemaphoreSize(c) > 0
  <2>1. ASSUME normalizeStorageMode(c) \in {"proxy", "hybrid"} PROVE HasProxy(c)
    BY <1>3, <2>1
    DEF ValidateConfig, ValidatePaths, ValidateStorage, validateURL, normalizeStorageMode,
        TrimSpace, Normal, HasProxy
  <2>2. SemaphoreSize(c) > 0
    BY <1>4, SMT DEF SemaphoreSize
  <2> QED
    BY <2>1, <2>2
<1>7. /\ c.number.MaxSegmentBytes > 0
      /\ AtLeast1(c.number.RateLimitRPS) = c.number.RateLimitRPS
      /\ AtLeast1(c.number.RateLimitBurst) = c.number.RateLimitBurst
  BY <1>4, SMT DEF AtLeast1
<1>8. c.word.CatalogBaseURL # "" =>
        HasCatalogClient(c) /\ c.word.PublicBaseURL # "" /\ CatalogTimeout(c) > 0
  <2>1. CatalogTimeout(c) > 0
    BY <1>5, SMT DEF CatalogTimeout, OrDefault
  <2> QED
    BY <1>3, <2>1, ZenonT(30)
    DEF ValidateConfig, ValidateURLs, validateURL, HasCatalogClient
<1>9. \A n \in {"RescanIntervalSeconds", "AnnounceSweepIntervalSeconds"} :
        Interval(c.number[n]) > 0
  BY <1>1, <1>2, SMT DEF Interval, OrDefault
<1>10. \A d \in DOMAIN NewBackoffState(c) : NewBackoffState(c)[d] > 0
  BY <1>1, <1>2, SMT DEF NewBackoffState, OrDefault
<1>11. c.flag.EnableCORS => AllowedOrigins(c) # {} /\ "*" \notin AllowedOrigins(c)
  BY <1>3 DEF ValidateConfig, ValidateLists, AllowedOrigins
<1>12. c.flag.InternalEnable =>
         /\ \E ip \in Addresses : Admitted(c, ip, "")
         /\ \A ip, xff \in Addresses :
              ~ipInCIDRs(ip, c.list.TrustedProxyCIDRs) => Admitted(c, ip, xff) = Admitted(c, ip, "")
  <2>1. \A ip : Admitted(c, ip, "") = ipInCIDRs(ip, c.list.InternalAllowedCIDRs)
    BY ForwardedIgnored, SettingsAssumption
  <2>2. c.flag.InternalEnable => \E ip \in Addresses : Admitted(c, ip, "")
    BY <1>3, <2>1, AcceptedNetworks DEF ValidateConfig, ValidateLists
  <2>3. \A ip, xff \in Addresses :
          ~ipInCIDRs(ip, c.list.TrustedProxyCIDRs) => Admitted(c, ip, xff) = Admitted(c, ip, "")
    BY <2>1, ForwardedIgnored
  <2> QED
    BY <2>2, <2>3
<1>13. Usable(c)
  BY <1>6, <1>7, <1>8, <1>9, <1>10, <1>11, <1>12 DEF Usable
<1> QED
  BY <1>13 DEF c

-----------------------------------------------------------------------------
(* The invariant. *)

\* Most leaves are set and function reasoning: Zenon first, then SMT, then Zenon with time.
USE ZenonT(3), SMTT(30), ZenonT(60)

\* A secret that is long enough is accepted wherever another one is (Validate).
LEMMA LongSecret == ValidateConfig(cfg, secret) => ValidateConfig(cfg, "long")
  BY DEF ValidateConfig, ValidateOriginAuth

\* The database after the list of statements, and after the migration, is one that can be.
LEMMA MigratedSchemas ==
  ASSUME NEW s \in Committed!Schemas
  PROVE  /\ NoWork \in Committed!Schemas
         /\ WithTables(s) \in Committed!Schemas
         /\ Committed!Present(s) \in Committed!Schemas
  BY SMT
  DEF Committed!Schemas, Committed!Present, Committed!Tables, Committed!Columns,
      Committed!currentSchemaVersion, WithTables, NoWork, Tables, Columns

\* The database that comes of the migration needs none.
LEMMA PresentIdempotent ==
  ASSUME NEW s
  PROVE  Committed!Present(Committed!Present(s)) = Committed!Present(s)
  BY DEF Committed!Present

\* A new provider has opened nothing, whatever it is given to start from.
LEMMA InitInv == Init => StartupInv
<1> SUFFICES ASSUME Init PROVE StartupInv
  OBVIOUS
<1>1. PICK s \in Starts : env = s.env /\ schema = s.schema /\ secret = s.secret /\ root = s.root
  BY DEF Init
<1>2. /\ env \in Environments /\ schema \in Committed!Schemas
      /\ secret \in {"missing", "short", "long"} /\ root \in {"none", "file", "dir", "link"}
  BY <1>1, StartupAssumption
<1>3. TypeOK
  BY <1>2, MigratedSchemas DEF Init, TypeOK, Unchecked
<1>4. \A p \in Processes : TxOk(p) /\ Accepted(p) /\ Signed(p)
  BY DEF Init, TxOk, Locked, Accepted, Unchecked, Signed, Opened, InTx, Booted
<1>5. ServesMigrated
  BY DEF Init, ServesMigrated, Booted
<1> QED
  BY <1>3, <1>4, <1>5 DEF StartupInv

\* A process that goes on outside the transaction leaves the transactions as they are.
LEMMA TxUnmoved ==
  ASSUME StartupInv, NEW p \in Processes, NEW l, pc' = [pc EXCEPT ![p] = l],
         pc[p] \notin Locked, l \notin Locked, UNCHANGED <<schema, writer>>,
         \A q \in Processes : q # p => work'[q] = work[q]
  PROVE  \A q \in Processes : TxOk(q)'
<1> SUFFICES ASSUME NEW q \in Processes PROVE TxOk(q)'
  OBVIOUS
<1>1. TxOk(q) /\ pc \in [Processes -> Unchecked \cup {"identity", "secret"} \cup Opened]
  BY DEF StartupInv, TypeOK
<1>2. CASE q = p
  <2>1. pc'[q] = l /\ writer' # {q}
    BY <1>1, <1>2 DEF TxOk
  <2> QED
    BY <2>1 DEF TxOk, Locked
<1>3. CASE q # p
  <2>1. pc'[q] = pc[q] /\ work'[q] = work[q]
    BY <1>1, <1>3
  <2> QED
    BY <1>1, <2>1 DEF TxOk
<1> QED
  BY <1>2, <1>3

\* The names of the labels are all different, so the sets of labels do not overlap.
LEMMA Labels ==
  /\ Unchecked \cap Opened = {} /\ Locked \subseteq Opened /\ Booted \subseteq Opened
  /\ Locked \cap Booted = {}
  BY DEF Unchecked, Opened, Locked, Booted, InTx

\* A process that ends, by os.Exit after an error or killed, gives back its lock, and
\* what is committed stays (Rollback).
LEMMA TxEnded ==
  ASSUME StartupInv, NEW p \in Processes, Ended(p)
  PROVE  /\ \A q \in Processes : TxOk(q)'
         /\ ServesMigrated'
         /\ pc' \in [Processes -> Unchecked \cup {"identity", "secret"} \cup Opened]
         /\ writer' \in {{}} \cup {{q} : q \in Processes}
         /\ work' \in [Processes -> Committed!Schemas]
<1>1. /\ pc \in [Processes -> Unchecked \cup {"identity", "secret"} \cup Opened]
      /\ writer \in {{}} \cup {{q} : q \in Processes}
      /\ work \in [Processes -> Committed!Schemas]
      /\ schema \in Committed!Schemas
  BY DEF StartupInv, TypeOK
<1>2. /\ pc' = [pc EXCEPT ![p] = "down"] /\ work' = [work EXCEPT ![p] = NoWork]
      /\ writer' = writer \ {p} /\ schema' = schema
  BY DEF Ended
<1>3. pc' \in [Processes -> Unchecked \cup {"identity", "secret"} \cup Opened]
  BY <1>1, <1>2 DEF Unchecked
<1>4. work' \in [Processes -> Committed!Schemas]
  BY <1>1, <1>2, MigratedSchemas
<1>5. writer' = {} \/ (writer' = writer /\ writer' # {p})
  BY <1>1, <1>2
<1>6. ASSUME NEW q \in Processes PROVE TxOk(q)'
  <2>1. TxOk(q)
    BY DEF StartupInv
  <2>2. CASE q = p
    BY <1>1, <1>2, <1>5, <2>2 DEF TxOk, Locked
  <2>3. CASE q # p
    <3>1. pc'[q] = pc[q] /\ work'[q] = work[q]
      BY <1>1, <1>2, <2>3
    <3>2. writer' = {q} <=> writer = {q}
      BY <1>1, <1>2, <2>3
    <3> QED
      BY <1>2, <2>1, <3>1, <3>2 DEF TxOk
  <2> QED
    BY <2>2, <2>3
<1>7. ServesMigrated'
  <2>1. \A q \in Processes : pc'[q] \in Booted => pc[q] \in Booted
    BY <1>1, <1>2 DEF Booted
  <2> QED
    BY <1>2, <2>1 DEF StartupInv, ServesMigrated
<1> QED
  BY <1>1, <1>3, <1>4, <1>5, <1>6, <1>7

\* Nothing that a process knew outlives it.
LEMMA ExitStep ==
  ASSUME StartupInv, NEW p \in Processes, Exit(p), faults' \in Nat,
         UNCHANGED <<env, cfg, secret>>, root' \in {"none", "file", "dir", "link"}
  PROVE  StartupInv'
<1>1. Ended(p) /\ Forget(p)
  BY DEF Exit
<1>2. TypeOK'
  BY <1>1, TxEnded DEF StartupInv, TypeOK, Ended, Forget
<1>3. ASSUME NEW q \in Processes PROVE Accepted(q)' /\ Signed(q)'
  <2>1. Accepted(q) /\ Signed(q) /\ TypeOK
    BY DEF StartupInv
  <2>2. CASE q = p
    <3>1. pc'[q] = "down" /\ answer'[q] = ""
      BY <1>1, <2>1, <2>2 DEF TypeOK, Ended, Forget
    <3> QED
      BY <3>1, Labels DEF Accepted, Signed, Unchecked
  <2>3. CASE q # p
    <3>1. pc'[q] = pc[q] /\ answer'[q] = answer[q] /\ signer'[q] = signer[q]
      BY <1>1, <2>1, <2>3 DEF TypeOK, Ended, Forget
    <3> QED
      BY <2>1, <3>1 DEF Accepted, Signed
  <2> QED
    BY <2>2, <2>3
<1> QED
  BY <1>1, <1>2, <1>3, TxEnded DEF StartupInv

\* main goes on to its next call, outside the transaction.
LEMMA AdvanceStep ==
  ASSUME StartupInv, NEW p \in Processes,
         NEW l \in Unchecked \cup {"identity", "secret"} \cup Opened,
         pc' = [pc EXCEPT ![p] = l], pc[p] \notin Locked \cup {"up"}, l \notin Locked,
         pc[p] \in Booted \/ l \notin Booted,
         pc[p] \notin Unchecked \/ l \in Unchecked \/ ValidateConfig(cfg, "long"),
         UNCHANGED <<schema, writer, faults, env, cfg, secret, answer>>,
         work' \in [Processes -> Committed!Schemas],
         \A q \in Processes : q # p => work'[q] = work[q],
         root' \in {"none", "file", "dir", "link"},
         lastErr' \in [Processes -> {"", "error"}],
         NEW g \in {"off", "nilptr", "ready"}, signer' = [signer EXCEPT ![p] = g],
         l \in Opened /\ normalizeOriginAuthMode(cfg) = "hmac" => g # "off"
  PROVE  StartupInv'
<1>1. TypeOK
  BY DEF StartupInv
<1>2. TypeOK'
  <2>1. pc' \in [Processes -> Unchecked \cup {"identity", "secret"} \cup Opened]
    BY <1>1 DEF TypeOK
  <2>2. signer' \in [Processes -> {"off", "nilptr", "ready"}]
    BY <1>1 DEF TypeOK
  <2> QED
    BY <1>1, <2>1, <2>2 DEF TypeOK
<1>3. ASSUME NEW q \in Processes PROVE Accepted(q)' /\ Signed(q)'
  <2>1. Accepted(q) /\ Signed(q)
    BY DEF StartupInv
  <2>2. CASE q = p
    <3>1. pc'[q] = l /\ signer'[q] = g /\ answer'[q] # "ready"
      BY <1>1, <2>1, <2>2 DEF TypeOK, Signed
    <3> QED
      BY <2>1, <2>2, <3>1 DEF Accepted, Signed
  <2>3. CASE q # p
    <3>1. pc'[q] = pc[q] /\ signer'[q] = signer[q]
      BY <1>1, <2>3 DEF TypeOK
    <3> QED
      BY <2>1, <3>1 DEF Accepted, Signed
  <2> QED
    BY <2>2, <2>3
<1>4. \A q \in Processes : TxOk(q)'
  BY TxUnmoved
<1>5. ServesMigrated'
  <2>1. \A q \in Processes : pc'[q] \in Booted => pc[q] \in Booted
    BY <1>1 DEF TypeOK
  <2> QED
    BY <2>1 DEF StartupInv, ServesMigrated
<1> QED
  BY <1>2, <1>3, <1>4, <1>5 DEF StartupInv

\* A signer that is set to what it is, is left alone.
LEMMA SignerSame ==
  ASSUME StartupInv, NEW p \in Processes, UNCHANGED signer
  PROVE  signer[p] \in {"off", "nilptr", "ready"} /\ signer' = [signer EXCEPT ![p] = signer[p]]
  BY DEF StartupInv, TypeOK

\* The checks of the settings: what goes on has been accepted, and the directories that
\* Validate creates are there or not.
LEMMA SettingsStep ==
  ASSUME StartupInv, NEW p \in Processes, Start(p) \/ EnvCheck(p) \/ Validate(p) \/ LoadIdentity(p)
  PROVE  StartupInv'
<1>1. TypeOK
  BY DEF StartupInv
<1>2. /\ work \in [Processes -> Committed!Schemas] /\ lastErr \in [Processes -> {"", "error"}]
      /\ root \in {"none", "file", "dir", "link"} /\ faults \in Nat
  BY <1>1 DEF TypeOK
<1>3. CASE Exit(p)
  <2>1. root' \in {"none", "file", "dir", "link"} /\ faults' \in Nat /\ UNCHANGED <<env, cfg, secret>>
    BY <1>2 DEF Start, EnvCheck, Validate, LoadIdentity, diskVars
  <2> QED
    BY <1>3, <2>1, ExitStep
<1>4. CASE ~Exit(p)
  <2>1. PICK l \in {"config", "validate", "identity", "secret"} :
          /\ pc' = [pc EXCEPT ![p] = l]
          /\ l \in Unchecked \/ pc[p] \notin Unchecked \/ ValidateConfig(cfg, "long")
    BY <1>4, LongSecret DEF Start, EnvCheck, Validate, LoadIdentity, Goto, Unchecked
  <2>2. pc[p] \in {"down", "config", "validate", "identity"}
    BY DEF Start, EnvCheck, Validate, LoadIdentity
  <2>3. /\ UNCHANGED <<schema, writer, work, faults, env, cfg, secret, lastErr, answer, signer>>
        /\ root' \in {"none", "file", "dir", "link"}
    BY <1>2, <1>4 DEF Start, EnvCheck, Validate, LoadIdentity, dbVars, mainVars, diskVars
  <2>4. /\ l \in Unchecked \cup {"identity", "secret"} \cup Opened
        /\ l \notin Locked /\ l \notin Booted /\ l \notin Opened
        /\ pc[p] \notin Locked \cup {"up"}
    BY <2>1, <2>2 DEF Unchecked, Locked, Booted, Opened, InTx
  <2>5. signer[p] \in {"off", "nilptr", "ready"} /\ signer' = [signer EXCEPT ![p] = signer[p]]
    BY <2>3, SignerSame
  <2> QED
    BY <1>2, <2>1, <2>3, <2>4, <2>5, AdvanceStep
<1> QED
  BY <1>3, <1>4

\* main's own reading of the secret: with hmac the signer is there or the pointer is nil.
LEMMA ReadSecretStep ==
  ASSUME StartupInv, NEW p \in Processes, ReadSecret(p)
  PROVE  StartupInv'
<1> DEFINE g == IF normalizeOriginAuthMode(cfg) # "hmac" THEN "off"
                ELSE IF secret = "long" THEN "ready" ELSE "nilptr"
<1>1. TypeOK
  BY DEF StartupInv
<1>2. g \in {"off", "nilptr", "ready"} /\ (normalizeOriginAuthMode(cfg) = "hmac" => g # "off")
  OBVIOUS
<1>3. signer' = [signer EXCEPT ![p] = g]
  BY DEF ReadSecret
<1> HIDE DEF g
<1>4. /\ pc' = [pc EXCEPT ![p] = "open"] /\ pc[p] = "secret"
      /\ UNCHANGED <<schema, writer, work, faults, env, cfg, secret, root, lastErr, answer>>
  BY DEF ReadSecret, Goto, dbVars, diskVars
<1>5. /\ work' \in [Processes -> Committed!Schemas] /\ lastErr' \in [Processes -> {"", "error"}]
      /\ root' \in {"none", "file", "dir", "link"}
  BY <1>1, <1>4 DEF TypeOK
<1>6. /\ "open" \in Opened /\ "open" \notin Locked /\ "open" \notin Booted
      /\ pc[p] \notin Locked \cup {"up"} /\ pc[p] \notin Unchecked
  BY <1>4 DEF Unchecked, Locked, Booted, Opened, InTx
<1> QED
  BY <1>2, <1>3, <1>4, <1>5, <1>6, AdvanceStep

\* db.Open, and what Migrate reads before it writes.
LEMMA OpenStep ==
  ASSUME StartupInv, NEW p \in Processes, Open(p) \/ BeginTx(p), UNCHANGED <<diskVars, mainVars>>
  PROVE  StartupInv'
<1>1. TypeOK
  BY DEF StartupInv
<1>2. PICK l \in {"begin", "create"} : pc' = [pc EXCEPT ![p] = l]
  BY DEF Open, BeginTx
<1>3. /\ pc[p] \in {"open", "begin"}
      /\ UNCHANGED <<schema, writer, faults, env, cfg, secret, root, signer, lastErr, answer>>
  BY DEF Open, BeginTx, dbVars, diskVars, mainVars
<1>4. work' \in [Processes -> Committed!Schemas] /\ \A q \in Processes : q # p => work'[q] = work[q]
  BY <1>1, MigratedSchemas DEF TypeOK, Open, BeginTx, dbVars
<1>5. /\ lastErr' \in [Processes -> {"", "error"}] /\ root' \in {"none", "file", "dir", "link"}
  BY <1>1, <1>3 DEF TypeOK
<1>6. /\ l \in Opened /\ l \notin Locked /\ l \notin Booted
      /\ pc[p] \notin Locked \cup {"up"} /\ pc[p] \notin Unchecked /\ pc[p] \in Opened
  BY <1>2, <1>3 DEF Unchecked, Locked, Booted, Opened, InTx
<1>7. /\ signer[p] \in {"off", "nilptr", "ready"} /\ signer' = [signer EXCEPT ![p] = signer[p]]
      /\ normalizeOriginAuthMode(cfg) = "hmac" => signer[p] # "off"
  BY <1>3, <1>6, SignerSame DEF StartupInv, Signed
<1> QED
  BY <1>2, <1>3, <1>4, <1>5, <1>6, <1>7, AdvanceStep

\* The first scan and the catalog: what serves has been migrated before.
LEMMA BootStep ==
  ASSUME StartupInv, NEW p \in Processes, StartupScan(p) \/ ConnectCatalog(p)
  PROVE  StartupInv'
<1>1. TypeOK
  BY DEF StartupInv
<1>2. CASE Exit(p)
  <2>1. root' \in {"none", "file", "dir", "link"} /\ faults' \in Nat /\ UNCHANGED <<env, cfg, secret>>
    BY <1>1 DEF TypeOK, StartupScan, ConnectCatalog, diskVars
  <2> QED
    BY <1>2, <2>1, ExitStep
<1>3. CASE ~Exit(p)
  <2>1. PICK l \in {"catalog", "up"} : pc' = [pc EXCEPT ![p] = l]
    BY <1>3 DEF StartupScan, ConnectCatalog, Goto
  <2>2. /\ pc[p] \in {"scan", "catalog"}
        /\ UNCHANGED <<schema, writer, work, faults, env, cfg, secret, signer, answer>>
    BY <1>3 DEF StartupScan, ConnectCatalog, dbVars, diskVars, mainVars
  <2>3. lastErr' \in [Processes -> {"", "error"}]
    BY <1>1, <1>3 DEF TypeOK, StartupScan, ConnectCatalog, EnsureProvider, mainVars
  <2>4. /\ work' \in [Processes -> Committed!Schemas] /\ root' \in {"none", "file", "dir", "link"}
    BY <1>1, <1>3, <2>2 DEF TypeOK, StartupScan, ConnectCatalog, diskVars
  <2>5. /\ l \in Opened /\ l \notin Locked /\ pc[p] \in Booted /\ pc[p] \in Opened
        /\ pc[p] \notin Locked \cup {"up"} /\ pc[p] \notin Unchecked
    BY <2>1, <2>2 DEF Unchecked, Locked, Booted, Opened, InTx
  <2>6. /\ signer[p] \in {"off", "nilptr", "ready"} /\ signer' = [signer EXCEPT ![p] = signer[p]]
        /\ normalizeOriginAuthMode(cfg) = "hmac" => signer[p] # "off"
    BY <2>2, <2>5, SignerSame DEF StartupInv, Signed
  <2> QED
    BY <2>1, <2>2, <2>3, <2>4, <2>5, <2>6, AdvanceStep
<1> QED
  BY <1>2, <1>3

\* A step of the transaction that takes, holds or gives back the lock: no other process
\* is past its first write, so only its own part of the invariant is at stake.
LEMMA TxStep ==
  ASSUME StartupInv, NEW p \in Processes, NEW l \in Opened, pc' = [pc EXCEPT ![p] = l],
         pc[p] \in InTx, writer \in {{}, {p}}, writer' \in {{}, {p}},
         TxOk(p)', ServesMigrated', schema' \in Committed!Schemas,
         NEW w \in Committed!Schemas, work' = [work EXCEPT ![p] = w],
         UNCHANGED <<faults, diskVars, mainVars>>
  PROVE  StartupInv'
<1>1. TypeOK
  BY DEF StartupInv
<1>2. UNCHANGED <<faults, env, cfg, secret, root, signer, lastErr, answer>>
  BY DEF diskVars, mainVars
<1>3. TypeOK'
  <2>1. pc' \in [Processes -> Unchecked \cup {"identity", "secret"} \cup Opened]
    BY <1>1 DEF TypeOK
  <2>2. work' \in [Processes -> Committed!Schemas]
    BY <1>1 DEF TypeOK
  <2>3. writer' \in {{}} \cup {{q} : q \in Processes}
    OBVIOUS
  <2> QED
    BY <1>1, <1>2, <2>1, <2>2, <2>3 DEF TypeOK
<1>4. pc[p] \notin Unchecked /\ pc[p] # "up" /\ pc[p] \in Opened
  BY DEF Unchecked, InTx, Locked, Opened
<1>5. ASSUME NEW q \in Processes PROVE TxOk(q)' /\ Accepted(q)' /\ Signed(q)'
  <2>1. TxOk(q) /\ Accepted(q) /\ Signed(q)
    BY DEF StartupInv
  <2>2. CASE q = p
    <3>1. pc'[q] = l
      BY <1>1, <2>2 DEF TypeOK
    <3>2. Accepted(q)'
      BY <1>2, <1>4, <2>1, <2>2 DEF Accepted
    <3>3. Signed(q)'
      BY <1>2, <1>4, <2>1, <2>2 DEF Signed
    <3> QED
      BY <2>2, <3>2, <3>3
  <2>3. CASE q # p
    <3>1. pc'[q] = pc[q]
      BY <1>1, <2>3 DEF TypeOK
    <3>2. writer # {q} /\ writer' # {q}
      BY <2>3
    <3>3. TxOk(q)'
      BY <2>1, <3>1, <3>2 DEF TxOk, Locked
    <3> QED
      BY <1>2, <2>1, <3>1, <3>3 DEF Accepted, Signed
  <2> QED
    BY <2>2, <2>3
<1> QED
  BY <1>3, <1>5 DEF StartupInv

\* What serves goes on to serve while the schema stays and no one comes to serve.
LEMMA StillServes ==
  ASSUME StartupInv, NEW p \in Processes, NEW l, l \notin Booted, pc' = [pc EXCEPT ![p] = l],
         UNCHANGED schema
  PROVE  ServesMigrated'
<1>1. \A q \in Processes : pc'[q] \in Booted => pc[q] \in Booted
  BY DEF StartupInv, TypeOK
<1> QED
  BY <1>1 DEF StartupInv, ServesMigrated

\* The first write takes the lock, and sees what is committed.
LEMMA CreateTablesStep ==
  ASSUME StartupInv, NEW p \in Processes, CreateTables(p), UNCHANGED <<diskVars, mainVars>>
  PROVE  StartupInv'
<1>1. TypeOK /\ schema \in Committed!Schemas
  BY DEF StartupInv, TypeOK
<1>2. /\ pc[p] = "create" /\ pc' = [pc EXCEPT ![p] = "version"] /\ writer = {} /\ writer' = {p}
      /\ work' = [work EXCEPT ![p] = WithTables(schema)] /\ UNCHANGED <<schema, faults>>
  BY DEF CreateTables
<1>3. pc'[p] = "version" /\ work'[p] = WithTables(schema)
  BY <1>1, <1>2 DEF TypeOK
<1>4. WithTables(schema)' = WithTables(schema)
  BY <1>2 DEF WithTables
<1>5. TxOk(p)'
  BY <1>2, <1>3, <1>4 DEF TxOk, Locked
<1>6. WithTables(schema) \in Committed!Schemas
  BY <1>1, MigratedSchemas
<1>7. "version" \in Opened /\ "version" \notin Booted /\ pc[p] \in InTx
  BY <1>2 DEF Opened, Booted, InTx, Locked
<1> QED
  BY <1>1, <1>2, <1>5, <1>6, <1>7, TxStep, StillServes

\* Only version 1 goes on.
LEMMA CheckVersionStep ==
  ASSUME StartupInv, NEW p \in Processes, CheckVersion(p), pc'[p] # "down",
         UNCHANGED <<diskVars, mainVars>>
  PROVE  StartupInv'
<1>1. TypeOK /\ schema \in Committed!Schemas /\ work[p] \in Committed!Schemas /\ TxOk(p)
  BY DEF StartupInv, TypeOK
<1>2. /\ pc[p] = "version" /\ pc' = [pc EXCEPT ![p] = "columns"] /\ work[p].version = 1
      /\ UNCHANGED <<schema, writer, work, faults>>
  BY <1>1 DEF CheckVersion, Ended, TypeOK, dbVars, Committed!currentSchemaVersion
<1>3. pc'[p] = "columns" /\ writer = {p} /\ work[p] = WithTables(schema)
  BY <1>1, <1>2 DEF TypeOK, TxOk, Locked
<1>4. WithTables(schema)' = WithTables(schema)
  BY <1>2 DEF WithTables
<1>5. TxOk(p)'
  BY <1>2, <1>3, <1>4 DEF TxOk, Locked
<1>6. work' = [work EXCEPT ![p] = work[p]]
  BY <1>1, <1>2 DEF TypeOK
<1>7. "columns" \in Opened /\ "columns" \notin Booted /\ pc[p] \in InTx
  BY <1>2 DEF Opened, Booted, InTx, Locked
<1> QED
  BY <1>1, <1>2, <1>3, <1>5, <1>6, <1>7, TxStep, StillServes

\* With the missing columns added, what the transaction holds is the present schema.
LEMMA EnsureColumnsStep ==
  ASSUME StartupInv, NEW p \in Processes, EnsureColumns(p), UNCHANGED <<diskVars, mainVars>>
  PROVE  StartupInv'
<1>1. TypeOK /\ schema \in Committed!Schemas /\ TxOk(p)
  BY DEF StartupInv, TypeOK
<1>2. /\ pc[p] = "columns" /\ pc' = [pc EXCEPT ![p] = "commit"]
      /\ UNCHANGED <<schema, writer, faults>>
  BY DEF EnsureColumns
<1>3. /\ pc'[p] = "commit" /\ writer = {p}
      /\ work[p] = WithTables(schema) /\ WithTables(schema).version = 1
  BY <1>1, <1>2 DEF TypeOK, TxOk, Locked
<1> DEFINE w == [work[p] EXCEPT !.columns = work[p].columns \cup Columns]
<1>4. work' = [work EXCEPT ![p] = w]
  BY DEF EnsureColumns
<1>5. schema.version \in {0, 1} /\ schema.version \in Nat /\ schema.columns \subseteq Columns
  BY <1>1, <1>3, SMT DEF WithTables, Committed!Schemas, Columns
<1>6. w = Committed!Present(schema)
  <2> DEFINE c == IF "announcements" \in schema.tables THEN schema.columns ELSE Columns
  <2>1. WithTables(schema) =
          [version |-> 1, tables |-> Tables, columns |-> c, rows |-> schema.rows]
    BY <1>5, SMT DEF WithTables
  <2>2. c \cup Columns = Columns
    BY <1>5
  <2> HIDE DEF c
  <2>3. w = [version |-> 1, tables |-> Tables, columns |-> c \cup Columns, rows |-> schema.rows]
    BY <1>3, <2>1
  <2> QED
    BY <2>2, <2>3 DEF Committed!Present, Committed!currentSchemaVersion, Tables, Columns
<1> HIDE DEF w
<1>7. work'[p] = Committed!Present(schema) /\ w \in Committed!Schemas
  BY <1>1, <1>4, <1>6, MigratedSchemas DEF TypeOK
<1>8. Committed!Present(schema)' = Committed!Present(schema)
  BY <1>2 DEF Committed!Present
<1>9. TxOk(p)'
  BY <1>2, <1>3, <1>5, <1>7, <1>8 DEF TxOk, Locked
<1>10. "commit" \in Opened /\ "commit" \notin Booted /\ pc[p] \in InTx
  BY <1>2 DEF Opened, Booted, InTx, Locked
<1> QED
  BY <1>1, <1>2, <1>3, <1>4, <1>7, <1>9, <1>10, TxStep, StillServes

\* The commit puts the present schema in place, in one step.
LEMMA CommitStep ==
  ASSUME StartupInv, NEW p \in Processes, Commit(p), UNCHANGED <<diskVars, mainVars>>
  PROVE  StartupInv' /\ schema' = Committed!Present(schema) /\ schema.version \in {0, 1}
<1>1. TypeOK /\ schema \in Committed!Schemas /\ TxOk(p)
  BY DEF StartupInv, TypeOK
<1>2. /\ pc[p] = "commit" /\ pc' = [pc EXCEPT ![p] = "scan"] /\ writer' = {}
      /\ schema' = work[p] /\ work' = [work EXCEPT ![p] = NoWork] /\ UNCHANGED faults
  BY DEF Commit
<1>3. /\ pc'[p] = "scan" /\ writer = {p} /\ schema' = Committed!Present(schema)
      /\ schema.version \in {0, 1}
  BY <1>1, <1>2 DEF TypeOK, TxOk, Locked
<1>4. schema' \in Committed!Schemas /\ NoWork \in Committed!Schemas
  BY <1>1, <1>3, MigratedSchemas
<1>5. TxOk(p)'
  BY <1>2, <1>3 DEF TxOk, Locked
<1>6. ServesMigrated'
  BY <1>3, PresentIdempotent DEF ServesMigrated, Committed!Present
<1>7. "scan" \in Opened /\ pc[p] \in InTx
  BY <1>2 DEF Opened, Booted, InTx, Locked
<1>8. StartupInv'
  BY <1>2, <1>3, <1>4, <1>5, <1>6, <1>7, TxStep
<1> QED
  BY <1>3, <1>8

\* db.Open and db.Migrate preserve the invariant, and main exits when one of them fails.
LEMMA DatabaseStep ==
  ASSUME StartupInv, NEW p \in Processes, Database(p)
  PROVE  StartupInv'
<1>1. TypeOK /\ UNCHANGED diskVars /\ UNCHANGED faults
  BY DEF StartupInv, Database, Open, OpenBusy, Migrate, BeginTx, CreateTables, Busy, CheckVersion,
         EnsureColumns, Commit
<1>2. CASE pc'[p] = "down"
  <2>1. Ended(p)
    BY <1>1, <1>2
    DEF TypeOK, Database, Open, OpenBusy, Migrate, BeginTx, CreateTables, Busy, CheckVersion,
        EnsureColumns, Commit
  <2>2. Exit(p)
    BY <1>2, <2>1 DEF Database, Exit
  <2>3. /\ UNCHANGED <<env, cfg, secret>> /\ root' \in {"none", "file", "dir", "link"}
        /\ faults' \in Nat
    BY <1>1 DEF TypeOK, diskVars
  <2> QED
    BY <2>2, <2>3, ExitStep
<1>3. CASE pc'[p] # "down"
  <2>1. UNCHANGED <<diskVars, mainVars>>
    BY <1>1, <1>3 DEF Database
  <2>2. ~Ended(p)
    BY <1>1, <1>3 DEF TypeOK, Ended
  <2>3. \/ Open(p) \/ BeginTx(p) \/ CreateTables(p) \/ CheckVersion(p) \/ EnsureColumns(p)
        \/ Commit(p)
    BY <2>2 DEF Database, OpenBusy, Busy, Migrate
  <2> QED
    BY <1>3, <2>1, <2>3, OpenStep, CreateTablesStep, CheckVersionStep, EnsureColumnsStep, CommitStep
<1> QED
  BY <1>2, <1>3

\* /readyz says ready only while the pointer to the signer is not nil.
LEMMA ReadyzStep ==
  ASSUME StartupInv, NEW p \in Processes, Readyz(p) \/ ReadyzFails(p)
  PROVE  StartupInv'
<1>1. TypeOK
  BY DEF StartupInv
<1>2. PICK a \in {"ready", "not_ready"} :
        answer' = [answer EXCEPT ![p] = a] /\ (a = "ready" => signer[p] # "nilptr")
  BY DEF Readyz, ReadyzFails, Ready
<1>3. faults \in Nat
  BY <1>1 DEF TypeOK
<1>4. /\ UNCHANGED <<schema, writer, work, pc, env, cfg, secret, root, signer, lastErr>>
      /\ pc[p] = "up" /\ faults' \in Nat
  BY <1>3 DEF Readyz, ReadyzFails, Fault, dbVars, diskVars
<1>5. answer' \in [Processes -> {"", "ready", "not_ready"}]
  BY <1>1, <1>2 DEF TypeOK
<1>6. TypeOK'
  BY <1>1, <1>4, <1>5 DEF TypeOK
<1>7. ASSUME NEW q \in Processes PROVE TxOk(q)' /\ Accepted(q)' /\ Signed(q)'
  <2>1. TxOk(q) /\ Accepted(q) /\ Signed(q)
    BY DEF StartupInv
  <2>2. TxOk(q)' /\ Accepted(q)'
    BY <1>4, <2>1 DEF TxOk, Accepted, WithTables, Committed!Present
  <2>3. answer'[q] = "ready" => signer[q] # "nilptr" /\ pc[q] = "up"
    BY <1>1, <1>2, <1>4, <2>1 DEF TypeOK, Signed
  <2> QED
    BY <1>4, <2>1, <2>2, <2>3 DEF Signed
<1>8. ServesMigrated'
  BY <1>4 DEF StartupInv, ServesMigrated, Committed!Present
<1> QED
  BY <1>6, <1>7, <1>8 DEF StartupInv

\* A change of the secret or of the tree is noticed by no one until it is read.
LEMMA FilesStep ==
  ASSUME StartupInv, SecretChanges \/ TreeChanges
  PROVE  StartupInv'
<1>1. TypeOK
  BY DEF StartupInv
<1>2. /\ faults \in Nat
      /\ secret \in {"missing", "short", "long"} /\ root \in {"none", "file", "dir", "link"}
  BY <1>1 DEF TypeOK
<1>3. /\ UNCHANGED <<schema, writer, work, pc, env, cfg, signer, lastErr, answer>>
      /\ secret' \in {"missing", "short", "long"} /\ root' \in {"none", "file", "dir", "link"}
      /\ faults' \in Nat
  BY <1>2 DEF SecretChanges, TreeChanges, Fault, dbVars, mainVars
<1>4. TypeOK'
  BY <1>1, <1>3 DEF TypeOK
<1>5. ASSUME NEW q \in Processes PROVE TxOk(q)' /\ Accepted(q)' /\ Signed(q)'
  BY <1>3 DEF StartupInv, TxOk, Accepted, Signed, WithTables, Committed!Present
<1>6. ServesMigrated'
  BY <1>3 DEF StartupInv, ServesMigrated, Committed!Present
<1> QED
  BY <1>4, <1>5, <1>6 DEF StartupInv

\* Every step of main, of /readyz and of what happens to the files preserves the invariant.
LEMMA NextInv == StartupInv /\ [Next]_vars => StartupInv'
<1> SUFFICES ASSUME StartupInv, [Next]_vars
             PROVE  StartupInv'
  OBVIOUS
<1>1. CASE UNCHANGED vars
  <2>1. /\ UNCHANGED <<schema, writer, work, pc, faults, env, cfg, secret, root>>
        /\ UNCHANGED <<signer, lastErr, answer>>
    BY <1>1 DEF vars, dbVars, diskVars, mainVars
  <2>2. TypeOK'
    BY <2>1 DEF StartupInv, TypeOK
  <2>3. ASSUME NEW q \in Processes PROVE TxOk(q)' /\ Accepted(q)' /\ Signed(q)'
    BY <2>1 DEF StartupInv, TxOk, Accepted, Signed, WithTables, Committed!Present
  <2> QED
    BY <2>1, <2>2, <2>3 DEF StartupInv, ServesMigrated, Committed!Present
<1>2. ASSUME NEW p \in Processes, Start(p) \/ Boot(p) PROVE StartupInv'
  BY <1>2, SettingsStep, ReadSecretStep, DatabaseStep, BootStep DEF Boot
<1>3. ASSUME NEW p \in Processes, Readyz(p) \/ ReadyzFails(p) PROVE StartupInv'
  BY <1>3, ReadyzStep
<1>4. ASSUME NEW p \in Processes, Crash(p) PROVE StartupInv'
  <2>1. faults \in Nat /\ root \in {"none", "file", "dir", "link"}
    BY DEF StartupInv, TypeOK
  <2>2. /\ Exit(p) /\ UNCHANGED <<env, cfg, secret>> /\ faults' \in Nat
        /\ root' \in {"none", "file", "dir", "link"}
    BY <1>4, <2>1 DEF Crash, Fault, diskVars
  <2> QED
    BY <2>2, ExitStep
<1>5. CASE SecretChanges \/ TreeChanges
  BY <1>5, FilesStep
<1> QED
  BY <1>1, <1>2, <1>3, <1>4, <1>5 DEF Next

\* Only the commit of a migration changes the schema, and it does it at once.
LEMMA UpgradeStep == StartupInv /\ [Next]_vars => [Committed!MigrateAtOnce]_schema
<1> SUFFICES ASSUME StartupInv, [Next]_vars, schema' # schema
             PROVE  Committed!MigrateAtOnce
  OBVIOUS
<1>1. PICK p \in Processes : Database(p)
  BY DEF Next, vars, dbVars, Start, Boot, EnvCheck, Validate, LoadIdentity, ReadSecret, StartupScan,
         ConnectCatalog, Readyz, ReadyzFails, Crash, SecretChanges, TreeChanges, Exit, Ended
<1>2. Commit(p)
  BY <1>1 DEF Database, Open, OpenBusy, Migrate, BeginTx, CreateTables, Busy, CheckVersion,
              EnsureColumns, Ended, dbVars
<1>3. pc'[p] = "scan"
  BY <1>2 DEF StartupInv, TypeOK, Commit
<1>4. UNCHANGED <<diskVars, mainVars>>
  BY <1>1, <1>3 DEF Database
<1> QED
  BY <1>2, <1>4, CommitStep DEF Committed!MigrateAtOnce, Committed!currentSchemaVersion

-----------------------------------------------------------------------------
\* The invariant of main's start holds in every behaviour, whatever it starts from.
THEOREM Invariance == Spec => []StartupInv
  BY InitInv, NextInv, PTL DEF Spec

\* AtomicUpgrade holds in every behaviour: the transaction of Migrate, by any number of
\* processes that fail and are killed anywhere, implements one step from the schema found
\* to the present one.
THEOREM MigratesAtOnce == Spec => AtomicUpgrade
<1>1. Init => Committed!Init
  BY InitInv DEF StartupInv, TypeOK, Committed!Init
<1> QED
  BY <1>1, UpgradeStep, Invariance, PTL DEF Spec, AtomicUpgrade, Committed!Spec

\* ServesMigrated holds in every behaviour: main comes to its repositories only after
\* Migrate has committed, and no other process changes the schema afterwards.
THEOREM ServesPresentSchema == Spec => []ServesMigrated
<1>1. StartupInv => ServesMigrated
  BY DEF StartupInv
<1> QED
  BY <1>1, Invariance, PTL

\* AcceptedIsUsable holds in every behaviour, for every environment: what
\* Config.Validate accepts is what the constructors of the components can use.
THEOREM AcceptedSettingsUsable == Spec => []AcceptedIsUsable
<1>1. StartupInv => AcceptedIsUsable
  <2> SUFFICES ASSUME StartupInv, NEW p \in Processes, pc[p] \in Booted
               PROVE  Usable(cfg)
    BY DEF AcceptedIsUsable
  <2>1. ValidateConfig(cfg, "long")
    BY DEF StartupInv, Accepted, Unchecked, Booted
  <2>2. cfg = Load(env) /\ env \in Environments
    BY DEF StartupInv, TypeOK
  <2> QED
    BY <2>1, <2>2, AcceptedUsable
<1> QED
  BY <1>1, Invariance, PTL

\* ReadyMeansSigned holds in every behaviour: /readyz never says ready for a process whose
\* requests to the origin are to be signed and that has no secret to sign with.
THEOREM ReadyIsSigned == Spec => []ReadyMeansSigned
<1>1. StartupInv => ReadyMeansSigned
  BY DEF StartupInv, TypeOK, Signed, ReadyMeansSigned, Opened, Booted
<1> QED
  BY <1>1, Invariance, PTL
=============================================================================
