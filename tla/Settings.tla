------------------------------ MODULE Settings ------------------------------
(***************************************************************************)
(* From the environment to the components: envcheck.Validate, config.Load  *)
(* and Config.Validate, and what the constructors of the components then   *)
(* make, on their own, of the same settings.                               *)
(*                                                                         *)
(* An environment groups its settings by type.  Words stand for strings    *)
(* with the same treatment, "unset" for a variable that does not exist; a  *)
(* list is the sequence of its trimmed parts, <<"">> for an empty string;  *)
(* Unset is a number that is not given or cannot be parsed, and "" a       *)
(* Boolean of that kind.  A URL is known by its scheme, with "nohost" for  *)
(* one without a host, "other" for another scheme and "" for a blank.      *)
(***************************************************************************)
EXTENDS Integers, Sequences

CONSTANTS
  Unset,
  Addresses,    \* IP addresses
  Networks      \* Networks[c]: the addresses in c, for every c that ParseCIDR accepts

Loopback == <<"127.0.0.1/32", "::1/128">>

ASSUME SettingsAssumption ==
  /\ Unset \notin Int
  /\ "" \notin Addresses
  /\ Networks \in [DOMAIN Networks -> (SUBSET Addresses) \ {{}}]
  /\ {Loopback[1], Loopback[2]} \subseteq DOMAIN Networks
  /\ "" \notin DOMAIN Networks

-----------------------------------------------------------------------------
(* config.Load *)

TrimSpace(w) ==
  CASE w = " Proxy" -> "Proxy"
    [] w = " prod" -> "prod"
    [] w = " " -> ""
    [] OTHER -> w

\* strings.ToLower(strings.TrimSpace(w))
Normal(w) ==
  CASE TrimSpace(w) = "Proxy" -> "proxy"
    [] TrimSpace(w) = "HMAC" -> "hmac"
    [] OTHER -> TrimSpace(w)

getenv(w, fallback) == IF w = "unset" THEN fallback ELSE w

getenvInt(n, fallback) == IF n = Unset THEN fallback ELSE n

getenvBool(w, fallback) == w = "true" \/ (w # "false" /\ fallback)

\* the number settings that a component depends on, with their defaults
DefaultNumber ==
  [ShutdownTimeoutSeconds |-> 15, MaxSegmentBytes |-> 67108864, RateLimitRPS |-> 20,
   RateLimitBurst |-> 40, ProxyMaxUpstreamConcurrency |-> 64, CatalogTimeoutSeconds |-> 10,
   RescanIntervalSeconds |-> 300, AnnounceSweepIntervalSeconds |-> 300,
   BackoffBaseMillis |-> 2000, BackoffMaxSeconds |-> 600, RejectedRetrySeconds |-> 86400,
   UnauthorizedRetrySeconds |-> 3600]

\* the internal endpoints are on by default in development and tests only
DefaultFlag(env) ==
  [AllowInsecurePublicURL |-> FALSE, ScanOnStartup |-> TRUE, EnableCORS |-> FALSE,
   EnforceNoSymlinks |-> TRUE, TrustProxyHeaders |-> FALSE,
   InternalEnable |-> env \in {"dev", "test"}]

WordNames == {"PublicBaseURL", "CatalogBaseURL", "OriginBaseURL", "OriginHMACSecretPath",
              "StorageMode", "OriginAuthMode", "DataPath"}
ListNames == {"InternalAllowedCIDRs", "TrustedProxyCIDRs", "CORSAllowedOrigins"}

Environments ==
  [AUDISTRO_ENV: STRING, PROVIDER_ENV: STRING, schemaFound: BOOLEAN, identityPath: STRING,
   number: [DOMAIN DefaultNumber -> Int \cup {Unset}],
   flag: [DOMAIN DefaultFlag("prod") -> STRING],
   word: [WordNames -> STRING],
   list: [ListNames -> Seq(STRING)]]

\* strings.TrimSpace(l) == ""
Blank(l) == l = <<"">>

\* AUDISTRO_ENV wins over PROVIDER_ENV, and anything unknown is prod
EnvName(e) ==
  LET name == IF Normal(e.AUDISTRO_ENV) # "" THEN Normal(e.AUDISTRO_ENV)
                                             ELSE Normal(getenv(e.PROVIDER_ENV, "prod"))
  IN  IF name \in {"dev", "prod", "test"} THEN name ELSE "prod"

Load(e) ==
  LET env == EnvName(e) IN
  [number |-> [n \in DOMAIN DefaultNumber |-> getenvInt(e.number[n], DefaultNumber[n])],
   flag |-> [f \in DOMAIN DefaultFlag(env) |-> getenvBool(e.flag[f], DefaultFlag(env)[f])],
   word |-> [e.word EXCEPT
               !.StorageMode = Normal(getenv(@, "filesystem")),
               !.OriginAuthMode = Normal(getenv(@, "none")),
               !.DataPath = getenv(@, "./data")],
   list |-> [e.list EXCEPT
               !.InternalAllowedCIDRs = IF Blank(@) /\ env = "dev" THEN Loopback ELSE @]]

-----------------------------------------------------------------------------
(* envcheck.Validate and Config.Validate.  Each is true when the code       *)
(* returns no error.                                                        *)

\* a process that is given AUDISTRO_ENV=prod wants the variables that
\* ops/env.schema.json requires, in the form its patterns give
envcheckValidate(e) ==
  \/ TrimSpace(e.AUDISTRO_ENV) \in {"", "dev", "test"}
  \/ /\ TrimSpace(e.AUDISTRO_ENV) = "prod"
     /\ e.schemaFound
     /\ e.identityPath = "absolute"
     /\ {e.word.PublicBaseURL, e.word.CatalogBaseURL} \subseteq {"http", "https", "nohost"}

validateURL(u) == u \in {"http", "https"}

\* the parts that are not blank; their order is of no consequence
splitCSV(l) == {l[i] : i \in DOMAIN l} \ {""}

parseCIDRsOk(l) == splitCSV(l) # {} /\ splitCSV(l) \subseteq DOMAIN Networks

\* mutant: the origin is wanted in proxy mode only
ValidateStorageProxyOnly(c) ==
  c.word.StorageMode = "proxy" => validateURL(c.word.OriginBaseURL)

ValidateStorage(c) ==
  c.word.StorageMode \in {"proxy", "hybrid"} => validateURL(c.word.OriginBaseURL)

\* the checks that are made before the directories are created
ValidatePaths(c) ==
  /\ c.word.StorageMode \in {"", "filesystem", "proxy", "hybrid"}
  /\ \A n \in {"MaxSegmentBytes", "RateLimitRPS", "RateLimitBurst", "ShutdownTimeoutSeconds",
               "ProxyMaxUpstreamConcurrency"} : c.number[n] > 0
  /\ Normal(c.word.DataPath) # ""

\* the secret file is read here for the first time
ValidateOriginAuth(c, secret) ==
  \/ c.word.OriginAuthMode \in {"", "none"}
  \/ c.word.OriginAuthMode = "hmac" /\ c.word.OriginHMACSecretPath # "" /\ secret = "long"

ValidateURLs(c) ==
  /\ c.word.PublicBaseURL # "" =>
       /\ validateURL(c.word.PublicBaseURL)
       /\ c.word.PublicBaseURL = "https" \/ c.flag.AllowInsecurePublicURL
  /\ c.word.CatalogBaseURL # "" =>
       validateURL(c.word.CatalogBaseURL) /\ c.word.PublicBaseURL # ""

ValidateLists(c) ==
  /\ c.flag.EnableCORS =>
       splitCSV(c.list.CORSAllowedOrigins) # {} /\ "*" \notin splitCSV(c.list.CORSAllowedOrigins)
  /\ c.flag.InternalEnable =>
       ~Blank(c.list.InternalAllowedCIDRs) /\ parseCIDRsOk(c.list.InternalAllowedCIDRs)
  /\ ~Blank(c.list.TrustedProxyCIDRs) => parseCIDRsOk(c.list.TrustedProxyCIDRs)

\* Validate, but for the directories it creates
ValidateConfig(c, secret) ==
  /\ ValidatePaths(c)
  /\ ValidateURLs(c)
  /\ ValidateStorage(c)
  /\ ValidateOriginAuth(c, secret)
  /\ ValidateLists(c)

-----------------------------------------------------------------------------
(* What the components make of the configuration. *)

normalizeStorageMode(c) ==
  IF Normal(c.word.StorageMode) \in {"proxy", "hybrid"} THEN Normal(c.word.StorageMode)
                                                        ELSE "filesystem"

normalizeOriginAuthMode(c) == IF Normal(c.word.OriginAuthMode) = "hmac" THEN "hmac" ELSE "none"

\* initProxy: without a proxy every request that wants one is answered 500
HasProxy(c) ==
  normalizeStorageMode(c) \in {"proxy", "hybrid"} /\ c.word.OriginBaseURL \notin {"", "nohost"}

\* the limit on upstream requests; a nil semaphore, 0 here, limits nothing
SemaphoreSize(c) ==
  LET n == c.number.ProxyMaxUpstreamConcurrency IN IF n > 0 THEN n ELSE 0

AtLeast1(n) == IF n > 1 THEN n ELSE 1

\* NewClient fails for a URL without scheme or host, and main goes on without
HasCatalogClient(c) == c.word.CatalogBaseURL \notin {"", "nohost"}

OrDefault(n, default) == IF n > 0 THEN n ELSE default

CatalogTimeout(c) == OrDefault(c.number.CatalogTimeoutSeconds, 10)

Interval(n) == OrDefault(n, 300)

\* in milliseconds
NewBackoffState(c) ==
  [Base |-> OrDefault(c.number.BackoffBaseMillis, 2000),
   Max |-> OrDefault(1000 * c.number.BackoffMaxSeconds, 600000),
   RejectedRetry |-> OrDefault(1000 * c.number.RejectedRetrySeconds, 86400000),
   UnauthorizedRetry |-> OrDefault(1000 * c.number.UnauthorizedRetrySeconds, 3600000)]

\* ParseAllowedOrigins
AllowedOrigins(c) == splitCSV(c.list.CORSAllowedOrigins)

\* parseCIDRList, with no network at all after an error
ParsedNetworks(l) == IF splitCSV(l) \subseteq DOMAIN Networks THEN splitCSV(l) ELSE {}

ipInCIDRs(ip, l) == \E c \in ParsedNetworks(l) : ip \in Networks[c]

\* X-Forwarded-For counts only from a trusted proxy, and only if it is an address
clientIP(c, remote, xff) ==
  IF /\ c.flag.TrustProxyHeaders
     /\ ipInCIDRs(remote, c.list.TrustedProxyCIDRs)
     /\ xff \in Addresses
    THEN xff ELSE remote

\* the middleware before the internal endpoints
Admitted(c, remote, xff) == ipInCIDRs(clientIP(c, remote, xff), c.list.InternalAllowedCIDRs)

-----------------------------------------------------------------------------
\* What the components need to do what the settings ask for.
Usable(c) ==
  /\ normalizeStorageMode(c) \in {"proxy", "hybrid"} => HasProxy(c) /\ SemaphoreSize(c) > 0
  /\ c.number.MaxSegmentBytes > 0
  /\ AtLeast1(c.number.RateLimitRPS) = c.number.RateLimitRPS
  /\ AtLeast1(c.number.RateLimitBurst) = c.number.RateLimitBurst
  /\ c.word.CatalogBaseURL # "" =>
       HasCatalogClient(c) /\ c.word.PublicBaseURL # "" /\ CatalogTimeout(c) > 0
  /\ \A n \in {"RescanIntervalSeconds", "AnnounceSweepIntervalSeconds"} : Interval(c.number[n]) > 0
  /\ \A d \in DOMAIN NewBackoffState(c) : NewBackoffState(c)[d] > 0
  /\ c.flag.EnableCORS => AllowedOrigins(c) # {} /\ "*" \notin AllowedOrigins(c)
  /\ c.flag.InternalEnable =>
       /\ \E ip \in Addresses : Admitted(c, ip, "")
       /\ \A ip, xff \in Addresses :
            ~ipInCIDRs(ip, c.list.TrustedProxyCIDRs) => Admitted(c, ip, xff) = Admitted(c, ip, "")
=============================================================================
