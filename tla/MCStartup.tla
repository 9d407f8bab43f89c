----------------------------- MODULE MCStartup ------------------------------
(* Instances of Startup for TLC: every group of settings that are checked    *)
(* together takes all its values, with the others at their defaults, on an   *)
(* up-to-date database; and the default settings meet every kind of database. *)
EXTENDS Startup, TLC

MCAddresses == {"local", "proxy", "far"}

MCNetworks ==
  "127.0.0.1/32" :> {"local"} @@ "::1/128" :> {"local"} @@ "10.0.0.0/8" :> {"proxy"}

Default ==
  [AUDISTRO_ENV |-> "", PROVIDER_ENV |-> "unset", schemaFound |-> TRUE,
   identityPath |-> "absolute",
   number |-> [n \in DOMAIN DefaultNumber |-> Unset],
   flag |-> [f \in DOMAIN DefaultFlag("prod") |-> ""],
   word |-> [w \in WordNames |-> IF w \in {"StorageMode", "OriginAuthMode", "DataPath"}
                                   THEN "unset" ELSE ""],
   list |-> [l \in ListNames |-> <<"">>]]

Lists(a) == {<<"">>, <<"", "">>, <<a, "">>, <<a, "junk">>}

Internal ==
  {[Default EXCEPT !.AUDISTRO_ENV = a, !.flag.InternalEnable = i,
                   !.list.InternalAllowedCIDRs = l] :
     a \in {"", " ", "dev", "test", "junk"}, i \in {"", "true"}, l \in Lists("127.0.0.1/32")}
  \cup
  {[Default EXCEPT !.AUDISTRO_ENV = "dev", !.flag.TrustProxyHeaders = t,
                   !.list.TrustedProxyCIDRs = l] :
     t \in {"", "true"}, l \in Lists("10.0.0.0/8")}

Origin ==
  {[Default EXCEPT !.word.StorageMode = m, !.word.OriginBaseURL = u] :
     m \in {"", "junk", "filesystem", " Proxy", "hybrid"},
     u \in {"", "http", "nohost", "other"}}

Secrets ==
  {[Default EXCEPT !.word.StorageMode = m, !.word.OriginBaseURL = "http",
                   !.word.OriginAuthMode = a, !.word.OriginHMACSecretPath = f] :
     m \in {"filesystem", "hybrid"}, a \in {"", "HMAC", "junk"}, f \in {"", "path"}}

Catalog ==
  {[Default EXCEPT !.AUDISTRO_ENV = a, !.word.PublicBaseURL = u, !.word.CatalogBaseURL = c,
                   !.flag.AllowInsecurePublicURL = i] :
     a \in {"", "prod"}, u \in {"", "https", "http", "nohost"}, c \in {"", "http", "other"},
     i \in {"", "true"}}

Cors ==
  {[Default EXCEPT !.flag.EnableCORS = "true", !.list.CORSAllowedOrigins = l] :
     l \in Lists("origin") \cup {<<"*">>}}

Numbers ==
  {[Default EXCEPT !.number[n] = v] : n \in DOMAIN DefaultNumber, v \in {-1, 0, 1}}

Other ==
  {[Default EXCEPT !.PROVIDER_ENV = "dev"], [Default EXCEPT !.word.DataPath = ""],
   [Default EXCEPT !.flag.ScanOnStartup = "false", !.flag.EnforceNoSymlinks = "false"],
   [Default EXCEPT !.AUDISTRO_ENV = " prod", !.schemaFound = FALSE]}

UpToDate == [version |-> 1, tables |-> Tables, columns |-> Columns, rows |-> 1]

Databases ==
  {NoWork, UpToDate,
   [UpToDate EXCEPT !.version = 2],
   [UpToDate EXCEPT !.columns = {"last_announced_at"}],
   [UpToDate EXCEPT !.version = 0, !.columns = {}],
   [NoWork EXCEPT !.version = 1, !.tables = {"assets"}]}

MCStarts ==
  [env: Internal \cup Origin \cup Catalog \cup Cors \cup Numbers \cup Other,
   schema: {UpToDate}, secret: {"missing"}, root: {"none"}]
  \cup [env: Secrets, schema: {UpToDate}, secret: {"missing", "short", "long"}, root: {"dir"}]
  \cup [env: {Default}, schema: Databases, secret: {"missing"}, root: {"dir", "file"}]

=============================================================================
