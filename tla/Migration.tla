----------------------------- MODULE Migration ------------------------------
(***************************************************************************)
(* db.Open and db.Migrate by several processes on one database file.       *)
(* Migrate is one deferred transaction: it reads the file at its first     *)
(* statement, takes the write lock at its first write, and everything it   *)
(* does is gone if it does not commit.  SQLite, modelled from this use:    *)
(* one writer at a time; a transaction that read an older state than the   *)
(* present one cannot begin to write; one that finds the lock taken waits, *)
(* and may give up.                                                        *)
(***************************************************************************)
EXTENDS Naturals

CONSTANTS
  Processes,
  MaxFaults     \* bound: failed calls, killed processes, files changed under them

ASSUME MigrationAssumption == MaxFaults \in Nat

VARIABLES
  schema,       \* the database file, as committed
  writer,       \* the process that holds the write lock, in a set
  pc,           \* where main is
  work,         \* work[p]: the database as the transaction of p sees it
  faults

dbVars == <<schema, writer, work>>

Committed == INSTANCE Upgrade WITH schema <- schema

Tables == Committed!Tables
Columns == Committed!Columns

NoWork == [version |-> 0, tables |-> {}, columns |-> {}, rows |-> 0]

Locked == {"version", "columns", "commit"}
InTx == {"create"} \cup Locked

Fault ==
  /\ faults < MaxFaults
  /\ faults' = faults + 1

\* the process ends, by os.Exit after an error or killed: its transaction is
\* rolled back and its lock is free
Ended(p) ==
  /\ pc' = [pc EXCEPT ![p] = "down"]
  /\ work' = [work EXCEPT ![p] = NoWork]
  /\ writer' = writer \ {p}
  /\ UNCHANGED schema

-----------------------------------------------------------------------------
(* db.Open *)

\* MkdirAll twice, sql.Open, the three pragmas and Ping
Open(p) ==
  /\ pc[p] = "open"
  /\ pc' = [pc EXCEPT ![p] = "begin"]
  /\ UNCHANGED <<dbVars, faults>>

\* the first pragma may want the lock, and there is no busy timeout yet
OpenBusy(p) ==
  /\ pc[p] = "open"
  /\ writer # {}
  /\ Ended(p)
  /\ UNCHANGED faults

-----------------------------------------------------------------------------
(* db.Migrate *)

\* BeginTx and the first statement: a read when there is a schema_version, and
\* the beginning of a write when there is none
BeginTx(p) ==
  /\ pc[p] = "begin"
  /\ pc' = [pc EXCEPT ![p] = "create"]
  /\ work' = [work EXCEPT ![p] = IF schema.version = 0 THEN NoWork ELSE schema]
  /\ UNCHANGED <<schema, writer, faults>>

\* CREATE TABLE IF NOT EXISTS, INSERT ... ON CONFLICT DO NOTHING
WithTables(s) ==
  [version |-> IF s.version = 0 THEN 1 ELSE s.version,
   tables |-> Tables,
   columns |-> IF "announcements" \in s.tables THEN s.columns ELSE Columns,
   rows |-> s.rows]

\* mutant: the statements are executed on the database, not on the transaction
CreateTablesOutside(p) ==
  /\ pc[p] = "create"
  /\ writer = {}
  /\ work[p] \in {NoWork, schema}
  /\ writer' = {p}
  /\ work' = [work EXCEPT ![p] = WithTables(schema)]
  /\ schema' = WithTables(schema)
  /\ pc' = [pc EXCEPT ![p] = "version"]
  /\ UNCHANGED faults

\* the list of statements, with the write lock from here on
CreateTables(p) ==
  /\ pc[p] = "create"
  /\ writer = {}
  /\ work[p] \in {NoWork, schema}
  /\ writer' = {p}
  /\ work' = [work EXCEPT ![p] = WithTables(schema)]
  /\ pc' = [pc EXCEPT ![p] = "version"]
  /\ UNCHANGED <<schema, faults>>

\* SQLITE_BUSY after the timeout, or at once when another process has committed
\* what this transaction has not read
Busy(p) ==
  /\ pc[p] = "create"
  /\ writer # {} \/ work[p] \notin {NoWork, schema}
  /\ Ended(p)
  /\ UNCHANGED faults

\* mutant: a newer version is taken for good
CheckVersionAtLeast(p) ==
  /\ pc[p] = "version"
  /\ \/ /\ work[p].version >= Committed!currentSchemaVersion
        /\ pc' = [pc EXCEPT ![p] = "columns"]
        /\ UNCHANGED dbVars
     \/ work[p].version < Committed!currentSchemaVersion /\ Ended(p)
  /\ UNCHANGED faults

\* a database of another version is refused
CheckVersion(p) ==
  /\ pc[p] = "version"
  /\ \/ /\ work[p].version = Committed!currentSchemaVersion
        /\ pc' = [pc EXCEPT ![p] = "columns"]
        /\ UNCHANGED dbVars
     \/ work[p].version # Committed!currentSchemaVersion /\ Ended(p)
  /\ UNCHANGED faults

\* mutant: ALTER TABLE without a look at table_info fails for a column that exists
EnsureColumnsBlindly(p) ==
  /\ pc[p] = "columns"
  /\ \/ /\ work[p].columns = {}
        /\ work' = [work EXCEPT ![p].columns = Columns]
        /\ pc' = [pc EXCEPT ![p] = "commit"]
        /\ UNCHANGED <<schema, writer>>
     \/ work[p].columns # {} /\ Ended(p)
  /\ UNCHANGED faults

\* ensureAnnouncementColumn for each column: added, with its default in the
\* rows there are, unless table_info has it
EnsureColumns(p) ==
  /\ pc[p] = "columns"
  /\ work' = [work EXCEPT ![p].columns = @ \cup Columns]
  /\ pc' = [pc EXCEPT ![p] = "commit"]
  /\ UNCHANGED <<schema, writer, faults>>

Commit(p) ==
  /\ pc[p] = "commit"
  /\ schema' = work[p]
  /\ writer' = {}
  /\ work' = [work EXCEPT ![p] = NoWork]
  /\ pc' = [pc EXCEPT ![p] = "scan"]
  /\ UNCHANGED faults

Migrate(p) ==
  \/ BeginTx(p) \/ CreateTables(p) \/ Busy(p) \/ CheckVersion(p) \/ EnsureColumns(p) \/ Commit(p)
=============================================================================
