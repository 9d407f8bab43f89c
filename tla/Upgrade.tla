------------------------------ MODULE Upgrade -------------------------------
(***************************************************************************)
(* What db.Migrate promises: whoever looks at the database file sees the   *)
(* schema it had or the present one, nothing in between, with every row it *)
(* held; and a database of another version is left as it is.               *)
(***************************************************************************)
EXTENDS Naturals

VARIABLE schema   \* [version, tables, columns of announcements, rows of announcements]

Tables == {"assets", "announcements"}

Columns == {"last_announced_at", "expires_at", "status", "created_at", "updated_at"}

currentSchemaVersion == 1

\* version 0: there is no schema_version yet
Schemas ==
  {s \in [version: Nat, tables: SUBSET Tables, columns: SUBSET Columns, rows: Nat] :
     "announcements" \notin s.tables => s.columns = {} /\ s.rows = 0}

Present(s) ==
  [version |-> currentSchemaVersion, tables |-> Tables, columns |-> Columns, rows |-> s.rows]

Init == schema \in Schemas

MigrateAtOnce ==
  /\ schema.version \in {0, currentSchemaVersion}
  /\ schema' = Present(schema)

Spec == Init /\ [][MigrateAtOnce]_schema
=============================================================================
