------------------------ MODULE CloudflareUsageSchema ------------------------
(***************************************************************************)
(* The SQLite schema of the Cloudflare store's Durable Object              *)
(* (packages/cloudflare/src/schema.ts), which is checked, created or       *)
(* migrated in one transaction whenever the object is constructed          *)
(* (versioned-worker.ts), and before the statements of the older           *)
(* constructor (worker.ts, ensureSchema), which each commit on their own.  *)
(* Every statement is a step, and the construction may end at any of them: *)
(* because a check throws, because the statement fails, or because the     *)
(* object is evicted.  What a table or an index looks like matters only as *)
(* far as the checks tell it apart: missing, as expected, or another.      *)
(***************************************************************************)
EXTENDS Naturals, Sequences

V1Tables == {"budgets", "reservations"}
Tables == V1Tables \cup {"reservation_growth", "reservation_vectors"}
Indexes == {"reservations_active_expiry", "reservations_tombstone_expiry"}
Forms == {"missing", "exact", "other"}

SchemaVersion == 3

(* hasVersion: the table of the version is there.  version 0: it has no    *)
(* row, as before versions were recorded; 4: that of a runtime to come.    *)
Schema == [hasVersion : BOOLEAN, version : 0..SchemaVersion + 1,
           tables : [Tables -> Forms], indexes : [Indexes -> Forms]]

(* An index as expected is on reservations.                                *)
Database ==
  {db \in Schema :
     /\ db.version # 0 => db.hasVersion
     /\ \A i \in Indexes : db.indexes[i] = "exact" => db.tables["reservations"] # "missing"}

Phases == {"down", "reading", "migrating", "compatibility", "up"}

VARIABLES
  database,   \* as committed
  trial,      \* as the transaction under way sees it
  phase,      \* of the construction; only an object that is up takes calls
  statement   \* the next one of Migration, or of Compatibility

schemaVars == <<database, trial, phase, statement>>

(* Any database may be found: the object does not own its name.            *)
SchemaInit == database \in Database /\ trial = database /\ phase = "down" /\ statement = 1
-----------------------------------------------------------------------------
HasTables(db, names) == \A t \in names : db.tables[t] = "exact"

HasIndexes(db, allowMissing) ==
  \A i \in Indexes : db.indexes[i] = "exact" \/ (db.indexes[i] = "missing" /\ allowMissing)

ValidV1(db, allowMissingIndexes) == HasTables(db, V1Tables) /\ HasIndexes(db, allowMissingIndexes)

ValidV2(db) == ValidV1(db, FALSE) /\ HasTables(db, {"reservation_growth"})
ValidV3(db) == ValidV2(db) /\ HasTables(db, {"reservation_vectors"})

(* What creates the schema: the two tables of version 1, their indexes,    *)
(* the table of each later version, and the record of the version.         *)
Migration ==
  <<"budgets", "reservations", "reservations_active_expiry", "reservations_tombstone_expiry",
    "reservation_growth", "reservation_vectors", "version">>

(* ensureSchema of the older constructor.                                  *)
Compatibility ==
  <<"budgets", "reservations", "reservation_growth", "reservation_vectors",
    "reservations_active_expiry", "reservations_tombstone_expiry">>

(* CREATE ... IF NOT EXISTS leaves what is there as it is.                 *)
Created(form) == IF form = "missing" THEN "exact" ELSE form

Executed(db, name) ==
  CASE name \in Tables -> [db EXCEPT !.tables[name] = Created(@)]
    [] name \in Indexes -> [db EXCEPT !.indexes[name] = Created(@)]
    [] OTHER -> [db EXCEPT !.version = SchemaVersion]
-----------------------------------------------------------------------------
(* createSchemaTable, the first statement of the transaction.              *)
Begin ==
  /\ phase = "down"
  /\ phase' = "reading"
  /\ trial' = [database EXCEPT !.hasVersion = TRUE]
  /\ UNCHANGED <<database, statement>>

(* What is left to do depends on the version; adoptOrCreateV1 takes        *)
(* neither table, or both as they were before versions.                    *)
ReadVersion ==
  /\ phase = "reading"
  /\ \/ trial.version = 0 /\ (\A t \in V1Tables : trial.tables[t] = "missing") /\ statement' = 1
     \/ trial.version = 0 /\ ValidV1(trial, TRUE) /\ statement' = 3
     \/ trial.version = 1 /\ ValidV1(trial, FALSE) /\ statement' = 5
     \/ trial.version = 2 /\ ValidV2(trial) /\ statement' = 6
     \/ trial.version = 3 /\ statement' = 8
  /\ phase' = "migrating"
  /\ UNCHANGED <<database, trial>>

(* Mutant: the statements are not in a transaction.                        *)
MigrateCommitting ==
  /\ phase = "migrating"
  /\ statement <= Len(Migration)
  /\ trial' = Executed(trial, Migration[statement])
  /\ database' = trial'
  /\ statement = 4 => ValidV1(trial', FALSE)
  /\ statement' = statement + 1
  /\ UNCHANGED phase

Migrate ==
  /\ phase = "migrating"
  /\ statement <= Len(Migration)
  /\ trial' = Executed(trial, Migration[statement])
  /\ statement = 4 => ValidV1(trial', FALSE)
  /\ statement' = statement + 1
  /\ UNCHANGED <<database, phase>>

Commit ==
  /\ phase = "migrating"
  /\ statement > Len(Migration)
  /\ ValidV3(trial)
  /\ database' = trial
  /\ phase' = "compatibility"
  /\ statement' = 1
  /\ UNCHANGED trial

EnsureSchema ==
  /\ phase = "compatibility"
  /\ statement <= Len(Compatibility)
  /\ database' = Executed(database, Compatibility[statement])
  /\ trial' = database'
  /\ statement' = statement + 1
  /\ UNCHANGED phase

Constructed ==
  /\ phase = "compatibility"
  /\ statement > Len(Compatibility)
  /\ phase' = "up"
  /\ statement' = 1
  /\ UNCHANGED <<database, trial>>

(* A check throws, a statement fails or the object is evicted: what was    *)
(* not committed is rolled back, and the object is constructed again for   *)
(* the next request.                                                       *)
Stop ==
  /\ phase # "down"
  /\ phase' = "down"
  /\ trial' = database
  /\ statement' = 1
  /\ UNCHANGED database

SchemaNext == Begin \/ ReadVersion \/ Migrate \/ Commit \/ EnsureSchema \/ Constructed \/ Stop
-----------------------------------------------------------------------------
(* What a runtime of SchemaVersion may take for its own, with tables or    *)
(* indexes of later versions that are in the way only if they differ.      *)
Recognized(db) ==
  /\ db.version <= SchemaVersion
  /\ \A t \in Tables : db.tables[t] # "other"
  /\ \A i \in Indexes : db.indexes[i] # "other"
  /\ db.tables["budgets"] = db.tables["reservations"]
  /\ db.version >= 1 => ValidV1(db, FALSE)
  /\ db.version >= 2 => db.tables["reservation_growth"] = "exact"
  /\ db.version >= 3 => db.tables["reservation_vectors"] = "exact"

Whole(db) == db.hasVersion /\ db.version = SchemaVersion /\ ValidV3(db)

(* Wherever a construction ends, the database is as it was found or whole: *)
(* it changes only from one that the runtime recognizes, in one step, to   *)
(* the current schema; one that is newer, incomplete or not its own stays  *)
(* as it was, without the table of the version; no statement of the older  *)
(* constructor changes anything; and the object takes calls only on the    *)
(* current schema.                                                         *)
ChangesWhole ==
  [][/\ database' # database => Recognized(database) /\ Whole(database')
     /\ phase' = "up" => Whole(database')]_schemaVars
=============================================================================
