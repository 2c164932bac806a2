----------------------------- MODULE Migrations -----------------------------
(***************************************************************************)
(* The migration runner: app/db.py, migrate and _apply, run by the         *)
(* service as it starts and by scripts/ensure-specialty-event-types.py,    *)
(* which a deploy runs beside it.  Every file is a transaction of its own  *)
(* with the row that records it; some files switch the foreign keys off    *)
(* around it, on the connection the later files of the run share.          *)
(***************************************************************************)
EXTENDS Naturals, FiniteSets

CONSTANTS
  Files,     \* the files, 1..n in the order of their names
  Toggles,   \* the files that switch the foreign keys off around their body
  Repeatable,\* the files whose statements may run again (CREATE ... IF NOT EXISTS)
  Alias,     \* each file's MIGRATION_ALIASES: the files it stands in for
  Runners,   \* processes that call migrate
  NoRunner

ASSUME MigrationsAssumption ==
  /\ Files \subseteq Nat \ {0} /\ IsFiniteSet(Files) /\ Toggles \subseteq Files /\ Repeatable \subseteq Files
  /\ Alias \in [Files -> SUBSET Files] /\ NoRunner \notin Runners

\* Each of two names stands in for the other, and a renamed file (its ALTER TABLE)
\* does not run twice.
ASSUME AliasAssumption ==
  /\ \A f, g \in Files : g \in Alias[f] => f \in Alias[g]
  /\ \A f \in Files : f \notin Alias[f]
  /\ \A f \in Repeatable : Alias[f] = {}

VARIABLES
  onDisk,    \* the files a deploy has put in migrations/
  recorded,  \* schema_migrations
  schema,    \* how often each file's body is in the schema
  writeLock, \* who is in a write transaction
  runner,    \* each process: its place, what it read, the file it is at, its foreign_keys
  \* history
  outOfTurn    \* files that were carried over by a deploy out of their order

migrationVars == <<onDisk, recorded, schema, writeLock, runner, outOfTurn>>

NotMigrating == [at |-> "idle", applied |-> {}, file |-> 0, keys |-> TRUE, files |-> {}]

MigrationsInit ==
  /\ onDisk = {} /\ recorded = {} /\ schema = [f \in Files |-> 0]
  /\ writeLock = NoRunner /\ runner = [r \in Runners |-> NotMigrating] /\ outOfTurn = {}

MoveRunner(r, p) == runner' = [runner EXCEPT ![r].at = p]
database == <<recorded, schema, writeLock>>

-----------------------------------------------------------------------------
\* A deploy adds a file, or gives one its other name; one that sorts before a
\* recorded one came late.
Deploy(f) ==
  /\ f \notin onDisk /\ onDisk' = (onDisk \ Alias[f]) \cup {f}
  /\ outOfTurn' = outOfTurn \cup {g \in recorded \cup UNION {runner[r].files : r \in Runners} : g > f}
  /\ UNCHANGED <<database, runner>>

\* A start of migrate: a new connection, whose foreign keys are on; the table, then
\* the directory, each read once.
ReadApplied(r) ==
  /\ runner[r].at = "idle"
  /\ runner' = [runner EXCEPT ![r] = [at |-> "list", applied |-> recorded, file |-> 0,
                                      keys |-> TRUE, files |-> {}]]
  /\ UNCHANGED <<onDisk, database, outOfTurn>>

ListFiles(r) ==
  /\ runner[r].at = "list"
  /\ runner' = [runner EXCEPT ![r].at = "next", ![r].files = onDisk]
  /\ UNCHANGED <<onDisk, database, outOfTurn>>

\* The loop skips what it read as applied, under either name, and goes on.
NamesOf(f)       == {f} \cup Alias[f]
Skips(r, f)    == NamesOf(f) \cap runner[r].applied # {}
Ahead(r)       == {f \in runner[r].files : f > runner[r].file /\ ~Skips(r, f)}

NextFile(r) ==
  /\ runner[r].at = "next"
  /\ \E f \in Ahead(r) :
       /\ \A g \in Ahead(r) : f <= g
       /\ runner' = [runner EXCEPT ![r].at = "begin", ![r].file = f,
                                   ![r].keys = IF f \in Toggles THEN FALSE ELSE @]
  /\ UNCHANGED <<onDisk, database, outOfTurn>>

MigrateReturns(r) ==
  /\ runner[r].at = "next" /\ Ahead(r) = {}
  /\ runner' = [runner EXCEPT ![r] = NotMigrating]
  /\ UNCHANGED <<onDisk, database, outOfTurn>>

-----------------------------------------------------------------------------
(* _apply *)

\* BEGIN IMMEDIATE waits for the write lock, thirty seconds at most.
LocksMut(r) == TRUE
Locks(r)    == writeLock = NoRunner
BeginImmediate(r) ==
  /\ runner[r].at = "begin" /\ Locks(r)
  /\ writeLock' = r /\ MoveRunner(r, "body")
  /\ UNCHANGED <<onDisk, recorded, schema, outOfTurn>>

BeginTimesOut(r) ==
  /\ runner[r].at = "begin" /\ ~Locks(r)
  /\ MoveRunner(r, "finally") /\ UNCHANGED <<onDisk, database, outOfTurn>>

\* The statements; most are refused if they are in the schema already.
BodyRuns(r) ==
  /\ runner[r].at = "body"
  /\ runner[r].file \in Repeatable \/ \A f \in NamesOf(runner[r].file) : schema[f] = 0
  /\ MoveRunner(r, "record")
  /\ UNCHANGED <<onDisk, database, outOfTurn>>

BodyRaises(r) ==
  /\ runner[r].at = "body"
  /\ MoveRunner(r, "rollback") /\ UNCHANGED <<onDisk, database, outOfTurn>>

\* The row with the file's name, which another may have written, and the commit.
RecordAndCommit(r) ==
  /\ runner[r].at = "record" /\ runner[r].file \notin recorded
  /\ recorded' = recorded \cup {runner[r].file}
  /\ schema' = [schema EXCEPT ![runner[r].file] = @ + 1]
  /\ writeLock' = NoRunner /\ MoveRunner(r, "epilogue")
  /\ UNCHANGED <<onDisk, outOfTurn>>

RecordRaises(r) ==
  /\ runner[r].at = "record" /\ runner[r].file \in recorded
  /\ MoveRunner(r, "rollback") /\ UNCHANGED <<onDisk, database, outOfTurn>>

RollBack(r) ==
  /\ runner[r].at = "rollback"
  /\ writeLock' = NoRunner /\ MoveRunner(r, "finally")
  /\ UNCHANGED <<onDisk, recorded, schema, outOfTurn>>

\* The trailing pragma, and the pragmas put back as they were before the file.
KeysBackMut(r) == runner[r].keys
KeysBack(r)    == TRUE
Epilogue(r) ==
  /\ runner[r].at = "epilogue"
  /\ runner' = [runner EXCEPT ![r].at = "next", ![r].keys = KeysBack(r)]
  /\ UNCHANGED <<onDisk, database, outOfTurn>>

\* A file that failed ends the run; the connection is closed.
MigrateRaises(r) ==
  /\ runner[r].at = "finally"
  /\ runner' = [runner EXCEPT ![r] = NotMigrating]
  /\ UNCHANGED <<onDisk, database, outOfTurn>>

\* What was not committed is gone.
RunnerKilled(r) ==
  /\ runner[r].at # "idle"
  /\ runner' = [runner EXCEPT ![r] = NotMigrating]
  /\ writeLock' = IF writeLock = r THEN NoRunner ELSE writeLock
  /\ UNCHANGED <<onDisk, recorded, schema, outOfTurn>>

MigrationsNext ==
  \/ \E f \in Files : Deploy(f)
  \/ \E r \in Runners :
       \/ ReadApplied(r) \/ ListFiles(r) \/ NextFile(r) \/ MigrateReturns(r) \/ BeginImmediate(r) \/ BeginTimesOut(r)
       \/ BodyRuns(r) \/ BodyRaises(r) \/ RecordAndCommit(r) \/ RecordRaises(r) \/ RollBack(r)
       \/ Epilogue(r) \/ MigrateRaises(r) \/ RunnerKilled(r)

MigrationsSpec == MigrationsInit /\ [][MigrationsNext]_migrationVars

-----------------------------------------------------------------------------
(* Properties *)

MigrationsTypeOK ==
  /\ onDisk \subseteq Files /\ recorded \subseteq Files /\ outOfTurn \subseteq Files
  /\ schema \in [Files -> Nat] /\ writeLock \in Runners \cup {NoRunner}
  /\ runner \in [Runners ->
       [at : {"idle", "list", "next", "begin", "body", "record", "rollback", "epilogue", "finally"},
        applied : SUBSET Files, file : Files \cup {0}, keys : BOOLEAN, files : SUBSET Files]]

\* A file's statements are in the schema exactly once if its row is in the table
\* and not at all if not, and under one of its names only, whoever runs, fails or is
\* killed (app/db.py:178-195, 20-26).
AppliedOnceAndRecorded ==
  \A f \in Files : /\ schema[f] = (IF f \in recorded THEN 1 ELSE 0)
                    /\ f \in recorded => Alias[f] \cap recorded = {}

\* No file is in the schema while one before it that has been there as long is not,
\* unless that one stands for, or is stood in for by, a recorded one
\* (app/db.py:217, the order of the names).
AppliedInOrder ==
  \A f \in recorded \ outOfTurn, g \in onDisk :
    g < f => NamesOf(g) \cap recorded # {}

\* A file that leaves the foreign keys alone runs with them on, whichever file ran,
\* or failed, before it on the same connection (app/db.py:198-203).
KeysAreOn ==
  \A r \in Runners : /\ runner[r].at \in {"body", "record"}
                     /\ runner[r].file \notin Toggles
                     => runner[r].keys

\* The three promises of the runner.
MigrationsHold == AppliedOnceAndRecorded /\ AppliedInOrder /\ KeysAreOn
=============================================================================
