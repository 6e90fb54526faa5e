------------------------------ MODULE Migrator ------------------------------
(***************************************************************************)
(* The database file and the processes that migrate it: the Migrator of    *)
(* repository/sqlite_utils.go and the commands of cmd/emojix/migrate.go.   *)
(*                                                                         *)
(* A file that is removed while a process has it open lives on, unseen,    *)
(* behind that process's handle, and the next one to open the path gets a  *)
(* new, empty file: files are numbered, and the path leads to one of them. *)
(* SQLite rolls an unfinished transaction back when its process dies and   *)
(* lets one process write at a time, so a transaction is one action.       *)
(***************************************************************************)
EXTENDS Naturals

CONSTANTS
  Proc,           \* processes running "migrate"
  Commands,       \* the commands each of them may be given
  Known,          \* bound: migration files there are at first
  MaxMigrations,  \* bound: migration files there will ever be
  MaxFiles,       \* bound: database files there will ever be
  SeedNeeds       \* the migration that makes the tables seed.sql fills

Command == {"up", "seed", "create", "fresh", "reset"}
Migration == 1..MaxMigrations
File == 1..MaxFiles
NoFile == 0

\* What the constants must be, assumed by the module that gives them values.
MigratorConstants ==
  /\ {Known, MaxMigrations, MaxFiles} \subseteq Nat /\ Known <= MaxMigrations
  /\ SeedNeeds \in Migration
  /\ Commands \in [Proc -> SUBSET Command]

VARIABLES
  disk,      \* the file the path leads to
  used,      \* how many files there have been
  recorded,  \* per file, the rows of its table migrations
  effects,   \* per file, how often each migration's statements took effect in it
  seeded,    \* the files that hold the rows of seed.sql
  known,     \* migration files in ./database/migrations: the names 1..known
  procPc, procCmd,
  procDb,    \* the file a process has open
  procTodo   \* the files it lists that were not recorded when it looked

fileVars == <<recorded, effects, seeded>>
procVars == <<procPc, procCmd, procDb, procTodo>>
migratorVars == <<disk, used, fileVars, known, procVars>>

TypeOK ==
  /\ used \in 0..MaxFiles /\ disk \in 0..used
  /\ recorded \in [File -> SUBSET Migration]
  /\ effects \in [File -> [Migration -> Nat]]
  /\ seeded \subseteq File
  /\ known \in Known..MaxMigrations
  /\ procPc \in [Proc -> {"idle", "remove", "setup", "read", "apply", "seed", "create"}]
  /\ procCmd \in [Proc -> Command]
  /\ procDb \in [Proc -> 0..used]
  /\ procTodo \in [Proc -> SUBSET Migration]

\* No database yet, and nobody has migrated.
Init ==
  /\ disk = NoFile /\ used = 0
  /\ recorded = [f \in File |-> {}]
  /\ effects = [f \in File |-> [m \in Migration |-> 0]]
  /\ seeded = {}
  /\ known = Known
  /\ procPc = [p \in Proc |-> "idle"]
  /\ procCmd = [p \in Proc |-> "up"]
  /\ procDb = [p \in Proc |-> NoFile]
  /\ procTodo = [p \in Proc |-> {}]

-----------------------------------------------------------------------------
(* Opening and removing the file *)

\* Whoever opens the path opens file f: the one that is there or a new, empty one.
Open(f) ==
  /\ disk' = f
  /\ \/ f = disk /\ f # NoFile /\ UNCHANGED used
     \/ disk = NoFile /\ f = used + 1 /\ f \in File /\ used' = f

\* os.Remove, which may fail; the bound leaves a number for the file that comes after.
Unlink ==
  /\ disk' \in {disk} \cup {f \in {NoFile} : used < MaxFiles}
  /\ UNCHANGED used

Goto(p, from, to) ==
  /\ procPc[p] = from
  /\ procPc' = [procPc EXCEPT ![p] = to]

\* The process ends: its handle and what it had read are gone.
Finish(p) ==
  /\ procPc' = [procPc EXCEPT ![p] = "idle"]
  /\ procCmd' = [procCmd EXCEPT ![p] = "up"]
  /\ procDb' = [procDb EXCEPT ![p] = NoFile]
  /\ procTodo' = [procTodo EXCEPT ![p] = {}]

-----------------------------------------------------------------------------
(* migrate *)

Start(p) ==
  /\ \E c \in Commands[p] :
       /\ procCmd' = [procCmd EXCEPT ![p] = c]
       /\ Goto(p, "idle", IF c \in {"reset", "fresh"} THEN "remove" ELSE "setup")
  /\ UNCHANGED <<disk, used, fileVars, known, procDb, procTodo>>

\* "reset" does no more than this; "fresh" goes on, also when the old file is still there.
Remove(p) ==
  /\ procPc[p] = "remove"
  /\ Unlink
  /\ IF procCmd[p] = "reset" THEN Finish(p)
     ELSE Goto(p, "remove", "setup") /\ UNCHANGED <<procCmd, procDb, procTodo>>
  /\ UNCHANGED <<fileVars, known>>

\* setupMigrationTable, the first use of the database: the file is opened.
Setup(p) ==
  /\ Goto(p, "setup", "read")
  /\ \E f \in File : Open(f) /\ procDb' = [procDb EXCEPT ![p] = f]
  /\ UNCHANGED <<fileVars, known, procCmd, procTodo>>

\* What the command does once the migrator is set up.
Work(c) == IF c \in {"up", "fresh"} THEN "apply" ELSE c

\* readAppliedMigrations and readLocalMigrationFiles; isMigrationApplied goes by what
\* was recorded now.
ReadApplied(p) ==
  /\ Goto(p, "read", Work(procCmd[p]))
  /\ procTodo' = [procTodo EXCEPT ![p] = (1..known) \ recorded[procDb[p]]]
  /\ UNCHANGED <<disk, used, fileVars, known, procCmd, procDb>>

\* The next file in the order of their names.
NextFile(p, m) ==
  /\ procPc[p] = "apply"
  /\ m \in procTodo[p]
  /\ \A k \in procTodo[p] : m <= k

\* name is the primary key of migrations: a second row is refused, also where the
\* statements could be repeated.
RefusedByKey(f, m) == m \in recorded[f]

\* applyMigration that commits: the statements and the row, together.
ApplyMigration(p) ==
  \E m \in Migration :
    LET f == procDb[p]
    IN  /\ NextFile(p, m) /\ ~RefusedByKey(f, m)
        /\ effects' = [effects EXCEPT ![f][m] = @ + 1]
        /\ recorded' = [recorded EXCEPT ![f] = @ \cup {m}]
        /\ procTodo' = [procTodo EXCEPT ![p] = @ \ {m}]
        /\ UNCHANGED <<disk, used, seeded, known, procPc, procCmd, procDb>>

\* Seeded fault: the statements are executed outside the transaction, so that they stay
\* where the row is refused.
KeepStatements(f, m) ==
  /\ effects' = [effects EXCEPT ![f][m] = @ + 1]
  /\ UNCHANGED <<recorded, seeded>>

\* The deferred Rollback: the file is as it was.
Rollback(f, m) == UNCHANGED fileVars

\* applyMigration whose row is refused: UpCmd and the command end.
RefuseMigration(p) ==
  \E m \in Migration :
    /\ NextFile(p, m) /\ RefusedByKey(procDb[p], m)
    /\ Rollback(procDb[p], m)
    /\ Finish(p)
    /\ UNCHANGED <<disk, used, known>>

\* UpCmd is through; "fresh" goes on with the seed.
UpDone(p) ==
  /\ procPc[p] = "apply" /\ procTodo[p] = {}
  /\ IF procCmd[p] = "fresh"
     THEN Goto(p, "apply", "seed") /\ UNCHANGED <<procCmd, procDb, procTodo>>
     ELSE Finish(p)
  /\ UNCHANGED <<disk, used, fileVars, known>>

\* SeedCmd: it needs its tables, and its rows have primary keys.
Seed(p) ==
  /\ procPc[p] = "seed"
  /\ seeded' = seeded \cup (IF SeedNeeds \in recorded[procDb[p]] THEN {procDb[p]} ELSE {})
  /\ Finish(p)
  /\ UNCHANGED <<disk, used, recorded, effects, known>>

\* CreateCmd: the time of day in the name puts it after all others.
Create(p) ==
  /\ procPc[p] = "create"
  /\ known' = known + 1 /\ known' \in Migration
  /\ Finish(p)
  /\ UNCHANGED <<disk, used, fileVars>>

\* A command fails or is killed anywhere: SQLITE_BUSY, an unreadable file, a signal.
Fail(p) ==
  /\ procPc[p] # "idle"
  /\ Finish(p)
  /\ UNCHANGED <<disk, used, fileVars, known>>

-----------------------------------------------------------------------------
ProcStep(p) ==
  \/ Start(p) \/ Remove(p) \/ Setup(p) \/ ReadApplied(p)
  \/ ApplyMigration(p) \/ RefuseMigration(p) \/ UpDone(p)
  \/ Seed(p) \/ Create(p) \/ Fail(p)

Next == \E p \in Proc : ProcStep(p)

Spec == Init /\ [][Next]_migratorVars
-----------------------------------------------------------------------------
(* What the migrator promises *)

\* In every file, also one that is removed while processes still work on it, a migration
\* has taken effect once if it is recorded and not at all otherwise, a migration is
\* recorded only after all before it, and the seed is there only on top of its tables:
\* whatever processes run at the same time and wherever they fail
\* (sqlite_utils.go:130-183, :195-219).
SchemaMatchesRecord ==
  \A f \in File :
    /\ \A m \in Migration : effects[f][m] = IF m \in recorded[f] THEN 1 ELSE 0
    /\ \A m \in recorded[f] : 1..m \subseteq recorded[f]
    /\ f \in seeded => SeedNeeds \in recorded[f]
=============================================================================
