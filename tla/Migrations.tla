----------------------------- MODULE Migrations -----------------------------
(***************************************************************************)
(* Opening the database: migrateDb of shared-db.ts and                     *)
(* runPendingMigrations of migrations.ts.                                  *)
(*                                                                         *)
(* Every hook, server and command opens the database when it starts and    *)
(* brings it to the schema of its own release, under a lock file; the      *)
(* command line (--up) migrates without the lock, and the Hermes plugin    *)
(* creates the tables and adds some of the columns by itself.  A migration *)
(* and the row that records it are one transaction.                        *)
(*                                                                         *)
(* A migration adds a column or does not, and fills in rows.  What it      *)
(* creates IF NOT EXISTS is left out, and so are checksums: the file of a  *)
(* version is the same in every release.                                   *)
(***************************************************************************)
EXTENDS Naturals, FiniteSets

CONSTANTS
    Procs,       \* processes that open the database
    CommandLine, \* those that run migrations.ts --up
    NoOne, Dead, \* the lock file is absent, or its process has ended
    Latest,      \* the versions are 1..Latest
    Release,     \* the newest version each process has a file for
    Alters,      \* versions that add a column
    HermesAdds,  \* columns that Hermes adds to an existing table
    Retention,   \* LTM_BACKUP_RETENTION
    MaxOpens,    \* bound: how often the database is opened
    MaxFaults    \* bound: crashes, failed writes and stolen locks

Versions == 1..Latest

ASSUME MigrationsAssumption ==
    /\ Latest \in Nat /\ MaxOpens \in Nat /\ MaxFaults \in Nat
    /\ CommandLine \subseteq Procs
    /\ Release \in [Procs -> Versions]
    /\ Alters \subseteq Versions
    /\ HermesAdds \subseteq Alters
    /\ Retention \in Nat
    /\ NoOne # Dead /\ {NoOne, Dead} \cap Procs = {}

VARIABLES
    content,   \* the tables: "none", "empty", or with "rows"
    columns,   \* the columns there are, by the version that adds them
    filled,    \* how often the rows were filled in for a version
    recorded,  \* _schema_version
    backups,   \* the backup files, in the order they were made
    aged,      \* those older than 60 s
    taken,     \* how many were made
    lock,      \* <db>.migrate.lock
    pc,        \* where a process is
    existed,   \* those that found the table memories (hasMemories)
    pending,   \* the versions it has still to apply
    backup,    \* its own backup, 0 for none
    early,     \* those that were migrating before there were rows
    opens, faults

database == <<content, columns, filled, recorded>>
files == <<backups, aged, taken>>
process == <<pc, existed, pending, backup, early>>
counts == <<opens, faults>>
vars == <<database, files, lock, process, counts>>

\* A new file, one that Hermes made, or one that some release migrated.
Init ==
    /\ content \in {"none", "empty", "rows"}
    /\ \E n \in 0..Latest : recorded = 1..n
    /\ columns \in SUBSET Alters /\ recorded \cap Alters \subseteq columns
    /\ content = "none" => recorded = {} /\ columns = {}
    /\ filled = [v \in Versions |-> IF v \in recorded THEN 1 ELSE 0]
    /\ backups = {} /\ aged = {} /\ taken = 0
    /\ lock = NoOne
    /\ pc = [p \in Procs |-> "off"]
    /\ existed = {}
    /\ pending = [p \in Procs |-> {}]
    /\ backup = [p \in Procs |-> 0] /\ early = {}
    /\ opens = 0 /\ faults = 0

\* getMigrationFiles
Files(p) == 1..Release[p]

At(p, from, to) == pc[p] = from /\ pc' = [pc EXCEPT ![p] = to]

Ended == {"off", "ready", "failed"}

Fault == faults < MaxFaults /\ faults' = faults + 1

Unlock(p) == lock' = IF lock = p THEN NoOne ELSE lock

\* What migrateDb keeps in its variables ends with the call.
Return(p) ==
    /\ existed' = existed \ {p} /\ early' = early \ {p}
    /\ pending' = [pending EXCEPT ![p] = {}]
    /\ backup' = [backup EXCEPT ![p] = 0]

\* An exception: the finally releases the lock.  A process with a cold connection
\* (ColdOpen) is served by it from then on.
Throw(p) ==
    /\ pc' = [pc EXCEPT ![p] = "failed"]
    /\ Unlock(p)
    /\ Return(p)

-----------------------------------------------------------------------------
\* initDb: open the file and look for the table memories.
Open(p) ==
    /\ pc[p] \in Ended
    /\ opens < MaxOpens /\ opens' = opens + 1
    /\ pc' = [pc EXCEPT ![p] = IF p \in CommandLine THEN "begin" ELSE "look"]
    /\ existed' = IF content = "none" THEN existed \ {p} ELSE existed \cup {p}
    /\ UNCHANGED <<database, files, lock, pending, backup, early, faults>>

\* getDb: until the start is over, and for good if it fails, the callers are
\* served by a connection of their own, which has seen schema.sql alone; on an
\* older database schema.sql raises, which is ignored.
ColdOpen(p) ==
    /\ pc[p] \notin Ended /\ p \notin CommandLine
    /\ content = "none" /\ content' = "empty"
    /\ columns' = Alters \cap Files(p)
    /\ UNCHANGED <<filled, recorded, files, lock, process, counts>>

\* Mutant: some recorded version is enough.
CurrentIfAny(p) == p \in existed /\ recorded # {}

\* migrationsCurrent: the newest recorded version is the newest file.
Current(p) ==
    /\ p \in existed /\ Release[p] \in recorded
    /\ \A v \in recorded : v <= Release[p]

Look(p) ==
    /\ IF Current(p) THEN At(p, "look", "ready") ELSE At(p, "look", "waiting")
    /\ UNCHANGED <<database, files, lock, existed, pending, backup, early, counts>>

\* Mutant: a lock file in the way is waited for, whoever made it.
AcquireFree(p) ==
    /\ At(p, "waiting", IF p \in existed THEN "begin" ELSE "schema")
    /\ lock = NoOne /\ lock' = p
    /\ UNCHANGED <<database, files, existed, pending, backup, early, counts>>

\* The lock is taken when it is free or left by a dead process, or after ten
\* minutes from a live one.
Acquire(p) ==
    /\ At(p, "waiting", IF p \in existed THEN "begin" ELSE "schema")
    /\ \/ lock \in {NoOne, Dead} /\ UNCHANGED faults
       \/ lock \in Procs /\ Fault
    /\ lock' = p
    /\ UNCHANGED <<database, files, existed, pending, backup, early, opens>>

\* schema.sql on what was a new file: when somebody else has made the table in
\* the meantime, the indexes on its later columns raise.
Schema(p) ==
    /\ \/ /\ content = "none" /\ content' = "empty"
          /\ At(p, "schema", "begin")
          /\ columns' = Alters \cap Files(p)
          /\ UNCHANGED <<lock, existed, pending, backup, early>>
       \/ /\ content # "none" /\ Alters \cap Files(p) \subseteq columns
          /\ At(p, "schema", "begin")
          /\ UNCHANGED <<content, columns, lock, existed, pending, backup, early>>
       \/ /\ content # "none" /\ ~(Alters \cap Files(p) \subseteq columns)
          /\ pc[p] = "schema" /\ Throw(p)
          /\ UNCHANGED <<content, columns>>
    /\ UNCHANGED <<filled, recorded, files, counts>>

\* runPendingMigrations: refuse a database with a version that has no file
\* here, otherwise find what is pending.
Begin(p) ==
    /\ pc[p] = "begin"
    /\ \/ /\ ~(recorded \subseteq Files(p))
          /\ Throw(p)
       \/ /\ recorded \subseteq Files(p)
          /\ pending' = [pending EXCEPT ![p] = Files(p) \ recorded]
          /\ At(p, "begin", IF recorded = Files(p) THEN "end" ELSE "backup")
          /\ UNCHANGED <<lock, existed, backup, early>>
    /\ UNCHANGED <<database, files, counts>>

\* backupDb: nothing for a database without rows; a failure ends the run.
Backup(p) ==
    /\ \/ /\ content = "rows"
          /\ At(p, "backup", "apply")
          /\ taken' = taken + 1
          /\ backups' = backups \cup {taken'}
          /\ backup' = [backup EXCEPT ![p] = taken']
          /\ UNCHANGED <<lock, existed, pending, early, faults>>
       \/ /\ content # "rows"
          /\ At(p, "backup", "apply")
          /\ UNCHANGED <<backups, taken, lock, existed, pending, backup, early, faults>>
       \/ /\ content = "rows" /\ pc[p] = "backup" /\ Fault /\ Throw(p)
          /\ UNCHANGED <<backups, taken>>
    /\ UNCHANGED <<database, aged, opens>>

\* What remains after a version is recorded.
Proceed(p, v) ==
    /\ pending' = [pending EXCEPT ![p] = @ \ {v}]
    /\ At(p, "apply", IF pending[p] = {v} THEN "retain" ELSE "apply")
    /\ UNCHANGED <<lock, existed, backup, early>>

\* The statements of a migration in order and its row, in one transaction.
Migrate(p, v) ==
    /\ v \notin recorded /\ v \notin columns
    /\ v \in Alters => content # "none"
    /\ recorded' = recorded \cup {v}
    /\ columns' = columns \cup ({v} \cap Alters)
    /\ filled' = [filled EXCEPT ![v] = @ + 1]
    /\ Proceed(p, v)

\* Mutant: a migration whose column is there has been done.
ReconcileByColumn(p, v) ==
    /\ v \notin recorded /\ v \in columns
    /\ recorded' = recorded \cup {v}
    /\ UNCHANGED <<columns, filled>>
    /\ Proceed(p, v)

\* When a column is there already: the other statements and the row, in a
\* second transaction.  It refuses what is destructive; no migration of the
\* repository both adds a column and drops something.
Reconcile(p, v) ==
    /\ v \notin recorded /\ v \in columns
    /\ recorded' = recorded \cup {v}
    /\ filled' = [filled EXCEPT ![v] = @ + 1]
    /\ UNCHANGED columns
    /\ Proceed(p, v)

\* Both transactions roll back: another process has recorded the version
\* (UNIQUE), --up runs on a file without tables, or a write fails.
Refuse(p, v) ==
    /\ \/ /\ v \in recorded \/ (v \in Alters /\ content = "none")
          /\ UNCHANGED faults
       \/ v \notin recorded /\ Fault
    /\ Throw(p)
    /\ UNCHANGED <<columns, filled, recorded>>

\* Mutant: in the order of the directory.
ApplyUnsorted(p) ==
    /\ pc[p] = "apply"
    /\ \E v \in pending[p] :
        \/ (Migrate(p, v) \/ Reconcile(p, v)) /\ UNCHANGED faults
        \/ Refuse(p, v)
    /\ UNCHANGED <<content, files, opens>>

\* The pending migrations by number, until one is refused.
Apply(p) ==
    /\ pc[p] = "apply"
    /\ \E v \in pending[p] :
        /\ \A w \in pending[p] : v <= w
        /\ \/ (Migrate(p, v) \/ Reconcile(p, v)) /\ UNCHANGED faults
           \/ Refuse(p, v)
    /\ UNCHANGED <<content, files, opens>>

\* Mutant: the oldest are kept.
RetainOldest(p) ==
    /\ At(p, "retain", "end")
    /\ LET eligible == (backups \cap aged) \ {backup[p]}
           kept == {b \in eligible : Cardinality({c \in eligible : c < b}) < Retention}
       IN  /\ backups' = backups \ (eligible \ kept)
           /\ aged' = aged \ (eligible \ kept)
    /\ UNCHANGED <<database, taken, lock, existed, pending, backup, early, counts>>

\* enforceRetention, after the last migration: of the backups older than a
\* minute and not its own, the newest are kept.
Retain(p) ==
    /\ At(p, "retain", "end")
    /\ LET eligible == (backups \cap aged) \ {backup[p]}
           kept == {b \in eligible : Cardinality({c \in eligible : b < c}) < Retention}
       IN  /\ backups' = backups \ (eligible \ kept)
           /\ aged' = aged \ (eligible \ kept)
    /\ UNCHANGED <<database, taken, lock, existed, pending, backup, early, counts>>

\* schema.sql once more on an older database; the lock is released.
End(p) ==
    /\ At(p, "end", "ready")
    /\ Unlock(p)
    /\ Return(p)
    /\ UNCHANGED <<database, files, counts>>

-----------------------------------------------------------------------------
\* Hermes: CREATE TABLE IF NOT EXISTS, and the columns it needs.
Hermes ==
    /\ \/ /\ content # "none"
          /\ columns' = columns \cup HermesAdds
          /\ UNCHANGED content
       \/ /\ content = "none" /\ content' = "empty"
          /\ \E made \in SUBSET Alters : HermesAdds \subseteq made /\ columns' = made
    /\ UNCHANGED <<filled, recorded, files, lock, process, counts>>

\* The first rows: from Hermes, from a process that is ready, or over the
\* connection of one that is still opening the database.
AddRows ==
    /\ content = "empty" /\ content' = "rows"
    /\ early' = {p \in Procs : pc[p] = "apply"}
    /\ UNCHANGED <<columns, filled, recorded, files, lock, pc, existed, pending, backup, counts>>

\* A minute passes.
Age ==
    /\ aged' = backups
    /\ UNCHANGED <<database, backups, taken, lock, process, counts>>

\* A process dies; its lock file stays.
Crash(p) ==
    /\ pc[p] \notin Ended /\ Fault
    /\ pc' = [pc EXCEPT ![p] = "off"]
    /\ lock' = IF lock = p THEN Dead ELSE lock
    /\ Return(p)
    /\ UNCHANGED <<database, files, opens>>

Step(p) ==
    \/ Look(p) \/ Acquire(p) \/ Schema(p) \/ Begin(p) \/ Backup(p)
    \/ Apply(p) \/ Retain(p) \/ End(p)

Next == Hermes \/ AddRows \/ Age \/ \E p \in Procs : Open(p) \/ ColdOpen(p) \/ Step(p) \/ Crash(p)

Spec == Init /\ [][Next]_vars

\* A process that is not killed runs on.
FairSpec == Spec /\ \A p \in Procs : WF_vars(Step(p))

-----------------------------------------------------------------------------
TypeOK ==
    /\ content \in {"none", "empty", "rows"}
    /\ columns \subseteq Alters /\ recorded \subseteq Versions
    /\ filled \in [Versions -> Nat]
    /\ taken \in Nat
    /\ backups \subseteq 1..taken /\ aged \subseteq backups
    /\ lock \in Procs \cup {NoOne, Dead}
    /\ pc \in [Procs -> {"off", "look", "waiting", "schema", "begin", "backup",
                         "apply", "retain", "end", "ready", "failed"}]
    /\ existed \subseteq Procs /\ early \subseteq Procs
    /\ pending \in [Procs -> SUBSET Versions]
    /\ backup \in [Procs -> 0..taken]
    /\ opens \in 0..MaxOpens /\ faults \in 0..MaxFaults

\* Two processes may apply one migration at the same time, its column may be
\* there already, and either may die: what is recorded has taken effect exactly
\* once, and what is not recorded has not.
EffectOnce ==
    /\ \A v \in Versions : filled[v] = IF v \in recorded THEN 1 ELSE 0
    /\ recorded \cap Alters \subseteq columns

\* No version is passed over: the newest recorded version stands for all before
\* it.
InOrder == \A v \in recorded : 1..v \subseteq recorded

\* A process that was handed the migrated connection, by the fast path too, finds
\* every migration of its release there.  (What is done over a cold connection
\* meanwhile, or after a start that failed, has no such promise.)
ReadyIsCurrent == \A p \in Procs : pc[p] = "ready" => Files(p) \subseteq recorded

History == INSTANCE SchemaHistory
    WITH known <- recorded, effects <- filled, ready <- {p \in Procs : pc[p] = "ready"}

\* Although every process works from a list of migrations that it made before,
\* several may work at once without a lock, and each may be refused or die at any
\* step: together they take the schema from version to version, once each, as
\* SchemaHistory says.
ImplementsHistory == History!Spec

Migrates(p) == pc[p] = "apply" /\ recorded' # recorded /\ pending'[p] # pending[p]

\* Whoever changes a database with rows has made a backup of it first, and until
\* its last migration that backup is there or a newer one, whatever other
\* processes rotate meanwhile.  (Rows that were added after a migrating process
\* had found none have no backup; and with LTM_BACKUP_RETENTION=0 the backup may
\* be gone.)
ChangedWithBackup ==
    [][\A p \in Procs \ early :
        Migrates(p) /\ content = "rows" =>
            backup[p] # 0 /\ \E b \in backups : b >= backup[p]]_vars

\* A start comes to an end: nobody waits for the lock of a process that died,
\* or that released it.
StartEnds ==
    \A p \in Procs : pc[p] \notin Ended ~> pc[p] \in Ended
=============================================================================
