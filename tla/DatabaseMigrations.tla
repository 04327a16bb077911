-------------------------- MODULE DatabaseMigrations --------------------------
(***************************************************************************)
(* The database migrations that every API instance runs when it starts     *)
(* (DatabaseMigrationWorker, DatabaseMigrationService), and the row and    *)
(* the application lock by which the instances that share one SQL Server   *)
(* database keep out of each other's way (DatabaseMigrationRepository).    *)
(*                                                                         *)
(* SQLite, a file of one host, has no lock and is not modelled.            *)
(*                                                                         *)
(* Names that other modules of the API have too begin with Migration, so   *)
(* that the two components that share the database can be extended         *)
(* together (DatabaseSharingProofs).                                       *)
(***************************************************************************)
EXTENDS Integers

CONSTANTS
    Instances,     \* API instances over one database
    N,             \* the migrations are 1..N (ValidateMigrationSequence)
    MaxFailures,   \* bound: how many migrations fail
    MaxCrashes     \* bound: how many instances are killed while they migrate

NoOne == "no one"

ASSUME InstancesAssumption == NoOne \notin Instances
ASSUME NAssumption == N \in Nat
ASSUME BoundsAssumption == MaxFailures \in Nat /\ MaxCrashes \in Nat

Migrations == 1..N

VARIABLES
    row,        \* the migration's row: "none", "pending" or "complete"
    lock,       \* who holds the application lock
    phase,      \* where an instance is
    executed,   \* the migrations it found complete when it started
    next,       \* the migration it has come to
    failures,   \* failures so far
    crashes     \* crashes so far

VARIABLES
    applied,    \* history: how many times a migration has been carried out
    skipped     \* history: the migrations some instance passed over unfinished

history == <<applied, skipped>>
bounds == <<failures, crashes>>
migrationVars == <<row, lock, phase, executed, next, failures, crashes, applied, skipped>>

Running(i) == phase[i] \in {"next", "locked", "insert", "execute", "applied"}
Executes(i, m) == phase[i] \in {"execute", "applied"} /\ next[i] = m

MigrationInit ==
    /\ row = [m \in Migrations |-> "none"]
    /\ lock = NoOne
    /\ phase = [i \in Instances |-> "off"]
    /\ executed = [i \in Instances |-> {}]
    /\ next = [i \in Instances |-> 1]
    /\ failures = 0 /\ crashes = 0
    /\ applied = [m \in Migrations |-> 0]
    /\ skipped = {}

MoveTo(i, place) == phase' = [phase EXCEPT ![i] = place]
Advance(i) == next' = [next EXCEPT ![i] = @ + 1]

\* Mutant: a migration that has a row counts as executed.
ExecutedOrPending == {m \in Migrations : row[m] # "none"}
ExecutedMigrations == {m \in Migrations : row[m] = "complete"}

\* An instance starts, or starts again.  RunMigrationsInternal reads the executed
\* migrations, once.
Start(i) ==
    /\ ~Running(i)
    /\ MoveTo(i, "next")
    /\ executed' = [executed EXCEPT ![i] = ExecutedMigrations]
    /\ next' = [next EXCEPT ![i] = 1]
    /\ UNCHANGED <<row, lock, bounds, history>>

\* A migration it read as complete is not pending for it.
NotPending(i) ==
    /\ phase[i] = "next" /\ next[i] \in executed[i]
    /\ Advance(i)
    /\ UNCHANGED <<row, lock, phase, executed, bounds, history>>

AllDone(i) == next[i] = N + 1

\* After the last one StartAsync returns, and the host starts the other services.
StartServices(i) ==
    /\ phase[i] = "next" /\ AllDone(i)
    /\ MoveTo(i, "services")
    /\ UNCHANGED <<row, lock, executed, next, bounds, history>>

\* TryBeginMigration returned false: the migration is passed over.
Skip(i) ==
    /\ MoveTo(i, "next")
    /\ Advance(i)
    /\ skipped' = IF row[next[i]] = "complete" THEN skipped ELSE skipped \cup {next[i]}
    /\ UNCHANGED <<row, executed, bounds, applied>>

Comes(i) == phase[i] = "next" /\ next[i] \in Migrations \ executed[i]

\* Mutant: the lock does not exclude.
LockIsOpen == TRUE
\* AcquireSqlServerAppLock: one lock for all migrations ...
LockIsFree == lock = NoOne

TakeLock(i) ==
    /\ Comes(i) /\ LockIsFree
    /\ lock' = i
    /\ MoveTo(i, "locked")
    /\ UNCHANGED <<row, executed, next, bounds, history>>

\* ... and no waiting for it.
LockContention(i) ==
    /\ Comes(i) /\ ~LockIsFree
    /\ Skip(i)
    /\ UNCHANGED lock

\* MigrationRowExists.
MigrationRowExists(m) == row[m] # "none"

RowFound(i) ==
    /\ phase[i] = "locked" /\ MigrationRowExists(next[i])
    /\ lock' = NoOne
    /\ Skip(i)

RowMissing(i) ==
    /\ phase[i] = "locked" /\ ~MigrationRowExists(next[i])
    /\ MoveTo(i, "insert")
    /\ UNCHANGED <<row, lock, executed, next, bounds, history>>

\* The pending row is inserted, and the commit releases the lock.
InsertPendingMigrationRow(i) ==
    /\ phase[i] = "insert"
    /\ row' = [row EXCEPT ![next[i]] = "pending"]
    /\ lock' = NoOne
    /\ MoveTo(i, "execute")
    /\ UNCHANGED <<executed, next, bounds, history>>

\* ExecuteCode, then the SQL script.
Execute(i) ==
    /\ phase[i] = "execute"
    /\ applied' = [applied EXCEPT ![next[i]] = @ + 1]
    /\ MoveTo(i, "applied")
    /\ UNCHANGED <<row, lock, executed, next, bounds, skipped>>

\* The row a failed migration leaves: FailMigration deletes the row when it is pending.
RowAfterFailure(status) == IF status = "pending" THEN "none" ELSE status

\* The gate session fails: a rollback, and the exception stops the application.
TryBeginFails(i) ==
    /\ failures < MaxFailures
    /\ failures' = failures + 1
    /\ phase[i] \in {"locked", "insert"}
    /\ lock' = NoOne
    /\ MoveTo(i, "stopped")
    /\ UNCHANGED <<row, executed, next, crashes, history>>

\* Mutant: it is complete once its row is.
MayComplete(i) == phase[i] \in {"execute", "applied"}
\* CompleteMigration comes after the migration.
IsApplied(i) == phase[i] = "applied"

CompleteMigration(i) ==
    /\ IsApplied(i)
    /\ row' = [row EXCEPT ![next[i]] = IF @ = "pending" THEN "complete" ELSE @]
    /\ MoveTo(i, "next")
    /\ Advance(i)
    /\ UNCHANGED <<lock, executed, bounds, history>>

\* The migration fails, half way or after its effects, or CompleteMigration does,
\* before its write (completed = FALSE) or after it.  FailMigration runs, and the
\* exception stops the application.
MigrationFails(i, completed) ==
    /\ failures < MaxFailures
    /\ failures' = failures + 1
    /\ phase[i] \in {"execute", "applied"}
    /\ completed => phase[i] = "applied"
    /\ row' = [row EXCEPT ![next[i]] =
                  RowAfterFailure(IF completed /\ @ = "pending" THEN "complete" ELSE @)]
    /\ MoveTo(i, "stopped")
    /\ UNCHANGED <<lock, executed, next, crashes, history>>

\* The instance is killed: its transaction is rolled back, which releases the lock.
Crash(i) ==
    /\ crashes < MaxCrashes
    /\ crashes' = crashes + 1
    /\ Running(i)
    /\ MoveTo(i, "off")
    /\ lock' = IF lock = i THEN NoOne ELSE lock
    /\ UNCHANGED <<row, executed, next, failures, history>>

Instance(i) ==
    \/ Start(i) \/ NotPending(i) \/ StartServices(i)
    \/ TakeLock(i) \/ LockContention(i) \/ RowFound(i) \/ RowMissing(i)
    \/ InsertPendingMigrationRow(i) \/ Execute(i) \/ CompleteMigration(i)
    \/ \E completed \in BOOLEAN : MigrationFails(i, completed)
    \/ TryBeginFails(i) \/ Crash(i)

MigrationNext == \E i \in Instances : Instance(i)

MigrationSpec == MigrationInit /\ [][MigrationNext]_migrationVars

-----------------------------------------------------------------------------
(* Correctness.                                                            *)

MigrationTypeOK ==
    /\ row \in [Migrations -> {"none", "pending", "complete"}]
    /\ lock \in Instances \cup {NoOne}
    /\ phase \in [Instances -> {"off", "next", "locked", "insert", "execute", "applied",
                                "services", "stopped"}]
    /\ executed \in [Instances -> SUBSET Migrations]
    /\ next \in [Instances -> 1..(N + 1)]
    /\ failures \in 0..MaxFailures /\ crashes \in 0..MaxCrashes
    /\ applied \in [Migrations -> Nat]
    /\ skipped \subseteq Migrations

\* No migration is carried out by two instances at the same time, whatever starts,
\* fails or is killed meanwhile.
OneRunnerPerMigration ==
    \A i, j \in Instances : \A m \in Migrations :
        (Executes(i, m) /\ Executes(j, m)) => i = j

\* A migration whose row is complete has been carried out.
CompleteMeansApplied ==
    \A m \in Migrations : row[m] = "complete" => applied[m] > 0

\* A completed migration stays so, and is never carried out again.
CompleteIsFinal ==
    [][\A m \in Migrations :
          row[m] = "complete" => (row'[m] = "complete" /\ applied'[m] = applied[m])]_migrationVars

\* A migration is begun after the ones before it, but for those that an instance
\* passed over because TryBeginMigration said no.
OrderedButForSkips ==
    \A k, m \in Migrations :
        (k < m /\ row[m] # "none") => (row[k] = "complete" \/ k \in skipped)

\* The services of an instance find every migration complete, but for those.
ServicesMissOnlySkips ==
    \A i \in Instances : \A m \in Migrations :
        phase[i] = "services" => (row[m] = "complete" \/ m \in skipped)

-----------------------------------------------------------------------------
(* What the instances promise together: MigrationTable.                    *)

\* Where a migration is: its row, and whether the instance at work has carried it out.
Status(m) ==
    IF \E i \in Instances : phase[i] = "applied" /\ next[i] = m THEN "carried out"
    ELSE IF row[m] = "pending" THEN "begun" ELSE row[m]

Table == INSTANCE MigrationTable
            WITH status  <- [m \in Migrations |-> Status(m)],
                 runners <- [m \in Migrations |-> {i \in Instances : Executes(i, m)}],
                 passed  <- skipped

\* The lock, the rows and what each instance read of them when it started come to no more
\* than the table: no step of any instance shows another effect on a migration.
ImplementsTable == Table!Spec
=============================================================================
