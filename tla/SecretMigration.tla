--------------------------- MODULE SecretMigration ---------------------------
(***************************************************************************)
(* The change of the secret that encrypts what the instances of the API    *)
(* store: EncryptionMigrationService, the state of the migration that      *)
(* ApiSecretRotationStateService keeps for the pair of secrets, and the    *)
(* status rows by which instances tell that their secrets differ.          *)
(*                                                                         *)
(* A migration has no transaction of its own: each read and each write is  *)
(* one, and a lock taken by a read is gone when the read is done.          *)
(* Settings of clients are all read first and written back one by one, as  *)
(* web hook clients and deferred changes are; values of the history are    *)
(* fetched by the time they were encrypted at, as event logs and check     *)
(* points are.                                                             *)
(***************************************************************************)
EXTENDS Naturals, FiniteSets

CONSTANTS
    MaxHosts,       \* bound: processes of the API, each of which runs once
    Clients,        \* clients with their values
    History,        \* values of the history that there can be
    Recorded,       \* those of them that there are at first
    None,
    MaxMigrations,  \* bound: requests for a migration
    MaxWrites,      \* bound: updates of a value
    MaxFaults       \* bound: failures of migrations and crashes

ASSUME RecordedAssumption == Recorded \subseteq History
ASSUME DataAssumption == Clients \cap History = {}
ASSUME BoundsAssumption == {MaxHosts, MaxMigrations, MaxWrites, MaxFaults} \subseteq Nat
ASSUME NoneAssumption == None \notin Nat \cup {"old", "new"}

\* Hosts are numbered as they start, migrations as they are asked for.
Hosts      == 1..MaxHosts
Migrations == 1..MaxMigrations

Secrets == {"old", "new"}
States  == {"MigrationInProgress", "MigrationCompleted", "MigrationFailed"}
Running == {"started", "begun", "loading", "saving", "history", "completing"}

VARIABLES
    config,         \* [Hosts -> ApiSettings of now: both has Secret new and PreviousSecret old]
    started,        \* [Hosts -> the secret an instance was started with]
    seenHashes,     \* [Hosts -> secrets of the active rows that its monitor has read]
    row,            \* [Hosts -> its row of ApiStatus]
    client,         \* [Clients -> the secret its values are encrypted with]
    history,        \* [History -> the secret and the time of encryption, or none]
    time,           \* migrations so far, by which times are told apart
    state,          \* rows of the state of the migration, by who inserted them
    run,            \* [Migrations -> how far it is, where it runs, its secretChangeDate, the row and status it
                    \* has read for its next write, clients that are read and not yet written back]
    writes,         \* number of updates so far
    faults,         \* number of failures and crashes so far
    late,           \* history: what was last written with the old secret since a migration began
    met,            \* history: migrations that read the state before another wrote its start
    abandoned       \* history: a host crashed with a migration, or one failed before its first stage or
                    \* after PreviousSecret was removed

hostVars == <<config, started, seenHashes, row>>
dataVars == <<client, history, late>>
vars == <<hostVars, dataVars, time, state, run, writes, faults, met, abandoned>>

NoRow == [secret |-> None, error |-> FALSE, active |-> FALSE, reports |-> 0]
NoRead == [row |-> None, status |-> None]

\* A migration that has not begun, or of which nothing is left.
AtStage(s) == [stage |-> s, host |-> None, date |-> 0, read |-> NoRead, loaded |-> {}]

Reads == [row : Migrations \cup {None}, status : States \cup {None}]
Runs  == [stage : {"idle", "starting", "ended"} \cup Running, host : Hosts \cup {None},
          date : 0..MaxMigrations, read : Reads, loaded : SUBSET Clients]

\* Every variable holds values of its kind.
TypeOK ==
    /\ config \in [Hosts -> {"none", "old", "both", "new", "gone"}]
    /\ started \in [Hosts -> Secrets \cup {None}]
    /\ seenHashes \in [Hosts -> (SUBSET Secrets) \cup {None}]
    /\ row \in [Hosts -> [secret : Secrets \cup {None}, error : BOOLEAN, active : BOOLEAN, reports : 0..2]]
    /\ client \in [Clients -> Secrets]
    /\ history \in [History -> [secret : Secrets \cup {None}, at : Nat]]
    /\ time \in 0..MaxMigrations
    /\ DOMAIN state \subseteq Migrations /\ \A k \in DOMAIN state : state[k] \in States
    /\ run \in [Migrations -> Runs]
    /\ writes \in 0..MaxWrites /\ faults \in 0..MaxFaults
    /\ late \subseteq Clients \cup History /\ met \subseteq Migrations /\ abandoned \in BOOLEAN

Init ==
    /\ config = [h \in Hosts |-> "none"]
    /\ started = [h \in Hosts |-> None]
    /\ seenHashes = [h \in Hosts |-> None]
    /\ row = [h \in Hosts |-> NoRow]
    /\ client = [c \in Clients |-> "old"]
    /\ history = [y \in History |-> [secret |-> IF y \in Recorded THEN "old" ELSE None, at |-> 0]]
    /\ time = 0
    /\ state = [k \in {} |-> None]
    /\ run = [m \in Migrations |-> AtStage("idle")]
    /\ writes = 0 /\ faults = 0 /\ late = {} /\ met = {} /\ abandoned = FALSE

Up(h)      == config[h] \in {"old", "both", "new"}
Secret(h)  == IF config[h] = "old" THEN "old" ELSE "new"
Keys(h)    == {Secret(h)} \cup (IF config[h] = "both" THEN {"old"} ELSE {})
IsRotationConfigured(h) == config[h] = "both"
Fault == faults < MaxFaults /\ faults' = faults + 1

\* The page shows a migration that is complete.
Completed == DOMAIN state # {} /\ \A k \in DOMAIN state : state[k] = "MigrationCompleted"

(***************************************************************************)
(* Hosts.                                                                  *)
(***************************************************************************)

\* An instance starts, with both secrets or with a configuration from before the change.
Start(h) ==
    /\ config[h] = "none"
    /\ \A g \in 1..(h - 1) : config[g] # "none"
    /\ \E c \in {"old", "both"} :
         /\ config' = [config EXCEPT ![h] = c]
         /\ started' = [started EXCEPT ![h] = IF c = "old" THEN "old" ELSE "new"]
    /\ \A g \in Hosts : config[g] # "new"
    /\ UNCHANGED <<seenHashes, row, dataVars, time, state, run, writes, faults, met, abandoned>>

\* The settings of the API are reloaded with both secrets while it runs.
Reload(h) ==
    /\ config[h] = "old"
    /\ config' = [config EXCEPT ![h] = "both"]
    /\ UNCHANGED <<started, seenHashes, row, dataVars, time, state, run, writes, faults, met, abandoned>>

\* Once the migration is complete and all hosts use the new secret, PreviousSecret is removed.
RemovePreviousSecret(h) ==
    /\ config[h] = "both"
    /\ Completed
    /\ \A g \in Hosts : config[g] # "old"
    /\ config' = [config EXCEPT ![h] = "new"]
    /\ UNCHANGED <<started, seenHashes, row, dataVars, time, state, run, writes, faults, met, abandoned>>

\* A host stops, and with it what it runs.
Crash(h) ==
    /\ Up(h)
    /\ Fault
    /\ config' = [config EXCEPT ![h] = "gone"]
    /\ started' = [started EXCEPT ![h] = None]
    /\ seenHashes' = [seenHashes EXCEPT ![h] = None]
    /\ run' = [m \in Migrations |-> IF run[m].host = h THEN AtStage("ended") ELSE run[m]]
    /\ abandoned' = (abandoned \/ \E m \in Migrations : run[m].host = h /\ run[m].stage \in Running)
    /\ UNCHANGED <<row, dataVars, time, state, writes, met>>

\* Mutant: an instance compares only with the rows there were when it started.
AgreesAtFirst(h) == row[h].reports > 0 \/ seenHashes[h] \subseteq {started[h]}

\* ValidateSecrets: all have the secret this one was started with.
Agrees(h) == seenHashes[h] \subseteq {started[h]}

ActiveHashes == {row[g].secret : g \in {g \in Hosts : row[g].active}}

\* UpdateStatus of the monitor reads the active rows (a round that would change nothing is left out)
ReadStatus(h) ==
    /\ Up(h)
    /\ seenHashes[h] = None
    /\ \/ row[h].reports < 2
       \/ row[h].error # ~(ActiveHashes \subseteq {started[h]})
       \/ \E g \in Hosts : config[g] = "gone" /\ row[g].active
    /\ seenHashes' = [seenHashes EXCEPT ![h] = ActiveHashes]
    /\ UNCHANGED <<config, started, row, dataVars, time, state, run, writes, faults, met, abandoned>>

\* and writes its own, and those of instances that have not been seen for long.
UpdateStatus(h) ==
    /\ Up(h)
    /\ seenHashes[h] # None
    /\ \E offline \in SUBSET {g \in Hosts : config[g] = "gone"} :
         row' = [g \in Hosts |->
                   IF g = h THEN [secret |-> started[h], error |-> ~Agrees(h), active |-> TRUE,
                                  reports |-> IF row[h].reports = 0 THEN 1 ELSE 2]
                   ELSE IF g \in offline THEN [row[g] EXCEPT !.active = FALSE] ELSE row[g]]
    /\ seenHashes' = [seenHashes EXCEPT ![h] = None]
    /\ UNCHANGED <<config, started, dataVars, time, state, run, writes, faults, met, abandoned>>

\* A value is set: the client is read and decrypted, and written back with the value of its
\* history in one transaction, encrypted with the host's secret.
UpdateSettingValue(h, c, y) ==
    /\ Up(h)
    /\ writes < MaxWrites
    /\ writes' = writes + 1
    /\ client[c] \in Keys(h)
    /\ history[y].secret = None
    /\ client' = [client EXCEPT ![c] = Secret(h)]
    /\ history' = [history EXCEPT ![y] = [secret |-> Secret(h), at |-> time]]
    /\ late' = IF Secret(h) = "old" /\ time > 0 THEN late \cup {c, y} ELSE late \ {c}
    /\ UNCHANGED <<hostVars, time, state, run, faults, met, abandoned>>

(***************************************************************************)
(* The state of the migration.                                             *)
(***************************************************************************)

\* GetForSecretPair expects one row, and fails for more.
Unique == Cardinality(DOMAIN state) <= 1
TheRow == IF DOMAIN state = {} THEN None ELSE CHOOSE k \in DOMAIN state : TRUE

\* Mutant: a migration that is in progress does not keep another from being started.
MayStartAnyway == Unique

\* MarkMigrationStarted goes on unless a migration is in progress.
MayStart == Unique /\ \A k \in DOMAIN state : state[k] # "MigrationInProgress"

\* A row is written as a whole: the status as it was read, or another.
WriteState(k, status) == state' = [i \in DOMAIN state |-> IF i = k THEN status ELSE state[i]]

\* Mutant: no instance has a mistaken configuration.
NoneMismatched == TRUE

\* ValidateActiveApiHosts: no active row tells of different secrets.
ActiveHostsAgree == \A g \in Hosts : row[g].active => ~row[g].error

(***************************************************************************)
(* PerformMigration.                                                       *)
(***************************************************************************)

\* It takes the time, validates the hosts and reads the state, or is refused. (Bound: it is asked
\* of a host that has been up for a while.)
PerformMigration(m, h) ==
    /\ m = time + 1
    /\ row[h].reports = 2
    /\ IsRotationConfigured(h)
    /\ time' = time + 1
    /\ run' = [run EXCEPT ![m] =
                 IF ActiveHostsAgree /\ MayStart
                 THEN [AtStage("starting") EXCEPT !.host = h, !.date = time, !.read.row = TheRow]
                 ELSE AtStage("ended")]
    /\ UNCHANGED <<hostVars, dataVars, state, writes, faults, met, abandoned>>

Starting == {m \in Migrations : run[m].stage = "starting"}

\* The row of the pair is inserted or updated.
MarkMigrationStarted(m) ==
    /\ m \in Starting
    /\ LET k == IF run[m].read.row = None THEN m ELSE run[m].read.row IN
       state' = [i \in DOMAIN state \cup {k} |-> IF i = k THEN "MigrationInProgress" ELSE state[i]]
    /\ run' = [run EXCEPT ![m].stage = "started", ![m].read = NoRead]
    /\ met' = IF Starting = {m} THEN met ELSE met \cup Starting
    /\ UNCHANGED <<hostVars, dataVars, time, writes, faults, abandoned>>

\* GetSnapshot, by which the migration ends at once if another has completed meanwhile what it
\* shares the row with.
GetSnapshot(m) ==
    /\ run[m].stage = "started"
    /\ Unique
    /\ run' = [run EXCEPT ![m] = IF IsRotationConfigured(run[m].host) /\ Completed
                                THEN AtStage("ended") ELSE [@ EXCEPT !.stage = "begun"]]
    /\ UNCHANGED <<hostVars, dataVars, time, state, writes, faults, met, abandoned>>

\* Mutant: a step does not read the status.
StatusUnread(k) == None

\* What GetRequiredCurrentState returns.
StatusRead(k) == state[k]

\* MarkMigrationProgress and the like read the row, to write it back as a whole.
ReadState(m) ==
    /\ run[m].stage \in Running \ {"started", "completing"}
    /\ run[m].read = NoRead
    /\ IsRotationConfigured(run[m].host)
    /\ Unique
    /\ run' = [run EXCEPT ![m].read = [row |-> TheRow, status |-> StatusRead(TheRow)]]
    /\ UNCHANGED <<hostVars, dataVars, time, state, writes, faults, met, abandoned>>

\* The row that migration m has read is written back.
WritesBack(m) == run[m].read # NoRead /\ WriteState(run[m].read.row, run[m].read.status)

\* InitializeMigrationProgress.
InitializeMigrationProgress(m) ==
    /\ run[m].stage = "begun"
    /\ WritesBack(m)
    /\ run' = [run EXCEPT ![m].stage = "loading", ![m].read = NoRead]
    /\ UNCHANGED <<hostVars, dataVars, time, writes, faults, met, abandoned>>

\* PerformSettingClientMigration reads and decrypts all clients
LoadClients(m) ==
    /\ run[m].stage = "loading"
    /\ \A c \in Clients : client[c] \in Keys(run[m].host)
    /\ WritesBack(m)
    /\ run' = [run EXCEPT ![m].stage = "saving", ![m].read = NoRead,
                          ![m].loaded = Clients]
    /\ UNCHANGED <<hostVars, dataVars, time, writes, faults, met, abandoned>>

\* What is left when client c is written back.
Remaining(m, c) == run[m].loaded \ {c}

\* and writes them back, encrypted with the secret of the host, one after another.
SaveClient(m, c) ==
    /\ run[m].stage = "saving"
    /\ c \in run[m].loaded
    /\ WritesBack(m)
    /\ client' = [client EXCEPT ![c] = Secret(run[m].host)]
    /\ late' = late \ {c}
    /\ run' = [run EXCEPT ![m].stage = IF Remaining(m, c) = {} THEN "history" ELSE @,
                          ![m].read = NoRead,
                          ![m].loaded = Remaining(m, c)]
    /\ UNCHANGED <<hostVars, history, time, writes, faults, met, abandoned>>

\* Mutant: values that were encrypted when the migration began are left.
EncryptedEarlier(m) == {y \in History : history[y].secret # None /\ history[y].at < run[m].date}

\* GetEncryptedValuesForEncryptionMigration: values that were encrypted at the date or before.
EncryptedBefore(m) == {y \in History : history[y].secret # None /\ history[y].at <= run[m].date}

\* Mutant: the time of the encryption is kept.
EncryptedAtFirst(y) == history[y].at

\* SerializeAndEncrypt notes the time.
EncryptedAt(y) == time

\* PerformSettingHistoryMigration fetches a batch and encrypts it anew, or finds no more.
MigrateHistory(m) ==
    /\ run[m].stage = "history"
    /\ WritesBack(m)
    /\ IF EncryptedBefore(m) = {}
       THEN run' = [run EXCEPT ![m].stage = "completing", ![m].read = NoRead] /\ UNCHANGED <<history, late>>
       ELSE \E y \in EncryptedBefore(m) :
              /\ history[y].secret \in Keys(run[m].host)
              /\ history' = [history EXCEPT ![y] = [secret |-> Secret(run[m].host), at |-> EncryptedAt(y)]]
              /\ late' = late \ {y}
              /\ run' = [run EXCEPT ![m].read = NoRead]
    /\ UNCHANGED <<hostVars, client, time, writes, faults, met, abandoned>>

\* MarkMigrationCompleted.
MarkMigrationCompleted(m) ==
    /\ run[m].stage = "completing"
    /\ IsRotationConfigured(run[m].host)
    /\ Unique
    /\ WriteState(TheRow, "MigrationCompleted")
    /\ run' = [run EXCEPT ![m] = AtStage("ended")]
    /\ UNCHANGED <<hostVars, dataVars, time, writes, faults, met, abandoned>>

\* Mutant: the failure of a migration is not marked.
FailureUnmarked(m) == FALSE

\* MarkMigrationFailed marks a failure from the first stage on, of the one row there is.
FailureIsMarked(m) == run[m].stage \notin {"started", "begun"} /\ IsRotationConfigured(run[m].host) /\ Unique

\* A step fails: for the state cannot be read, or for another reason.
Fail(m) ==
    /\ run[m].stage \in Running
    /\ IF ~Unique \/ ~IsRotationConfigured(run[m].host) THEN UNCHANGED faults ELSE Fault
    /\ IF FailureIsMarked(m)
       THEN WriteState(TheRow, "MigrationFailed")
       ELSE UNCHANGED state
    /\ abandoned' = (abandoned \/ run[m].stage \in {"started", "begun"} \/ config[run[m].host] = "new")
    /\ run' = [run EXCEPT ![m] = AtStage("ended")]
    /\ UNCHANGED <<hostVars, dataVars, time, writes, met>>

Step(m) ==
    \/ MarkMigrationStarted(m)
    \/ GetSnapshot(m)
    \/ ReadState(m)
    \/ InitializeMigrationProgress(m)
    \/ LoadClients(m)
    \/ \E c \in Clients : SaveClient(m, c)
    \/ MigrateHistory(m)
    \/ MarkMigrationCompleted(m)
    \/ Fail(m)

Next ==
    \/ \E h \in Hosts : Start(h) \/ Reload(h) \/ RemovePreviousSecret(h) \/ Crash(h) \/ ReadStatus(h) \/ UpdateStatus(h)
    \/ \E h \in Hosts, c \in Clients, y \in History : UpdateSettingValue(h, c, y)
    \/ \E m \in Migrations, h \in Hosts : PerformMigration(m, h)
    \/ \E m \in Migrations : Step(m)

\* A migration goes on until it ends.
Fairness == \A m \in Migrations : WF_vars(Step(m))

Spec == Init /\ [][Next]_vars /\ Fairness

(***************************************************************************)
(* Properties.                                                             *)
(***************************************************************************)

EncryptedWithOld == {c \in Clients : client[c] = "old"} \cup {y \in History : history[y].secret = "old"}

\* When a migration is complete, and when PreviousSecret has been removed from a host, nothing is
\* encrypted with the old secret but what a host that has only that has written since a migration
\* began: everything else stays readable.
StaysReadable ==
    (\E k \in DOMAIN state : state[k] = "MigrationCompleted") \/ (\E h \in Hosts : config[h] = "new")
        => EncryptedWithOld \subseteq late

\* A migration goes on only where hosts that have told of their status twice were started with one
\* secret: two that tell of it at first at the same time may not see each other.
MigrationsStartAligned ==
    [][\A m \in Migrations : m \in Starting' \ Starting =>
          \A g, h \in Hosts : /\ Up(g) /\ row[g].active /\ row[g].reports = 2
                              /\ Up(h) /\ row[h].active /\ row[h].reports = 2
                              => started[g] = started[h]]_vars

\* Migrations overlap, and the state gets a second row, which makes every later read of it fail,
\* only when one has read the state before another has written that it is in progress.
OneMigrationAtATime ==
    \/ met # {}
    \/ Cardinality(DOMAIN state) <= 1 /\ Cardinality({m \in Migrations : run[m].stage \in Running}) <= 1

\* The state says that a migration is in progress, and keeps others from being started, only while
\* one is or after one was abandoned.
LockedOutOnlyIfAbandoned ==
    (\E k \in DOMAIN state : state[k] = "MigrationInProgress")
        => (\E m \in Migrations : run[m].stage \in Running) \/ abandoned \/ met # {}

\* A migration that is not refused ends: what it encrypts anew is not found again.
MigrationsEnd == \A m \in Migrations : run[m].stage = "starting" ~> run[m].stage = "ended"
=============================================================================
