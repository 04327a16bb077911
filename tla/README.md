# Fig: models, checks and proofs

Fig is a settings service for .NET. An API keeps the settings of *clients*
(applications) in one database; the client library is a configuration provider that
registers an application's settings, loads their values and keeps them up to date; a
Blazor web client administers them. Several processes of one client may
run, and several instances of the API may share the database.

This directory holds TLA+ modules of the parts in which those actors meet, TLC
configurations that check them on small instances, and TLAPS proofs for every instance.
Every definition stands for code under `src/`; `PROJECT.json` ("map") gives the lines.

- [Inventory](#inventory): what the system consists of and where it is hard
- [Modules](#modules): which module stands for what, and how
- [Runs](#runs): what each run checks and shows; bounds and fairness
- [Proofs](#proofs): what holds for every instance, and why
- [Findings](#findings): where the code does not do what it, or its documentation, says
- [Not modelled](#not-modelled), [Plan](#plan)

## Inventory

Paths are relative to `src/src/`: `api/Fig.Api` (the API), `client/Fig.Client` (the
library), `api/Fig.Datalayer` (the database mapping), `web/Fig.Web`, `mcp/Fig.Mcp`.

| Component | State | Operations | What is hard | What makes it correct |
|---|---|---|---|---|
| Settings distribution (`SettingsService`, `StatusService`, `FigConfigurationProvider`, `SettingStatusMonitor`) | values and `LastSettingValueUpdate` of a client, run sessions; a process's values, time of its load, offline file, timer | update values, get settings, poll, reload, session cleanup | overlapping reloads, lost requests, time stamps of two hosts, workers without transactions | values move forward only; who is behind is told; who is told catches up |
| Database migrations (`DatabaseMigrationService`, `...Repository`, `...Worker`) | a row per migration, one application lock | begin, execute, complete, fail | instances that start together, crashes | one runner at a time, in order, complete means done |
| Client registration (`RegisterSettings`, `ClientRegistrationLockService`, its cleanup worker, `TransactionMiddleware`) | a lock per client name in memory, the client's rows | acquire, register, release, commit, clean up | the lock goes before the commit; locks are thrown away while in use | one registration at a time, one row |
| Deferred changes (`SchedulingWorker`, `DeferredChangeRepository`, `SchedulingService`, `UpdateSettingValues`) | rows that wait for their time | schedule, reschedule, delete, claim, apply, revert | several workers, half-done applications, edits meanwhile | nothing lost, no temporary value without its revert |
| Run sessions (`StatusService`, `SessionCleanupService`, `FigRestartWorker`) | rows of sessions: flags, last seen | poll, request, mark, clean up | full-row writes of polls and operators overlap; cleanups of several instances | who may undo what; restarts happen; who runs is shown |
| Custom actions (`CustomActionService`, `FigCustomActionWorker`) | executions, waiting or handed out | request, poll, submit | two pollers, lost answers | executed once but for overlaps, reports are true, ends in a result |
| Time machine, checkpoint triggers (`CheckpointTriggerWorker`, `TimeMachineWorker`) | a channel in memory, triggers, checkpoints | trigger, store, claim, export, create | a claim excludes nobody; deleted before done | each change is in a checkpoint, made once |
| API secret rotation, encryption migration | state of the rotation, ciphertexts under several secrets | start, load, save, migrate the history, finish | instances with different secrets, no transaction, crash half way | every value stays readable |
| Web hooks (`WebHookQueue`, `WebHookProcessorWorker`) | a queue in memory | enqueue, process | queued before commit, lost on crash | none is dropped without a cause |
| JSON editors of the web client (`JsonSetting`, `monaco-integration.js`) | editors, models and schemas by element; components | initialise, set, dispose, type, format | components reused and replaced while Monaco loads | what is shown is what is saved |
| Client secrets, updated registrations (`ChangeClientSecret`, `HashValidationCache`) | secret, previous secret and its expiry, a cache of verified hashes | change, verify, re-register | stale cache, overlapping changes | the old secret works until it expires, never after |
| Import and export, deferred imports | a client's settings, imports that wait for their client | import, apply on registration | partial failure inside the registration | all or nothing |
| Client-side registries (`RegisteredProviders`, `FigClientBridgeRegistry`) | providers of a process | register, find, dispose | concurrent registration | a provider is found until disposed |
| Setting groups, lookup tables, users, event log, API status, reports | one row or append-only | one transaction each | little | - |
| Converters, validators, definitions, descriptions, parsers | none | pure functions | - | round trips |
| Secret providers, rest of the web client, MCP server, hosting, contracts | outside, or data types | - | - | - |

How they interact: the client library calls the API over HTTP (register, GET settings,
PUT status); every HTTP request of the API is one database transaction
(`TransactionMiddleware`), every background worker works outside of one, so that each of
its writes commits by itself. `UpdateSettingValues` is called by requests and by the
`SchedulingWorker`; a change's `LastSettingValueUpdate` is what the polls compare; a
registration applies deferred imports; all of them write events and queue web hooks.
The API's instances share nothing but the database.

`PROJECT.json` ("hazards") lists what is hard to test, line by line, with the properties
that cover it, or why none does.

## Modules

### SettingsSync, over SettingsReplica

`SettingsSync` follows the values of one client from the API to the processes ("runs")
that use it. A value is the number of changes committed so far; a time is the number of
updates that have read `UtcNow`, the only thing the code compares.

| State | Code |
|---|---|
| `setting`, `lastUpdate`, `session`, `offlineAllowed` | the client row, its run sessions, the API's configuration |
| `scheduler`, `cleanup` | the two workers between their read and their write |
| `held`, `origin` | `Data` of `FigConfigurationProvider` and its load type |
| `lastSettingUpdate`, `isOffline`, `offlineOk`, `timerOn` | the fields of `SettingStatusMonitor` and its timer |
| `waiting`, `thread` | calls of `ReloadSettings` before the gate `_reloadGate`; calls past it, and polls, with what was sent or answered |
| `file` | the offline settings file, shared by the processes of a host |

Every request has two halves: what the API does (`SyncStatus`, `GetSettings`) and what the
process does with the answer (`ReceiveStatus`, `ReceiveSettings`), with `StatusFails`,
`StatusRejected` and `LoadFails` at either point. HTTP requests that write are one step,
since their transaction locks the row; the scheduling worker and the session cleanup are
two steps each. `clean` and `overwritten` are history variables: they only say which of
two known races a load or a time stamp has been through.

`SettingsReplica` is what all this promises an application: one committed version as a
whole, newer versions only, and when the API is gone the last stored version.
`ImplementsReplica` is the refinement (`committed <- setting`, `stored <- file`,
`copy <- held`, `source <- origin`).

### DatabaseMigrations, over MigrationTable

One action per step of `RunMigrationsInternal`, `TryBeginMigration` (take the application
lock without waiting, look for the row, insert it, commit), `ExecuteMigration` and
`FailMigration`. A migration or the gate may fail at every step (the application stops),
an instance may be killed at every step, and may start again from any of its ends.
`applied` and `skipped` are history.

`MigrationTable` is what the instances promise together, without lock, rows and readings: a
migration is begun after the ones before it, but for those passed over, carried out by one
instance, complete when it has been carried out since it was begun, and then for good; one
that failed may be begun again, one that was abandoned by a crash is not. `ImplementsTable` is
the refinement (`status <- Status`, `runners <-` who executes, `passed <- skipped`).

### ClientRegistration

One action per statement of `AcquireLockAsync`, the releaser and `CleanupUnusedLocks` that
another thread can observe: get or add the entry, stamp it, wait for its semaphore, count;
try, revalidate, remove, dispose. The registration is its read and its insert; the commit
or rollback comes after the lock is released. `ReadsWait` says whether a read waits for
rows that others have not committed (READ COMMITTED with locks, SQLite) or not (snapshots).
A `SemaphoreSlim` hands itself to any of those who wait.

### DeferredChanges

The rows of scheduled changes, what administrators do to them (one transaction each), and
the worker of each instance: read what is due, claim row by row, clear `ApplyAtUtc`, load,
schedule the revert, save, record the history, remove; each write its own step. An exception
(`ApplicationFails`, `ClearFails`) leaves the row for the next evaluation; `Crash` forgets
what the instance had in hand. The rows have no version: an update writes every column of
the row as it was read and misses only a row that is gone. `applied`, `reverted`,
`temporary` and `deleted` are history.

### CustomActions

A request for an execution is a row, for one run session or for any. A poll of a process is a
transaction of the API: it reads the pending rows without a lock (`Poll`), updates those it
hands out, waiting for whoever updated them before (`MarkHandled`), and commits (`Commit`)
before or after the process has the answer (`ReceiveAnswer`). The process executes one row
after another and sends the results. Any transaction may be undone, any answer or result lost,
the provider of the client's secret may throw when results are sent, and a process may die
(`Rollback`, `Timeout`, `LoseResults`, `SecretFails`, `Die`). `runs`, `succeeded`, `failed`,
`lost` and `shared` are history: `shared` are executions that two polls had read before either
had marked them, or whose poll was undone after its answer was received.

### RunSessions

Rows of run sessions under the client or under the registration of an instance
(`override`). A poll and an update lock the client's row and read its sessions without a lock;
an operator (`SetLiveReload`, `RequestRestart`) locks the session's row; whatever is written is
written with all columns as they were read. An operator who has the session then reads all
clients, and waits for one that an update has written, while the update waits for the session:
the database ends one of them (`EndDeadlock`). The cleanups of two instances read what has
expired and remove it row by row; a row that the other has removed already fails the whole
session. A process that is asked to restart puts an entry into its configuration, which a
reload may clear before the worker reads it; when the registration of its instance is made,
the process writes a second row with the same run session.

### MonacoEditors

The page has one thread: what users, timers and loads bring are tasks, and the continuations
of awaits that are done already run before the next (`micro`). A card's place shows one
component at a time; it keeps its component when another client is selected whose card at that
place has a JSON setting too. `stage` is how far `OnAfterRenderAsync` has come (the delay, the
load of Monaco, `create`, the listener); `editors`, `models`, `schemas` and `diagnostics` are
what `monacoIntegration` and Monaco keep, by an id made of the setting's name alone.
`BlankOnlyWithoutEditor` starts from a page in which nothing is blank, no value, no editor and
no options of one (`NothingIsBlank`): a blank once taken into the options of a component comes
back through its editor later on, although that has the id all the time.

### SecretMigration

Hosts start with the old secret or with both, are reloaded, and lose the old one again when an
administrator removes it after the migration. Each host's monitor reads the rows of the others
and writes its own (`ReadStatus`, `UpdateStatus`); it compares with the secret it was started
with. A migration has no transaction: each stage reads the row of its state (`ReadState`) and
writes it back as a whole with what the stage has done (`InitializeMigrationProgress`,
`LoadClients`, `SaveClient`, `MigrateHistory`, `MarkMigrationCompleted`, `Fail`). Values are
left out, only the secret they are encrypted with is kept. `late`, `met` and `abandoned` are
history: data written with the old secret by hosts that have only that since a migration
began, migrations that read the state before another wrote its start, and whether one ended
without a trace.

### UpdateEffects

What follows the write of a client in `UpdateSettingValues`: `SettingValueChanged` queues the
web hooks that match its client (`HooksOf`), or an exception while they are looked up is logged,
nothing is queued, and the update goes on (`QueueingFails`); `RegisterChange` stamps the change
of the server under a semaphore of the process with a wait of five seconds, `Publish` puts the
trigger of a checkpoint into a channel, and the transaction commits or is undone. Updates of the
scheduling worker (`Scheduled`) have no transaction. The workers send the hooks, store the
triggers, and evaluate them: delete what is handled, read what is not, claim row by row, export
all clients, store the checkpoint. A failure, a timeout, a deleted client and a crash may come
at any point. `forgotten`, `overlapped` and `lost` are history.

The `MC...` modules give the constants their values. Definitions under a comment
`Mutant:` are faulty forms of the one that follows; no specification uses them. Each stands
for a plausible error, and the property it is named with is violated under it.

## Runs

| Run | Shows |
|---|---|
| `settings_gate` | Two reloads past the gate, two updates (requests or the scheduling worker), live reload switched off at any time: `StaleValuesAreNoticed`, `ServerValuesNeverRegress`, `ImplementsReplica`. |
| `settings_live` | One update, the session cleanup, offline settings forbidden at some time, requests lost at every point: `ConnectedProcessesCatchUp`, `ForbiddenOfflineFileGoes`. |
| `migrations_shared` | Three instances, two migrations, two failures, one crash: `OneRunnerPerMigration`, `OrderedButForSkips`, `ImplementsTable`, and no deadlock. |
| `registration_lock` | Three requests, one process, its cleanup: `OneRegistrationAtATime`, `WaitersWaitForSomeone`, `OneClientRow`. |
| `registration_apis` | Violation, see Findings. |
| `deferred_faults` | One worker, one fault at any statement, two edits: `NothingIsLost`, `TemporaryHasRevert`, `DueChangesEnd`. |
| `deferred_shared` | Two workers interleaved at every write, two edits: `DeletedStaysDeleted`, `AppliedOncePerInstance`. |
| `actions_faults` | Two processes, of which one has two polls in flight when the first has timed out, an execution for any session and one for a session that lacks the action, one fault: `RunsOnceWithoutOverlap`, `ReportsAreTrue`, `HandedOutIsAccountedFor`, `RequestsEnd`. |
| `sessions_writers` | One process with two polls in flight, one operator, one update, two cleanups, an instance's registration made at any time, one fault: `OneRowPerClient`, `ChangesStand`, `RestartsHappen`, `LiveProcessesAreShown`, `OperatorsReachAgain`, `WritersEnd`. |
| `monaco_editors` | Two components, three settings of which two share their name, three changes: `ModelsAndSchemasFollow`, `EditorShowsValue`, `OnlyShownSettingChanges`, `BlankOnlyWithoutEditor`. |
| `secret_migration` | Two hosts, two requests for a migration, one client and two values of the history, one update, two faults: `StaysReadable`, `OneMigrationAtATime`, `LockedOutOnlyIfAbandoned`, `MigrationsStartAligned`, `MigrationsEnd`. |
| `update_effects` | A request and a scheduled change of one process, two web hooks, the checkpoint workers of two instances, one fault: `OnlyTimeoutsBreakTheLock`, `CheckpointsHoldTheirChanges`, `HooksAreAccountedFor`, `OneCheckpointPerTrigger`, `ChangesAreCheckpointed`. |

Several properties name their exceptions in a history variable (`shared`, `met`, `lost`,
`late`, `cutOff`, `moved`). Each stands for one cause, recorded where it happens, and the
property says that nothing else brings the effect about; the causes that contradict a document
are listed under Findings.

**Bounds.**

- *SettingsSync*: one run. Runs meet only through the offline file and the API, and a
  second run takes the instance beyond what TLC finishes in minutes; the proofs cover any
  number. Two `Lanes` are what an overtaking reload needs; `MaxWaiting` only limits how
  many calls before the gate are told apart. Two updates let one commit inside a reload
  and another after it; with one, the put-back stamp of the cleanup and the time stamp of
  the worker already occur. `OfflineChoices`, `LiveReloadChoices` and `Background` switch
  on what the run is about; between the runs all of it is on.
- *DatabaseMigrations*: three instances let two contend for a migration while a third passes
  it over; two migrations, one that depends on the order of the other; two failures, so that a
  migration that failed is begun again and fails again; every instance may restart any number
  of times. A third migration adds no new kind of meeting, and the proofs cover any number.
- *ClientRegistration*: three requests (one inside, one waiting, one coming) and five
  entries, one more than can be referred to, so an allocation is never refused. Requests
  come again for ever.
- *DeferredChanges*: three times (two in the shared run) put an application, its revert and
  a change in between; in the run with one worker `MaxChanges` = 5 refuses nothing (two changes, two reverts,
  and one revert scheduled again after the fault). In the
  shared run, two changes with reverts that both workers schedule would need a sixth row:
  that one worker then stops before it is a cut, not a behaviour. Times in the past are
  allowed by the code, and are `Times` at or before `now`.

- *CustomActions*: two polls of a process overlap only when the first has timed out, one fault,
  so two lanes of one process and one of the other are all there can be.
- *RunSessions*: two polls of one process (its timer, and the one after a reload), one
  operator, one update and two cleanups are one of each kind of writer and the second of the
  kinds that meet their own; rows of different sessions meet only in the locks of the client.
  `MaxCleared` bounds the reloads that clear the entry of a restart.
- *MonacoEditors*: two components, one replaced by the other; two settings of one name in two
  clients and one of another name are the three ways in which a component's setting changes.
  A blank that a component takes into its options, a change from outside that hides it, and
  formatting that brings it back are what needs a third change.
- *SecretMigration*: two hosts, each of which may be on either side of the change of secrets;
  the second migration overlaps the first or comes after it. The row of a pair of secrets
  appears once, so that a third migration would meet one of the two. Rounds of a monitor that
  change nothing are left out, and a migration is asked of a host that has told of its status
  twice.
- *UpdateEffects*: two updates of one process for its semaphore, two instances for the
  triggers; the web hooks of one update in one item, so that the second waits for the first.
  An evaluation that finds nothing is left out. The time machine is taken as switched on, and
  clients to exist.

`CHECK_DEADLOCK FALSE` is said where processes end or a bound on edits or updates is used
up, where all that was asked for is done (`UpdateEffects`, `CustomActions`, whose empty polls are
no steps), where the page may be left alone (`MonacoEditors`), and in `ClientRegistration` because a request can wait for a disposed semaphore for
ever (see Findings, 2). `DatabaseMigrations` is checked for deadlock.

**Fairness.** In `SettingsSync`: the status timer is started again after every poll, so it
elapses (weak fairness of `TimerElapsed`); every call in flight ends, answered or failed
(weak fairness of `Poll` and `Reload`: HTTP timeouts); and a request that is repeated for
ever is answered now and then (strong fairness of `SyncStatus`, `ReceiveStatus` of the
timer, and of `GetSettings`, `ReceiveSettings` of some lane: the network loses requests,
not all of them). Nothing makes an update, a cleanup, a stop or an administrator happen.
In `DeferredChanges`: time passes (weak fairness of `Tick`) and each worker goes on with its
periodic evaluation (weak fairness of `Work`); faults and edits are never required.
In `CustomActions`: the API works on every poll, answers and results arrive unless a fault
takes them, and the loop of a process that runs goes on (all weak). In `RunSessions`: a process
polls again and again although others hold the client's row at times (strong fairness of
`SyncStatus`: the database grants locks in order), transactions end, the database ends
deadlocks, the cleanups go on, and a row that nobody polls expires (weak). In
`SecretMigration`: a migration that was not refused goes on (weak fairness of its steps; a
crash ends it). In `UpdateEffects`: requests and the three workers of an instance go on (weak).
`MonacoEditors` states none, and has no liveness property.

## Proofs

Eight modules hold theorems about the nine components' `Spec`s, for every value of the
constants that the named `ASSUME`s of the component allow: bounds are naturals, model values
that stand for "none" are none of the others, and the sets that have to be apart are. Each
proves an inductive invariant `IInv` action by action, or kind of step by kind of step; TLC
agreed with it on the constants of a run, or on smaller ones, first.
`DatabaseSharingProofs` extends two components, the two that guard a database several API
processes share; the migrations' specification is `MigrationSpec`, so that both have names of
their own.

**SettingsSyncProofs.** `TypeCorrect`, `StaleValuesNoticed`, `OneReloadAtATime`,
`NoRegress`, `Refinement`. `IInv` adds to the type invariant: no time or value is from the
future; the pending update of the scheduling worker is later than every load without a
race (else its write would go unnoticed); one call past the gate; an answer in hand is not
older than the values it will replace (this is where the gate is needed: `GetSettings`
of a second call could otherwise come before the answer of a first is applied). The
refinement maps every step to one of `SettingsReplica` or to a stutter.

**DatabaseSharingProofs**, the migrations. `MigrationTypes`, `OneRunner`, `CompleteWasApplied`,
`CompletedForGood`, `Order`, `ServicesOrder`, `TableRefined`. The strengthening (`MigrationInv`) relates an instance's
place to the lock (who is between the lock and the commit holds it), the row (who executes
a migration has its pending row) and its past (what it has gone by is complete or was
skipped). `TableRefined` maps every step to one of `MigrationTable`, or to a stutter: what an
instance has in hand it moves on or leaves (`AtWork`), the pending row begins a migration
(`Beginning`), and all else shows at most that a migration is passed over (`OtherSteps`).

**DatabaseSharingProofs**, the registration. `RegistrationTypes`, `OneAtATime`, `NoLostWakeup` for any
number of processes, and `RegisteredOnce` under the assumptions of one process and of reads
that wait. The strengthening says which entry belongs to which process, that whoever is
inside holds the semaphore, that an entry that is the process's current lock is not
disposed of, and that an entry removed by the worker has nobody inside. `RegisteredOnce`
adds that between a row's insert and its commit nobody else has read "not found". Its
second assumption is needed: with snapshot reads the lock, released before the commit,
lets a second request miss the first one's row.

**DeferredChangesProofs.** `TypesOfDeferredChanges`, `ScheduledChangesAreNotLost`,
`DeletedChangesStayDeleted`, `TemporaryValuesHaveReverts`, `ChangesAreAppliedOnce`. A step does one of four things to
the rows (`RowSteps`): nothing, adds one with a fresh id, writes one that is there, removes
one. `Known` says that whatever a worker still holds has an id that was given out, so that
writing it revives nothing; `Progress` that a worker has applied a change before it removes
the row, and scheduled its revert before it saves the value.
`ChangesAreAppliedOnce` bounds a count, and so counts (`Counted`): while a change has its row,
it has been applied by those only who are about to remove the row, and once by each fault;
once the row is gone, the workers that hold the change still may apply it, and nobody else
comes to hold it. A worker holds a change once (`HeldOnce`), so each of them is good for one
application. The theorem needs a finite set of instances.

**CustomActionsProofs.** `TypesOfCustomActions`, `RunsOnce`, `ResultsAreTrue`,
`NothingDroppedSilently`. `Truthful` carries the truth of a result from the process through the
request to the row, and through rows that polls have read and write back. `RunsOnce` rests on
three parts: one poll at a time hands out an execution that no overlap has touched
(`ClaimedOnce`); once a process has it, no poll can give it away again, as it is marked or still
locked (`Delivered`); and it is in one batch, or has been taken from it (`InOneBatch`). Nothing
is assumed of how many polls of a process are in flight.

**UpdateEffectsProofs.** `TypesOfUpdateEffects`, `LockBrokenByTimeoutsOnly`,
`CheckpointsAreTrue`, `HooksAreNotLost`, `OneCheckpointForATrigger`. A trigger may be claimed
before the update commits, so that "a checkpoint holds the changes it is made after" is not
inductive: `ExportsSettle` says that an export, which waits for rows that are written, leaves
every update it is made after either committed and in the contents, or never to be committed.
`Guarded` is the semaphore where no wait has timed out: free, or taken by one; `HooksKept`
follows the web hooks that match an update from the moment it goes on past their queueing, in
`forgotten` from then on if their look-up failed. For `OneCheckpointForATrigger`, an update
publishes its trigger once, into one channel, from which it gets one row (`Queued`); and two
workers hold a trigger together, or one holds it that has its checkpoint, only if they had read
it together (`ReadOnce`).

**SecretMigrationProofs.** `TypesOfSecretMigration`, `MigratedDataStaysReadable`,
`OnlyAlignedHostsMigrate`, `MigrationsRunAlone`, `LockedOutByAbandonedOnly`. What is encrypted with
the old secret and not noted in `late` only shrinks from the first migration on, and `Progress`
bounds it at each stage; this needs that a migration runs on a host that has both secrets, or had
them (`RunsHosted`), and so encrypts with the new one. `DifferencesFound` is why hosts align: of two with
different secrets the one that tells later finds the other. `Alone` says what is left of
"one row, one migration" before two have met.

**RunSessionsProofs.** `TypesOfRunSessions`, `OneRowOfEachSession`, `OperatorsChangesStand`. Polls
and updates of a client exclude each other by the lock on its row, operators by the lock on the
session's (`LocksExclude`). So what a poll or an update has read may be stale in what operators
change, but is true in which rows there may be and which need a restart (`ReadsHold`), and what
an operator has read and locked is as it was (`OperatorsHold`). Every write is shown once to suit
all others who have read the row (`Suits`), which gives the invariant, and to keep what it has to
(`Stands`), which gives the action property.

**MonacoEditorsProofs.** `MonacoHoldsTheEditors`, `EditorAndValueAgree`, `TypingStaysInThePlace`,
`BlankForWantOfAnEditor`. All of it rests on the order in which components come through
`OnAfterRenderAsync`: no component overtakes one made before it (`InTurn`), the load of Monaco
resumes them as they came (`Waiting`), and so do the continuations (`Queue`). Hence once the
component that is shown is initialised, nobody is on the way who could make its editor again,
and it listens to the one there is (`Heard`); with that, what is typed, formatted, loaded or
changed keeps the component, the editor and the setting in agreement from the first change on
(`Same`). `Audience` says who else may listen to an editor in the place: components that were
replaced before they were initialised (`cutOff`), no others.

Only model-checked: all liveness (`ConnectedProcessesCatchUp`, `ForbiddenOfflineFileGoes`,
`DueChangesEnd`, `RequestsEnd`, `RestartsHappen`, `LiveProcessesAreShown`,
`OperatorsReachAgain`, `WritersEnd`, `MigrationsEnd`, `ChangesAreCheckpointed`: fairness and
ENABLED are beyond the prover). Every safety invariant and action property of a passing run has
a theorem. Only proved, without a run of its own: the type invariants of the modules with a
proof module, `OneReloadAtATime` of the settings, and `CompleteMeansApplied`, `CompleteIsFinal`
and `ServicesMissOnlySkips` of the migrations.

## Findings

`registration_apis` violates `OneClientRow`: two API processes can each insert the first
registration of a client; the natural id of the mapping that was to forbid it is empty.

The models show more disagreements of the code with its documents and comments, without a run
of their own:

1. An update that commits between the API's answer and the client's stamp of its load is never
   announced to that client (`FigConfigurationProvider.cs:536`), against "any connected clients
   will be informed of this change on their next poll"; and a process whose first load fails
   while its polls succeed keeps the offline values. `StaleValuesAreNoticed` excludes the first
   by `clean`, `ConnectedProcessesCatchUp` both.
2. A request can wait for ever for a semaphore that the cleanup disposes of, against "Try to
   acquire the semaphore non-blocking to ensure it's not in use"
   (`ClientRegistrationLockService.cs:62`); `WaitersWaitForSomeone` excludes disposed ones.
3. Two instances that lose the one lock to each other at different migrations both pass over a
   migration that nobody carries out, and both report success; and an instance that is refused a
   migration starts its services while another still carries it out.
4. A change to the value the setting already has schedules a revert to the value before that
   (`SettingsService.cs:1343`). Two workers that claim the same change both apply it, the claim
   excluding nobody; and a deletion or a postponement does not keep a worker from applying a
   change it has read.
5. The cleanup of sessions is said to have no races with the requests of clients
   (`SessionCleanupWorker.cs:9`). It removes a session whose poll has come in between, fails when
   the cleanup of another instance was faster, and an operator's request is undone by a poll that
   read the row before (`ChangesStand` says by whom).
6. A checkpoint trigger that another instance has claimed is claimed again, against "Skip this
   result as it's being handled by another instance" (`CheckPointTriggerRepository.cs:52`): the
   rows have no version, and only one that is gone is skipped. Claimed triggers are deleted at
   the next evaluation, whatever became of their checkpoint.
7. A wait for the semaphore of `RegisterChange` that has timed out releases it in its `finally`
   (`SettingChangeRepository.cs:73`): two are inside, or the release of the other throws and its
   update is undone. Web hooks are queued before the update commits, and sent when
   it does not; when they cannot be looked up, the update commits and nobody is told
   (`WebHookDisseminationService.cs:203`), which `HooksAreAccountedFor` excepts by `forgotten`.
8. The migration of encrypted data takes a row lock against a second one, but has no transaction
   to keep it: two that start together insert two rows, and every later read of the state fails
   (`met`). A crash, or a failure before the first stage, leaves `MigrationInProgress` for ever.
   Settings that are updated between the load and the write of their client are undone.
9. A listener of a component that is gone can end up at the editor of its successor with the same
   id, against the comment at `monaco-integration.js:104`; a component that is given a setting of
   another name, or whose user formats before its editor has come, blanks the value; a load of
   Monaco that failed once is never tried again.

## Not modelled

- Clock skew between hosts; a client's updates of its own settings; the conversion of values
  (taken not to fail); health and memory reports of a session; deletion of a client.
- Migrations on SQLite (a file of one host, without the lock), and what migrations do.
- An NHibernate session that a stale update leaves unusable, change sets that cannot be
  decrypted, secrets in deferred changes.
- Custom actions: their registration, status and history. Web hooks of other events than changed
  values. Applying a checkpoint, and checkpoints that users make.
- The migration of event logs, check points, web hook clients and deferred changes, which follow
  the patterns of the history and of the clients; decryption without validation, which tries the
  previous secret first.
- The web client but for its JSON editors: a user interface over the API. Monaco itself is vendored
  code, and is modelled by how `monaco-integration.js` uses it.
- Client secrets with their expiry and the cache of verified hashes; import and export with the
  deferred imports of a registration: not reached, each needs a module of its own.
- The components that the inventory of `PROJECT.json` lists as not modelled, each with its
  reason.

## Plan

Order is importance; each module is written with named assumptions, one action per
operation and no RECURSIVE operator, so that it can be proved about.

1. `SettingsSync`, `SettingsReplica`, `DatabaseMigrations`, `MigrationTable`,
   `ClientRegistration`, `DeferredChanges`: done, with their proofs.
2. `CustomActions`, `RunSessions`, `SecretMigration`, `UpdateEffects`: done, with their proofs.
3. `MonacoEditors`: done, with its proofs.
4. Abstract specifications of what remains without one: the life of a scheduled change (over
   `DeferredChanges`) and of an execution of a custom action (over `CustomActions`), with their
   refinements proved.
5. `ClientSecrets` (change of a secret with the previous one's expiry, the hash cache) and
   `ImportExport` (deferred imports inside the transaction of a registration), if they are to be
   modelled.
