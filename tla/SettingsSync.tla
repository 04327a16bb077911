----------------------------- MODULE SettingsSync -----------------------------
(***************************************************************************)
(* How the values of one setting client travel from the Fig API to the     *)
(* processes that run that client: the API writes them (UpdateSettingValues*)
(* of SettingsService, from an HTTP request or from the SchedulingWorker), *)
(* every process loads them (FigConfigurationProvider) and polls for news  *)
(* (SettingStatusMonitor against StatusService.SyncStatus), and the API    *)
(* drops the run sessions that stopped polling (SessionCleanupService).    *)
(*                                                                         *)
(* A value is the number of changes committed so far, so a larger one is   *)
(* a newer one.  A time is the number of updates that have read UtcNow so  *)
(* far: the only comparison the code makes on times is between the time of *)
(* an update and the time of a load, and for it all the instants between   *)
(* two updates are the same.  All hosts share that clock: clock skew is    *)
(* not modelled.                                                           *)
(***************************************************************************)
EXTENDS Integers, FiniteSets

CONSTANTS
    Runs,                  \* run session ids: one per life of a client process
    Lanes,                 \* bound: ReloadSettings calls of a process past the reload gate
    MaxWaiting,            \* bound: how many calls waiting at the gate are told apart
    MaxUpdates,            \* bound: how many updates the API executes
    AllowOfflineSettings,  \* the option of the client library, TRUE by default
    OfflineChoices,        \* bound: what an administrator may set AllowOfflineSettings to
    LiveReloadChoices,     \* bound: what an administrator may set LiveReload to
    Background             \* which of the API's workers run: "scheduler", "cleanup"

Timer == "timer"
Threads == Lanes \cup {Timer}

ASSUME LanesAssumption == Lanes # {} /\ Timer \notin Lanes
ASSUME MaxWaitingAssumption == MaxWaiting \in Nat \ {0}
ASSUME MaxUpdatesAssumption == MaxUpdates \in Nat
ASSUME OptionAssumption ==
    /\ AllowOfflineSettings \in BOOLEAN
    /\ OfflineChoices \subseteq BOOLEAN
    /\ LiveReloadChoices \subseteq BOOLEAN
    /\ Background \subseteq {"scheduler", "cleanup"}

Default == -1              \* the values of the settings class; no offline file

VARIABLES
    clock,        \* UtcNow, as the number of updates that have read it
    setting,      \* the committed values of the client
    lastUpdate,   \* LastSettingValueUpdate, on the row of the client
    offlineAllowed, \* AllowOfflineSettings of the API's configuration
    session,      \* the run session rows
    scheduler,    \* the SchedulingWorker between its read and its write
    cleanup       \* the session cleanup between its read and its write

VARIABLES
    file,         \* the offline settings file the processes share
    pc,           \* where the life of a process is
    held,         \* the values a process runs with: Data of the provider
    origin,       \* FigSettingLoadType: where these values come from
    lastSettingUpdate, \* _lastSettingUpdate of the status monitor
    isOffline,    \* _isOffline of the status monitor
    offlineOk,    \* AllowOfflineSettings of the status monitor
    timerOn,      \* the status timer will elapse
    waiting,      \* ReloadSettings calls at the gate
    thread        \* the calls in flight: the timer's poll, and the reloads

VARIABLES
    clean,        \* history: the last load of a process raced with no update
    overwritten   \* history: since the last update was written, the cleanup has
                  \* put back an older lastUpdate

api == <<clock, setting, lastUpdate, offlineAllowed, session, scheduler, cleanup, overwritten>>
monitor == <<lastSettingUpdate, isOffline, offlineOk>>
config == <<held, origin, clean>>
vars == <<clock, setting, lastUpdate, offlineAllowed, session, scheduler, cleanup,
          file, pc, held, origin, lastSettingUpdate, isOffline, offlineOk, timerOn,
          waiting, thread, clean, overwritten>>

-----------------------------------------------------------------------------
(* What a call in flight is doing.                                         *)

Idle == [st |-> "idle", num |-> 0, update |-> FALSE, offline |-> TRUE]
Loading == [Idle EXCEPT !.st = "loading"]                    \* GET settings sent
Loaded(value) == [Idle EXCEPT !.st = "loaded", !.num = value]  \* its answer
Polling(since) == [Idle EXCEPT !.st = "polling", !.num = since] \* PUT status sent
Polled(update, offline) ==                                   \* its answer
    [Idle EXCEPT !.st = "polled", !.update = update, !.offline = offline]

NoSession == [present |-> FALSE, live |-> TRUE, expired |-> FALSE]
SchedulerIdle == [on |-> FALSE, at |-> 0]
CleanupIdle == [on |-> FALSE, gone |-> {}, all |-> FALSE, last |-> 0]

Alive(r) == pc[r] \in {"initialise", "load", "running"}
Subscribed(r) == pc[r] \in {"load", "running"}

Init ==
    /\ clock = 0 /\ setting = 0 /\ lastUpdate = 0
    /\ offlineAllowed = TRUE
    /\ session = [r \in Runs |-> NoSession]
    /\ scheduler = SchedulerIdle
    /\ cleanup = CleanupIdle
    /\ file = Default
    /\ pc = [r \in Runs |-> "off"]
    /\ held = [r \in Runs |-> Default]
    /\ origin = [r \in Runs |-> "none"]
    /\ lastSettingUpdate = [r \in Runs |-> 0]
    /\ isOffline = [r \in Runs |-> FALSE]
    /\ offlineOk = [r \in Runs |-> TRUE]
    /\ timerOn = [r \in Runs |-> FALSE]
    /\ waiting = [r \in Runs |-> 0]
    /\ thread = [r \in Runs |-> [t \in Threads |-> Idle]]
    /\ clean = [r \in Runs |-> FALSE]
    /\ overwritten = FALSE

-----------------------------------------------------------------------------
(* The API.  An HTTP request is one transaction that locks the row of the  *)
(* client from its read to its commit, so each is one step; the workers    *)
(* have no transaction around their read and their write.                  *)

\* Mutant: only a null LastSettingValueUpdate is set.
StampFirstUpdate(at) == lastUpdate' = IF lastUpdate = 0 THEN at ELSE lastUpdate

\* client.LastSettingValueUpdate = timeOfUpdate.
StampUpdate(at) == lastUpdate' = at

\* UpdateSettingValuesInternal for an HTTP request: timeOfUpdate is read under
\* the lock, and the changed values and LastSettingValueUpdate commit together.
UpdateSettingValues ==
    /\ clock < MaxUpdates
    /\ clock' = clock + 1
    /\ setting' = setting + 1
    /\ StampUpdate(clock')
    /\ overwritten' = FALSE
    /\ UNCHANGED <<offlineAllowed, session, scheduler, cleanup>>
    /\ UNCHANGED <<file, pc, monitor, timerOn, waiting, thread, config>>

\* The same handler called by the SchedulingWorker: GetClient and timeOfUpdate
\* first, with no transaction to keep the row locked ...
SchedulerRead ==
    /\ "scheduler" \in Background
    /\ clock < MaxUpdates
    /\ ~scheduler.on
    /\ clock' = clock + 1
    /\ scheduler' = [on |-> TRUE, at |-> clock']
    /\ UNCHANGED <<setting, lastUpdate, offlineAllowed, session, cleanup, overwritten>>
    /\ UNCHANGED <<file, pc, monitor, timerOn, waiting, thread, config>>

\* ... and UpdateClient later, in a transaction of its own.
SchedulerWrite ==
    /\ scheduler.on
    /\ scheduler' = SchedulerIdle
    /\ setting' = setting + 1
    /\ StampUpdate(scheduler.at)
    /\ overwritten' = FALSE
    /\ UNCHANGED <<clock, offlineAllowed, session, cleanup>>
    /\ UNCHANGED <<file, pc, monitor, timerOn, waiting, thread, config>>

\* An exception or the end of the API process between the two.
SchedulerFail ==
    /\ scheduler.on
    /\ scheduler' = SchedulerIdle
    /\ UNCHANGED <<clock, setting, lastUpdate, offlineAllowed, session, cleanup, overwritten>>
    /\ UNCHANGED <<file, pc, monitor, timerOn, waiting, thread, config>>

\* A session whose last poll is more than two poll intervals old; only the
\* cleanup asks.
Expire(r) ==
    /\ "cleanup" \in Background
    /\ session[r].present /\ ~session[r].expired
    /\ session' = [session EXCEPT ![r].expired = TRUE]
    /\ UNCHANGED <<clock, setting, lastUpdate, offlineAllowed, scheduler, cleanup, overwritten>>
    /\ UNCHANGED <<file, pc, monitor, timerOn, waiting, thread, config>>

\* RemoveExpiredSessionsAsync reads the client with its sessions, without a
\* lock or a transaction ...
CleanupRead ==
    /\ "cleanup" \in Background
    /\ ~cleanup.on
    /\ \E r \in Runs : session[r].expired
    /\ cleanup' = [on |-> TRUE,
                    gone |-> {r \in Runs : session[r].expired},
                    all |-> \A r \in Runs : session[r].present => session[r].expired,
                    last |-> lastUpdate]
    /\ UNCHANGED <<clock, setting, lastUpdate, offlineAllowed, session, scheduler, overwritten>>
    /\ UNCHANGED <<file, pc, monitor, timerOn, waiting, thread, config>>

\* ... and writes it back: it deletes the sessions it saw expired and, when none
\* was left, LastRunSessionDisconnected makes the row dirty, so that every column
\* of it is written, LastSettingValueUpdate included.
CleanupWrite ==
    /\ cleanup.on
    /\ session' = [r \in Runs |-> IF r \in cleanup.gone THEN NoSession ELSE session[r]]
    /\ lastUpdate' = IF cleanup.all THEN cleanup.last ELSE lastUpdate
    /\ overwritten' = (overwritten \/ (cleanup.all /\ cleanup.last # lastUpdate))
    /\ cleanup' = CleanupIdle
    /\ UNCHANGED <<clock, setting, offlineAllowed, scheduler>>
    /\ UNCHANGED <<file, pc, monitor, timerOn, waiting, thread, config>>

\* SetLiveReload, from the page of the connected clients.
SetLiveReload(r, live) ==
    /\ session[r].present
    /\ session' = [session EXCEPT ![r].live = live]
    /\ UNCHANGED <<clock, setting, lastUpdate, offlineAllowed, scheduler, cleanup, overwritten>>
    /\ UNCHANGED <<file, pc, monitor, timerOn, waiting, thread, config>>

\* UpdateConfiguration: an administrator allows offline settings, or does not.
SetAllowOfflineSettings(allowed) ==
    /\ offlineAllowed # allowed
    /\ offlineAllowed' = allowed
    /\ UNCHANGED <<clock, setting, lastUpdate, session, scheduler, cleanup, overwritten>>
    /\ UNCHANGED <<file, pc, monitor, timerOn, waiting, thread, config>>

-----------------------------------------------------------------------------
(* The life of a process: the constructor of the provider polls once       *)
(* (Initialize), then Load loads the values and polls again.               *)

Start(r) ==
    /\ pc[r] = "off"
    /\ pc' = [pc EXCEPT ![r] = "initialise"]
    /\ lastSettingUpdate' = [lastSettingUpdate EXCEPT ![r] = clock]
    /\ \E l \in Lanes : thread' = [thread EXCEPT ![r][l] = Polling(clock)]
    /\ UNCHANGED <<api, config, file, isOffline, offlineOk, timerOn, waiting>>

\* The process ends; its run session stays until the cleanup drops it.
Stop(r) ==
    /\ Alive(r)
    /\ pc' = [pc EXCEPT ![r] = "dead"]
    /\ thread' = [thread EXCEPT ![r] = [t \in Threads |-> Idle]]
    /\ waiting' = [waiting EXCEPT ![r] = 0]
    /\ held' = [held EXCEPT ![r] = Default]
    /\ origin' = [origin EXCEPT ![r] = "none"]
    /\ clean' = [clean EXCEPT ![r] = FALSE]
    /\ lastSettingUpdate' = [lastSettingUpdate EXCEPT ![r] = 0]
    /\ isOffline' = [isOffline EXCEPT ![r] = FALSE]
    /\ offlineOk' = [offlineOk EXCEPT ![r] = TRUE]
    /\ timerOn' = [timerOn EXCEPT ![r] = FALSE]
    /\ UNCHANGED <<api, file>>

-----------------------------------------------------------------------------
(* Polling.                                                                *)

\* OnStatusTimerElapsed stops the timer and sends the status.
TimerElapsed(r) ==
    /\ Subscribed(r)
    /\ timerOn[r]
    /\ thread[r][Timer].st = "idle"
    /\ timerOn' = [timerOn EXCEPT ![r] = FALSE]
    /\ thread' = [thread EXCEPT ![r][Timer] = Polling(lastSettingUpdate[r])]
    /\ UNCHANGED <<api, config, monitor, file, pc, waiting>>

\* Mutant: an update has to be later by a margin.
UpdateAvailableWithMargin(live, since) == live /\ lastUpdate > since + 1

\* SettingUpdateAvailable of the answer.
SettingUpdateAvailable(live, since) == live /\ lastUpdate > since

\* SyncStatus: update the run session, or create it with LiveReload on.
SyncStatus(r, t) ==
    /\ thread[r][t].st = "polling"
    /\ LET live == session[r].present => session[r].live IN
       /\ session' = [session EXCEPT ![r] =
                         [present |-> TRUE, live |-> live, expired |-> FALSE]]
       /\ thread' = [thread EXCEPT ![r][t] =
                         Polled(SettingUpdateAvailable(live, thread[r][t].num), offlineAllowed)]
    /\ UNCHANGED <<clock, setting, lastUpdate, offlineAllowed, scheduler, cleanup, overwritten>>
    /\ UNCHANGED <<file, pc, monitor, timerOn, waiting, config>>

\* ReloadSettings calls more at the gate; beyond the bound they are not told apart.
Queued(r, calls) ==
    IF waiting[r] + calls > MaxWaiting THEN MaxWaiting ELSE waiting[r] + calls

\* A poll is over: the timer runs again, the constructor goes on to Load, and
\* every event the poll has raised starts a call of ReloadSettings.
PollEnds(r, t, events) ==
    LET constructor == pc[r] = "initialise" /\ t # Timer IN
    /\ thread' = [thread EXCEPT ![r][t] = Idle]
    /\ waiting' = [waiting EXCEPT ![r] = Queued(r, IF constructor THEN 1 ELSE events)]
    /\ pc' = IF constructor THEN [pc EXCEPT ![r] = "load"] ELSE pc
    /\ timerOn' = [timerOn EXCEPT ![r] = TRUE]
    /\ UNCHANGED <<api, config, lastSettingUpdate>>

\* GetStatus returned: only the poll of the timer notes that the API is back.
Reconnects(r, t) == t = Timer /\ isOffline[r]
OnlineAgain(r, t) ==
    isOffline' = IF t = Timer THEN [isOffline EXCEPT ![r] = FALSE] ELSE isOffline

\* Mutant: the offline file is deleted only when AllowOfflineSettings changes.
FileAfterChange(r, answer) ==
    IF ~answer.offline /\ offlineOk[r] /\ Subscribed(r) THEN Default ELSE file

\* OnOfflineSettingsDisabled deletes the offline file.
FileAfter(r, answer) ==
    IF ~answer.offline /\ Subscribed(r) THEN Default ELSE file

\* ProcessResponse: raise SettingsChanged, take AllowOfflineSettings over, and
\* delete the offline file when it says no; then ReconnectedToApi.
ReceiveStatus(r, t) ==
    /\ thread[r][t].st = "polled"
    /\ LET answer == thread[r][t]
           changed == answer.update /\ Subscribed(r)
       IN
       /\ PollEnds(r, t, (IF changed THEN 1 ELSE 0) + (IF Reconnects(r, t) THEN 1 ELSE 0))
       /\ offlineOk' = [offlineOk EXCEPT ![r] = answer.offline]
       /\ file' = FileAfter(r, answer)
    /\ OnlineAgain(r, t)

\* The API answered with an error status: GetStatus logs it and returns.
StatusRejected(r, t) ==
    /\ thread[r][t].st = "polling"
    /\ PollEnds(r, t, IF Reconnects(r, t) THEN 1 ELSE 0)
    /\ OnlineAgain(r, t)
    /\ UNCHANGED <<offlineOk, file>>

\* The request or its answer was lost.
StatusFails(r, t) ==
    /\ thread[r][t].st \in {"polling", "polled"}
    /\ PollEnds(r, t, 0)
    /\ isOffline' = IF t = Timer \/ pc[r] = "initialise"
                       THEN [isOffline EXCEPT ![r] = TRUE] ELSE isOffline
    /\ UNCHANGED <<offlineOk, file>>

-----------------------------------------------------------------------------
(* Loading: LoadAsync and ReloadSettings, one at a time.                   *)

\* Mutant: reloads do not wait for each other.
GateIsOpen(r) == TRUE

\* _reloadGate is free.
GateIsFree(r) == \A l \in Lanes : thread[r][l].st \notin {"loading", "loaded"}

EnterGate(r, l) ==
    /\ waiting[r] > 0
    /\ GateIsFree(r)
    /\ thread[r][l].st = "idle"
    /\ waiting' = [waiting EXCEPT ![r] = @ - 1]
    /\ thread' = [thread EXCEPT ![r][l] = Loading]
    /\ UNCHANGED <<api, config, monitor, file, pc, timerOn>>

\* GetSettings answers with the committed values.
GetSettings(r, l) ==
    /\ thread[r][l].st = "loading"
    /\ thread' = [thread EXCEPT ![r][l] = Loaded(setting)]
    /\ UNCHANGED <<api, config, monitor, file, pc, timerOn, waiting>>

\* Every load ends with SyncStatus of the monitor, which stops the timer.
LoadEnds(r, l, since) ==
    /\ thread' = [thread EXCEPT ![r][l] = Polling(since)]
    /\ timerOn' = [timerOn EXCEPT ![r] = FALSE]
    /\ pc' = [pc EXCEPT ![r] = "running"]
    /\ UNCHANGED <<api, isOffline, offlineOk, waiting>>

\* LoadServerSnapshot and ApplySnapshot: write the offline file, which may fail,
\* take UtcNow as the time of the update, replace the values.
ReceiveSettings(r, l) ==
    /\ thread[r][l].st = "loaded"
    /\ LET value == thread[r][l].num IN
       /\ \/ AllowOfflineSettings /\ file' = value
          \/ file' = file
       /\ held' = [held EXCEPT ![r] = value]
       /\ clean' = [clean EXCEPT ![r] = (value = setting /\ ~scheduler.on)]
    /\ lastSettingUpdate' = [lastSettingUpdate EXCEPT ![r] = clock]
    /\ origin' = [origin EXCEPT ![r] = "server"]
    /\ LoadEnds(r, l, clock)

\* Mutant: the offline values pass for values of the API.
FallBackAsServer(r) ==
    /\ held' = [held EXCEPT ![r] = file]
    /\ origin' = [origin EXCEPT ![r] = "server"]

\* LoadOfflineSnapshot, applied.
FallBack(r) ==
    /\ held' = [held EXCEPT ![r] = file]
    /\ origin' = [origin EXCEPT ![r] = "offline"]

\* The request failed, or its answer was lost: with offline settings allowed the
\* values are those of the offline file, or the defaults without one.  Otherwise,
\* and after an exception of another kind, they stay.
LoadFails(r, l) ==
    /\ thread[r][l].st \in {"loading", "loaded"}
    /\ \/ AllowOfflineSettings /\ offlineOk[r] /\ FallBack(r)
       \/ UNCHANGED <<held, origin>>
    /\ LoadEnds(r, l, lastSettingUpdate[r])
    /\ UNCHANGED <<lastSettingUpdate, clean, file>>

-----------------------------------------------------------------------------

Api ==
    \/ UpdateSettingValues
    \/ SchedulerRead \/ SchedulerWrite \/ SchedulerFail
    \/ \E r \in Runs : Expire(r)
    \/ CleanupRead \/ CleanupWrite
    \/ \E r \in Runs, live \in LiveReloadChoices : SetLiveReload(r, live)
    \/ \E allowed \in OfflineChoices : SetAllowOfflineSettings(allowed)

Poll(r, t) ==
    \/ SyncStatus(r, t)
    \/ ReceiveStatus(r, t)
    \/ StatusRejected(r, t)
    \/ StatusFails(r, t)

Reload(r, l) ==
    \/ EnterGate(r, l)
    \/ GetSettings(r, l)
    \/ ReceiveSettings(r, l)
    \/ LoadFails(r, l)

Process(r) ==
    \/ Start(r) \/ Stop(r) \/ TimerElapsed(r)
    \/ \E t \in Threads : Poll(r, t)
    \/ \E l \in Lanes : Reload(r, l)

Next == Api \/ \E r \in Runs : Process(r)

Spec == Init /\ [][Next]_vars

(* The scheduling the code gives.  The status timer is started again after  *)
(* every poll and every call in flight comes to an end, answered or failed; *)
(* a request that is made again and again is answered in the end.           *)
Fairness ==
    \A r \in Runs :
        /\ WF_vars(TimerElapsed(r))
        /\ \A t \in Threads : WF_vars(Poll(r, t))
        /\ \A l \in Lanes : WF_vars(Reload(r, l))
        /\ SF_vars(SyncStatus(r, Timer))
        /\ SF_vars(ReceiveStatus(r, Timer))
        /\ SF_vars(\E l \in Lanes : GetSettings(r, l))
        /\ SF_vars(\E l \in Lanes : ReceiveSettings(r, l))

FairSpec == Spec /\ Fairness

-----------------------------------------------------------------------------
(* Correctness.                                                            *)

ThreadType ==
    [st : {"idle", "loading", "loaded", "polling", "polled"},
     num : Nat, update : BOOLEAN, offline : BOOLEAN]

SessionType == [present : BOOLEAN, live : BOOLEAN, expired : BOOLEAN]

\* Every variable holds values of its kind.
TypeOK ==
    /\ clock \in Nat /\ setting \in Nat /\ lastUpdate \in Nat
    /\ offlineAllowed \in BOOLEAN
    /\ session \in [Runs -> SessionType]
    /\ scheduler \in [on : BOOLEAN, at : Nat]
    /\ cleanup \in [on : BOOLEAN, gone : SUBSET Runs, all : BOOLEAN, last : Nat]
    /\ file \in Nat \cup {Default}
    /\ pc \in [Runs -> {"off", "initialise", "load", "running", "dead"}]
    /\ held \in [Runs -> Nat \cup {Default}]
    /\ origin \in [Runs -> {"none", "server", "offline"}]
    /\ lastSettingUpdate \in [Runs -> Nat]
    /\ isOffline \in [Runs -> BOOLEAN]
    /\ offlineOk \in [Runs -> BOOLEAN]
    /\ timerOn \in [Runs -> BOOLEAN]
    /\ waiting \in [Runs -> 0..MaxWaiting]
    /\ thread \in [Runs -> [Threads -> ThreadType]]
    /\ clean \in [Runs -> BOOLEAN]
    /\ overwritten \in BOOLEAN

\* A process on values of the API that are not the committed ones will be told so
\* by its next poll: lastUpdate is later than the time it reports.  It holds unless
\* its load raced with an update that SchedulingWorker had not written yet or that
\* committed between the answer of GetSettings and SettingsUpdated of the monitor,
\* or the session cleanup has put back an older LastSettingValueUpdate and no
\* update came after it.
StaleValuesAreNoticed ==
    \A r \in Runs :
        (origin[r] = "server" /\ clean[r] /\ ~overwritten /\ held[r] # setting)
            => lastUpdate > lastSettingUpdate[r]

\* Whatever reloads the processes queue, the values one of them has from the API
\* are never replaced by older values from the API: the reload gate keeps the
\* answers in the order of the requests.
ServerValuesNeverRegress ==
    [][\A r \in Runs :
          (origin[r] = "server" /\ origin'[r] = "server") => held'[r] >= held[r]]_vars

Connected(r) == pc[r] = "running" /\ session[r].present /\ session[r].live

\* A process that stays connected with live reload on comes to run with the
\* committed values, however many requests are lost on the way, unless its last
\* load raced with an update or the cleanup took the notice away.
ConnectedProcessesCatchUp ==
    \A r \in Runs :
        []<>(\/ held[r] = setting
             \/ ~Connected(r) \/ origin[r] # "server"
             \/ ~clean[r] \/ overwritten)

\* When offline settings stay forbidden, the offline file does not stay on the
\* disk of a running process, although every reload writes it again.
ForbiddenOfflineFileGoes ==
    <>[]~offlineAllowed =>
        []<>(file = Default \/ \A r \in Runs : pc[r] # "running")

-----------------------------------------------------------------------------
(* The inductive invariant the proofs rest on.                             *)

\* No time and no value comes from the future.
NothingFromTheFuture ==
    /\ lastUpdate <= clock /\ cleanup.last <= clock /\ scheduler.at <= clock
    /\ file <= setting
    /\ \A r \in Runs : lastSettingUpdate[r] <= clock /\ held[r] <= setting

\* The update that SchedulingWorker is about to write is later than every load
\* that raced with no update.
PendingUpdateIsLater ==
    \A r \in Runs :
        (scheduler.on /\ origin[r] = "server" /\ clean[r])
            => lastSettingUpdate[r] < scheduler.at

NotStartedHasNoValues ==
    \A r \in Runs : pc[r] = "off" => origin[r] = "none"

\* At most one call is past the reload gate.
ReloadsAreExclusive ==
    \A r \in Runs : \A k, l \in Lanes :
        (/\ thread[r][k].st \in {"loading", "loaded"}
         /\ thread[r][l].st \in {"loading", "loaded"}) => k = l

\* The answer it holds is committed, and not older than the values it replaces.
AnswersAreNewer ==
    \A r \in Runs : \A l \in Lanes :
        thread[r][l].st = "loaded" =>
            /\ thread[r][l].num <= setting
            /\ origin[r] = "server" => held[r] <= thread[r][l].num

IInv ==
    /\ TypeOK
    /\ NothingFromTheFuture
    /\ StaleValuesAreNoticed
    /\ PendingUpdateIsLater
    /\ NotStartedHasNoValues
    /\ ReloadsAreExclusive
    /\ AnswersAreNewer

-----------------------------------------------------------------------------
(* What the clients promise: SettingsReplica.                              *)

Replica == INSTANCE SettingsReplica WITH committed <- setting, stored <- file,
                                         copy <- held, source <- origin

\* The processes implement the abstract replicas of the settings.
ImplementsReplica == Replica!Spec
=============================================================================
