-------------------------- MODULE SettingsSyncProofs --------------------------
(* Theorems about SettingsSync, for any number of processes and lanes.     *)
EXTENDS SettingsSync, TLAPS

-----------------------------------------------------------------------------
(* Every variable keeps the type TypeOK gives it.                          *)

\* The calls in flight are records of ThreadType.
LEMMA ThreadTypes ==
    /\ Idle \in ThreadType /\ Loading \in ThreadType
    /\ \A n \in Nat : Loaded(n) \in ThreadType /\ Polling(n) \in ThreadType
    /\ \A u, o \in BOOLEAN : Polled(u, o) \in ThreadType
BY DEF Idle, Loading, Loaded, Polling, Polled, ThreadType

\* The end of a poll keeps the variables it writes in their types.
LEMMA PollEndsTypes ==
    ASSUME NEW r \in Runs, NEW t \in Threads, NEW n \in Nat, TypeOK, PollEnds(r, t, n)
    PROVE  /\ thread' \in [Runs -> [Threads -> ThreadType]]
           /\ waiting' \in [Runs -> 0..MaxWaiting]
           /\ pc' \in [Runs -> {"off", "initialise", "load", "running", "dead"}]
           /\ timerOn' \in [Runs -> BOOLEAN]
           /\ UNCHANGED <<api, config, lastSettingUpdate>>
BY ThreadTypes, MaxWaitingAssumption DEF PollEnds, Queued, TypeOK

\* The end of a load keeps the variables it writes in their types.
LEMMA LoadEndsTypes ==
    ASSUME NEW r \in Runs, NEW l \in Lanes, NEW n \in Nat, TypeOK, LoadEnds(r, l, n)
    PROVE  /\ thread' \in [Runs -> [Threads -> ThreadType]]
           /\ waiting' \in [Runs -> 0..MaxWaiting]
           /\ pc' \in [Runs -> {"off", "initialise", "load", "running", "dead"}]
           /\ timerOn' \in [Runs -> BOOLEAN]
           /\ UNCHANGED <<api, isOffline, offlineOk>>
BY ThreadTypes DEF LoadEnds, TypeOK, Threads

\* A run session row stays one when a flag of it is written.
LEMMA SessionTypes ==
    /\ NoSession \in SessionType
    /\ \A p, l, e \in BOOLEAN : [present |-> p, live |-> l, expired |-> e] \in SessionType
    /\ \A s \in SessionType, b \in BOOLEAN :
          [s EXCEPT !.expired = b] \in SessionType /\ [s EXCEPT !.live = b] \in SessionType
BY DEF NoSession, SessionType

LEMMA ApiTypes == TypeOK /\ Api => TypeOK'
<1> SUFFICES ASSUME TypeOK, Api PROVE TypeOK' OBVIOUS
<1> USE DEF TypeOK, monitor, config
<1>1. CASE UpdateSettingValues
  <2>1. overwritten' \in BOOLEAN BY <1>1, Zenon DEF UpdateSettingValues, StampUpdate
  <2> QED BY <1>1, <2>1 DEF UpdateSettingValues, StampUpdate
<1>2. CASE SchedulerRead BY <1>2 DEF SchedulerRead
<1>3. CASE SchedulerWrite
  <2>1. overwritten' \in BOOLEAN BY <1>3, Zenon DEF SchedulerWrite, StampUpdate
  <2>2. scheduler' \in [on : BOOLEAN, at : Nat] BY <1>3 DEF SchedulerWrite, StampUpdate, SchedulerIdle
  <2> QED BY <1>3, <2>1, <2>2 DEF SchedulerWrite, StampUpdate
<1>4. CASE SchedulerFail BY <1>4 DEF SchedulerFail, SchedulerIdle
<1>5. CASE \E r \in Runs : Expire(r)
  <2>1. PICK r \in Runs : Expire(r) BY <1>5
  <2>2. [session[r] EXCEPT !.expired = TRUE] \in SessionType
    BY SessionTypes
  <2>3. session' \in [Runs -> SessionType] BY <2>1, <2>2 DEF Expire
  <2> QED BY <2>1, <2>3 DEF Expire
<1>6. CASE CleanupRead BY <1>6 DEF CleanupRead
<1>7. CASE CleanupWrite
  <2>1. session' \in [Runs -> SessionType] BY <1>7, SessionTypes DEF CleanupWrite
  <2>2. lastUpdate' \in Nat BY <1>7 DEF CleanupWrite
  <2>3. cleanup' \in [on : BOOLEAN, gone : SUBSET Runs, all : BOOLEAN, last : Nat]
    BY <1>7 DEF CleanupWrite, CleanupIdle
  <2>4. overwritten' \in BOOLEAN BY <1>7, Zenon DEF CleanupWrite
  <2> QED BY <1>7, <2>1, <2>2, <2>3, <2>4 DEF CleanupWrite
<1>8. CASE \E r \in Runs, live \in LiveReloadChoices : SetLiveReload(r, live)
  <2>1. PICK r \in Runs, live \in LiveReloadChoices : SetLiveReload(r, live) BY <1>8
  <2>2. live \in BOOLEAN BY OptionAssumption
  <2>3. [session[r] EXCEPT !.live = live] \in SessionType
    BY <2>2, SessionTypes
  <2>4. session' \in [Runs -> SessionType] BY <2>1, <2>3 DEF SetLiveReload
  <2> QED BY <2>1, <2>4 DEF SetLiveReload
<1>9. CASE \E allowed \in OfflineChoices : SetAllowOfflineSettings(allowed)
  BY <1>9, OptionAssumption DEF SetAllowOfflineSettings
<1> QED BY <1>1, <1>2, <1>3, <1>4, <1>5, <1>6, <1>7, <1>8, <1>9 DEF Api

LEMMA ProcessTypes == ASSUME NEW r \in Runs, TypeOK, Process(r) PROVE TypeOK'
<1>1. CASE Start(r)
  <2>1. PICK l \in Lanes : thread' = [thread EXCEPT ![r][l] = Polling(clock)]
    BY <1>1 DEF Start
  <2>2. thread' \in [Runs -> [Threads -> ThreadType]]
    BY <2>1, ThreadTypes DEF TypeOK, Threads
  <2> QED BY <1>1, <2>2 DEF Start, TypeOK, api, config
<1>2. CASE Stop(r)
  <2>1. thread' \in [Runs -> [Threads -> ThreadType]]
    BY <1>2, ThreadTypes DEF Stop, TypeOK
  <2>2. /\ clean' \in [Runs -> BOOLEAN] /\ isOffline' \in [Runs -> BOOLEAN]
        /\ offlineOk' \in [Runs -> BOOLEAN] /\ timerOn' \in [Runs -> BOOLEAN]
    BY <1>2, Zenon DEF Stop, TypeOK
  <2>3. /\ pc' \in [Runs -> {"off", "initialise", "load", "running", "dead"}]
        /\ held' \in [Runs -> Nat \cup {Default}]
        /\ origin' \in [Runs -> {"none", "server", "offline"}]
        /\ lastSettingUpdate' \in [Runs -> Nat]
        /\ waiting' \in [Runs -> 0..MaxWaiting]
    BY <1>2, MaxWaitingAssumption DEF Stop, TypeOK
  <2> QED BY <1>2, <2>1, <2>2, <2>3 DEF Stop, TypeOK, api
<1>3. CASE TimerElapsed(r)
  BY <1>3, ThreadTypes DEF TimerElapsed, TypeOK, api, config, monitor, Threads
<1>4. ASSUME NEW t \in Threads, Poll(r, t) PROVE TypeOK'
  <2>1. CASE SyncStatus(r, t)
    <3> DEFINE live == session[r].present => session[r].live
               update == SettingUpdateAvailable(live, thread[r][t].num)
    <3>1. live \in BOOLEAN /\ update \in BOOLEAN
      BY DEF SettingUpdateAvailable
    <3>2. /\ [present |-> TRUE, live |-> live, expired |-> FALSE] \in SessionType
          /\ Polled(update, offlineAllowed) \in ThreadType
      BY <3>1, SessionTypes, ThreadTypes DEF TypeOK
    <3>3. /\ session' = [session EXCEPT ![r] = [present |-> TRUE, live |-> live, expired |-> FALSE]]
          /\ thread' = [thread EXCEPT ![r][t] = Polled(update, offlineAllowed)]
      BY <2>1 DEF SyncStatus
    <3> HIDE DEF live, update
    <3>4. session' \in [Runs -> SessionType] /\ thread' \in [Runs -> [Threads -> ThreadType]]
      BY <3>2, <3>3 DEF TypeOK
    <3> QED BY <2>1, <3>4 DEF SyncStatus, TypeOK, config, monitor
  <2>2. CASE ReceiveStatus(r, t)
    <3>1. PICK n \in Nat : PollEnds(r, t, n)
      BY <2>2 DEF ReceiveStatus, FileAfter
    <3>2. thread[r][t].offline \in BOOLEAN
      BY DEF TypeOK, ThreadType
    <3> QED
      BY <2>2, <3>1, <3>2, PollEndsTypes
      DEF ReceiveStatus, FileAfter, OnlineAgain, TypeOK, api, config, Default
  <2>3. CASE StatusRejected(r, t)
    <3>1. PICK n \in Nat : PollEnds(r, t, n)
      BY <2>3 DEF StatusRejected
    <3> QED
      BY <2>3, <3>1, PollEndsTypes DEF StatusRejected, OnlineAgain, TypeOK, api, config
  <2>4. CASE StatusFails(r, t)
    BY <2>4, PollEndsTypes DEF StatusFails, TypeOK, api, config
  <2> QED BY <1>4, <2>1, <2>2, <2>3, <2>4 DEF Poll
<1>5. ASSUME NEW l \in Lanes, Reload(r, l) PROVE TypeOK'
  <2>0. l \in Threads /\ thread[r][l].num \in Nat
    BY DEF Threads, TypeOK, ThreadType
  <2>1. CASE EnterGate(r, l)
    BY <2>0, <2>1, ThreadTypes, MaxWaitingAssumption
    DEF EnterGate, TypeOK, api, config, monitor
  <2>2. CASE GetSettings(r, l)
    BY <2>0, <2>2, ThreadTypes DEF GetSettings, TypeOK, api, config, monitor
  <2>3. CASE ReceiveSettings(r, l)
    <3>1. clock \in Nat /\ LoadEnds(r, l, clock)
      BY <2>3 DEF ReceiveSettings, TypeOK
    <3> QED
      <4>1. /\ thread' \in [Runs -> [Threads -> ThreadType]]
            /\ waiting' \in [Runs -> 0..MaxWaiting]
            /\ pc' \in [Runs -> {"off", "initialise", "load", "running", "dead"}]
            /\ timerOn' \in [Runs -> BOOLEAN]
            /\ UNCHANGED <<api, isOffline, offlineOk>>
        BY <3>1, LoadEndsTypes
      <4>2. /\ file' \in Nat \cup {Default}
            /\ held' \in [Runs -> Nat \cup {Default}]
            /\ origin' \in [Runs -> {"none", "server", "offline"}]
            /\ lastSettingUpdate' \in [Runs -> Nat]
        BY <2>0, <2>3 DEF ReceiveSettings, TypeOK
      <4>3. clean' \in [Runs -> BOOLEAN]
        BY <2>3 DEF ReceiveSettings, TypeOK
      <4> QED
        BY <4>1, <4>2, <4>3 DEF TypeOK, api
  <2>4. CASE LoadFails(r, l)
    <3>1. lastSettingUpdate[r] \in Nat /\ LoadEnds(r, l, lastSettingUpdate[r])
      BY <2>4 DEF LoadFails, FallBack, TypeOK
    <3>2. held' \in [Runs -> Nat \cup {Default}]
      BY <2>4 DEF LoadFails, FallBack, TypeOK
    <3>3. origin' \in [Runs -> {"none", "server", "offline"}]
      BY <2>4 DEF LoadFails, FallBack, TypeOK
    <3> QED
      <4>1. /\ thread' \in [Runs -> [Threads -> ThreadType]]
            /\ waiting' \in [Runs -> 0..MaxWaiting]
            /\ pc' \in [Runs -> {"off", "initialise", "load", "running", "dead"}]
            /\ timerOn' \in [Runs -> BOOLEAN]
            /\ UNCHANGED <<api, isOffline, offlineOk>>
        BY <3>1, LoadEndsTypes
      <4>2. UNCHANGED <<lastSettingUpdate, clean, file>>
        BY <2>4 DEF LoadFails
      <4> QED
        BY <3>2, <3>3, <4>1, <4>2 DEF TypeOK, api
  <2> QED BY <1>5, <2>1, <2>2, <2>3, <2>4 DEF Reload
<1> QED BY <1>1, <1>2, <1>3, <1>4, <1>5 DEF Process

\* A step of the system keeps the types.
LEMMA StepTypes == TypeOK /\ [Next]_vars => TypeOK'
<1>1. TypeOK /\ UNCHANGED vars => TypeOK'
  BY DEF TypeOK, vars
<1> QED BY <1>1, ApiTypes, ProcessTypes DEF Next

LEMMA InitTypes == Init => TypeOK
<1> SUFFICES ASSUME Init PROVE TypeOK OBVIOUS
<1> USE DEF Init
<1>1. /\ offlineAllowed \in BOOLEAN /\ overwritten \in BOOLEAN /\ clean \in [Runs -> BOOLEAN]
      /\ isOffline \in [Runs -> BOOLEAN] /\ offlineOk \in [Runs -> BOOLEAN]
      /\ timerOn \in [Runs -> BOOLEAN]
  BY Zenon
<1>2. /\ session \in [Runs -> SessionType]
      /\ thread \in [Runs -> [Threads -> ThreadType]]
  BY SessionTypes, ThreadTypes
<1>3. /\ scheduler \in [on : BOOLEAN, at : Nat]
      /\ cleanup \in [on : BOOLEAN, gone : SUBSET Runs, all : BOOLEAN, last : Nat]
  BY DEF SchedulerIdle, CleanupIdle
<1> QED BY <1>1, <1>2, <1>3, MaxWaitingAssumption DEF TypeOK

\* Type correctness: every variable of the client, of the API and of the
\* calls in flight between them holds values of its kind, in every state.
THEOREM TypeCorrect == Spec => []TypeOK
BY InitTypes, StepTypes, PTL DEF Spec

-----------------------------------------------------------------------------
(* The inductive invariant.                                                *)

LEMMA InitIInv == Init => IInv
<1> SUFFICES ASSUME Init PROVE IInv OBVIOUS
<1>1. TypeOK BY InitTypes
<1>2. NothingFromTheFuture
  BY DEF Init, NothingFromTheFuture, Default, SchedulerIdle, CleanupIdle
<1>3. \A r \in Runs : origin[r] = "none" BY DEF Init
<1>4. \A r \in Runs : \A l \in Lanes : thread[r][l].st = "idle"
  BY DEF Init, Threads, Idle
<1> QED
  BY <1>1, <1>2, <1>3, <1>4
  DEF IInv, StaleValuesAreNoticed, PendingUpdateIsLater, NotStartedHasNoValues,
      ReloadsAreExclusive, AnswersAreNewer

\* The numbers the invariant compares.
LEMMA Numbers ==
    ASSUME TypeOK
    PROVE  /\ clock \in Nat /\ setting \in Nat /\ lastUpdate \in Nat
           /\ file \in Int /\ scheduler.at \in Nat /\ cleanup.last \in Nat
           /\ \A r \in Runs : held[r] \in Int /\ lastSettingUpdate[r] \in Nat
           /\ \A r \in Runs : \A l \in Lanes : thread[r][l].num \in Nat
BY DEF TypeOK, Default, ThreadType, Threads

\* A step of the API that leaves the processes alone keeps the invariant.
LEMMA ApiIInv == IInv /\ Api => IInv'
<1> SUFFICES ASSUME IInv, Api PROVE IInv' OBVIOUS
<1>0. TypeOK' BY ApiTypes DEF IInv
<1> DEFINE Still == UNCHANGED <<file, pc, held, origin, clean, lastSettingUpdate, thread>>
<1>a. Still BY DEF Api, UpdateSettingValues, SchedulerRead, SchedulerWrite, SchedulerFail,
        Expire, CleanupRead, CleanupWrite, SetLiveReload, SetAllowOfflineSettings, monitor, config
<1>b. /\ NotStartedHasNoValues' /\ ReloadsAreExclusive'
  BY <1>a DEF IInv, NotStartedHasNoValues, ReloadsAreExclusive
<1>n. /\ clock \in Nat /\ setting \in Nat /\ lastUpdate \in Nat
      /\ file \in Int /\ scheduler.at \in Nat /\ cleanup.last \in Nat
      /\ \A r \in Runs : held[r] \in Int /\ lastSettingUpdate[r] \in Nat
      /\ \A r \in Runs : \A l \in Lanes : thread[r][l].num \in Nat
  BY Numbers DEF IInv
<1> HIDE DEF Still
<1>1. CASE UpdateSettingValues
  <2>1. /\ clock' = clock + 1 /\ setting' = setting + 1 /\ lastUpdate' = clock'
        /\ UNCHANGED <<scheduler, cleanup>>
    BY <1>1 DEF UpdateSettingValues, StampUpdate
  <2>2. NothingFromTheFuture'
    BY <1>a, <1>n, <2>1 DEF Still, IInv, NothingFromTheFuture
  <2>3. StaleValuesAreNoticed'
    BY <1>a, <1>n, <2>1 DEF Still, IInv, NothingFromTheFuture, StaleValuesAreNoticed
  <2>4. PendingUpdateIsLater'
    BY <1>a, <2>1 DEF Still, IInv, PendingUpdateIsLater
  <2>5. AnswersAreNewer'
    BY <1>a, <1>n, <2>1 DEF Still, IInv, AnswersAreNewer
  <2> QED BY <1>0, <1>b, <2>2, <2>3, <2>4, <2>5 DEF IInv
<1>2. CASE SchedulerRead
  <2>1. /\ clock' = clock + 1 /\ scheduler'.at = clock + 1
        /\ UNCHANGED <<setting, lastUpdate, cleanup, overwritten>>
    BY <1>2 DEF SchedulerRead
  <2>2. NothingFromTheFuture'
    BY <1>a, <1>n, <2>1 DEF Still, IInv, NothingFromTheFuture
  <2>3. StaleValuesAreNoticed'
    BY <1>a, <2>1 DEF Still, IInv, StaleValuesAreNoticed
  <2>4. PendingUpdateIsLater'
    BY <1>a, <1>n, <2>1 DEF Still, IInv, NothingFromTheFuture, PendingUpdateIsLater
  <2>5. AnswersAreNewer'
    BY <1>a, <2>1 DEF Still, IInv, AnswersAreNewer
  <2> QED BY <1>0, <1>b, <2>2, <2>3, <2>4, <2>5 DEF IInv
<1>3. CASE SchedulerWrite
  <2>1. /\ scheduler.on /\ ~scheduler'.on /\ scheduler'.at = 0
        /\ setting' = setting + 1 /\ lastUpdate' = scheduler.at
        /\ UNCHANGED <<clock, cleanup>>
    BY <1>3 DEF SchedulerWrite, StampUpdate, SchedulerIdle
  <2>2. NothingFromTheFuture'
    BY <1>a, <1>n, <2>1 DEF Still, IInv, NothingFromTheFuture
  <2>3. StaleValuesAreNoticed'
    BY <1>a, <1>n, <2>1 DEF Still, IInv, PendingUpdateIsLater, StaleValuesAreNoticed
  <2>4. PendingUpdateIsLater'
    BY <2>1 DEF PendingUpdateIsLater
  <2>5. AnswersAreNewer'
    BY <1>a, <1>n, <2>1 DEF Still, IInv, AnswersAreNewer
  <2> QED BY <1>0, <1>b, <2>2, <2>3, <2>4, <2>5 DEF IInv
<1>4. CASE SchedulerFail
  <2>1. /\ ~scheduler'.on /\ scheduler'.at = 0
        /\ UNCHANGED <<clock, setting, lastUpdate, cleanup, overwritten>>
    BY <1>4 DEF SchedulerFail, SchedulerIdle
  <2>2. NothingFromTheFuture'
    BY <1>a, <1>n, <2>1 DEF Still, IInv, NothingFromTheFuture
  <2>3. StaleValuesAreNoticed'
    BY <1>a, <2>1 DEF Still, IInv, StaleValuesAreNoticed
  <2>4. PendingUpdateIsLater'
    BY <2>1 DEF PendingUpdateIsLater
  <2>5. AnswersAreNewer'
    BY <1>a, <2>1 DEF Still, IInv, AnswersAreNewer
  <2> QED BY <1>0, <1>b, <2>2, <2>3, <2>4, <2>5 DEF IInv
<1>5. CASE CleanupWrite
  <2>1. /\ lastUpdate' = (IF cleanup.all THEN cleanup.last ELSE lastUpdate)
        /\ overwritten' = (overwritten \/ (cleanup.all /\ cleanup.last # lastUpdate))
        /\ cleanup'.last = 0
        /\ UNCHANGED <<clock, setting, scheduler>>
    BY <1>5 DEF CleanupWrite, CleanupIdle
  <2>2. NothingFromTheFuture'
    BY <1>a, <1>n, <2>1 DEF Still, IInv, NothingFromTheFuture
  <2>3. StaleValuesAreNoticed'
    <3>1. ~overwritten' => ~overwritten /\ lastUpdate' = lastUpdate BY <2>1
    <3> QED BY <1>a, <2>1, <3>1 DEF Still, IInv, StaleValuesAreNoticed
  <2>4. PendingUpdateIsLater'
    BY <1>a, <2>1 DEF Still, IInv, PendingUpdateIsLater
  <2>5. AnswersAreNewer'
    BY <1>a, <2>1 DEF Still, IInv, AnswersAreNewer
  <2> QED BY <1>0, <1>b, <2>2, <2>3, <2>4, <2>5 DEF IInv
<1>6. CASE CleanupRead
  <2>1. /\ cleanup'.last = lastUpdate
        /\ UNCHANGED <<clock, setting, lastUpdate, scheduler, overwritten>>
    BY <1>6 DEF CleanupRead
  <2>2. NothingFromTheFuture'
    BY <1>a, <1>n, <2>1 DEF Still, IInv, NothingFromTheFuture
  <2>3. /\ StaleValuesAreNoticed' /\ PendingUpdateIsLater' /\ AnswersAreNewer'
    BY <1>a, <2>1
    DEF Still, IInv, StaleValuesAreNoticed, PendingUpdateIsLater, AnswersAreNewer
  <2> QED BY <1>0, <1>b, <2>2, <2>3 DEF IInv
<1>7. CASE \/ \E r \in Runs : Expire(r)
           \/ \E r \in Runs, live \in LiveReloadChoices : SetLiveReload(r, live)
           \/ \E allowed \in OfflineChoices : SetAllowOfflineSettings(allowed)
  <2>1. UNCHANGED <<clock, setting, lastUpdate, scheduler, cleanup, overwritten>>
    BY <1>7 DEF Expire, SetLiveReload, SetAllowOfflineSettings
  <2>2. /\ NothingFromTheFuture' /\ StaleValuesAreNoticed'
        /\ PendingUpdateIsLater' /\ AnswersAreNewer'
    BY <1>a, <2>1
    DEF Still, IInv, NothingFromTheFuture, StaleValuesAreNoticed, PendingUpdateIsLater,
        AnswersAreNewer
  <2> QED BY <1>0, <1>b, <2>2 DEF IInv
<1> QED BY <1>1, <1>2, <1>3, <1>4, <1>5, <1>6, <1>7 DEF Api

\* A poll, from the timer to its end, changes neither the values of a process nor
\* a call that holds the gate: it keeps the invariant.
LEMMA PollKeepsIInv ==
    ASSUME IInv, TypeOK',
           UNCHANGED <<clock, setting, lastUpdate, scheduler, cleanup, overwritten>>,
           UNCHANGED <<held, origin, clean, lastSettingUpdate>>,
           file' \in {file, Default},
           \A r \in Runs : pc'[r] = "off" => pc[r] = "off",
           \A r \in Runs : \A l \in Lanes :
               thread'[r][l].st \in {"loading", "loaded"} => thread'[r][l] = thread[r][l]
    PROVE  IInv'
<1>1. NothingFromTheFuture'
  BY Numbers DEF IInv, NothingFromTheFuture, Default
<1>2. StaleValuesAreNoticed' /\ PendingUpdateIsLater'
  BY DEF IInv, StaleValuesAreNoticed, PendingUpdateIsLater
<1>3. NotStartedHasNoValues'
  BY DEF IInv, NotStartedHasNoValues
<1>4. ReloadsAreExclusive'
  BY DEF IInv, ReloadsAreExclusive
<1>5. AnswersAreNewer'
  BY DEF IInv, AnswersAreNewer
<1> QED BY <1>1, <1>2, <1>3, <1>4, <1>5 DEF IInv

\* One call changes: every other one is as it was.
LEMMA OneCall ==
    ASSUME TypeOK, NEW r \in Runs, NEW t \in Threads, NEW c \in ThreadType,
           thread' = [thread EXCEPT ![r][t] = c]
    PROVE  /\ thread'[r][t] = c
           /\ \A q \in Runs : \A u \in Threads :
                 (q # r \/ u # t) => thread'[q][u] = thread[q][u]
BY DEF TypeOK

\* Neither does the beginning or the end of a poll hold the gate.
LEMMA PollCalls ==
    /\ Idle.st \notin {"loading", "loaded"}
    /\ \A n \in Nat : Polling(n).st \notin {"loading", "loaded"}
    /\ \A u, o \in BOOLEAN : Polled(u, o).st \notin {"loading", "loaded"}
BY DEF Idle, Polling, Polled

LEMMA LoadCalls ==
    /\ Loading.st = "loading"
    /\ \A n \in Nat : Loaded(n).st = "loaded" /\ Loaded(n).num = n
BY DEF Idle, Loading, Loaded

LEMMA PollEndsIInv ==
    ASSUME IInv, TypeOK', NEW r \in Runs, NEW t \in Threads, NEW n \in Nat,
           PollEnds(r, t, n), file' \in {file, Default}
    PROVE  IInv'
<1>1. thread' = [thread EXCEPT ![r][t] = Idle] BY DEF PollEnds
<1>2. \A q \in Runs : \A l \in Lanes :
          thread'[q][l].st \in {"loading", "loaded"} => thread'[q][l] = thread[q][l]
  BY <1>1, OneCall, PollCalls, ThreadTypes DEF IInv, Threads
<1>3. \A q \in Runs : pc'[q] = "off" => pc[q] = "off"
  BY DEF PollEnds, IInv, TypeOK
<1> QED BY <1>2, <1>3, PollKeepsIInv DEF PollEnds, api, config

LEMMA ProcessPollIInv ==
    ASSUME IInv, NEW r \in Runs, NEW t \in Threads, Poll(r, t) PROVE IInv'
<1>0. TypeOK /\ TypeOK' BY ProcessTypes DEF Process, IInv
<1>1. CASE SyncStatus(r, t)
  <2>1. PICK u, o \in BOOLEAN : thread' = [thread EXCEPT ![r][t] = Polled(u, o)]
    BY <1>0, <1>1 DEF SyncStatus, SettingUpdateAvailable, TypeOK
  <2>2. \A q \in Runs : \A l \in Lanes :
            thread'[q][l].st \in {"loading", "loaded"} => thread'[q][l] = thread[q][l]
    BY <1>0, <2>1, OneCall, PollCalls, ThreadTypes DEF Threads
  <2> QED BY <1>0, <1>1, <2>2, PollKeepsIInv DEF SyncStatus, config, monitor
<1>2. CASE ReceiveStatus(r, t)
  <2>1. PICK n \in Nat : PollEnds(r, t, n) BY <1>2 DEF ReceiveStatus, FileAfter
  <2>2. file' \in {file, Default} BY <1>2 DEF ReceiveStatus, FileAfter
  <2> QED BY <1>0, <2>1, <2>2, PollEndsIInv
<1>3. CASE StatusRejected(r, t)
  <2>1. PICK n \in Nat : PollEnds(r, t, n) BY <1>3 DEF StatusRejected
  <2> QED BY <1>0, <1>3, <2>1, PollEndsIInv DEF StatusRejected
<1>4. CASE StatusFails(r, t)
  BY <1>0, <1>4, PollEndsIInv DEF StatusFails
<1> QED BY <1>1, <1>2, <1>3, <1>4 DEF Poll

LEMMA ProcessReloadIInv ==
    ASSUME IInv, NEW r \in Runs, NEW l \in Lanes, Reload(r, l) PROVE IInv'
<1>0. TypeOK /\ TypeOK' BY ProcessTypes DEF Process, IInv
<1>l. l \in Threads BY DEF Threads
<1>n. /\ clock \in Nat /\ setting \in Nat /\ lastUpdate \in Nat
      /\ file \in Int /\ scheduler.at \in Nat /\ cleanup.last \in Nat
      /\ \A q \in Runs : held[q] \in Int /\ lastSettingUpdate[q] \in Nat
      /\ \A q \in Runs : \A k \in Lanes : thread[q][k].num \in Nat
  BY <1>0, Numbers
<1>a. /\ UNCHANGED <<clock, setting, lastUpdate, scheduler, cleanup, overwritten>>
      /\ \A q \in Runs : pc'[q] = "off" => pc[q] = "off"
  BY <1>0 DEF Reload, EnterGate, GetSettings, ReceiveSettings, LoadFails, FallBack, LoadEnds, api, TypeOK
<1>1. CASE EnterGate(r, l)
  <2>1. /\ thread' = [thread EXCEPT ![r][l] = Loading] /\ GateIsFree(r)
        /\ UNCHANGED <<file, pc, held, origin, clean, lastSettingUpdate>>
    BY <1>1 DEF EnterGate, config, monitor
  <2>2. /\ thread'[r][l].st = "loading"
        /\ \A q \in Runs : \A k \in Lanes :
              (q # r \/ k # l) => thread'[q][k] = thread[q][k]
    <3>1. /\ thread'[r][l] = Loading
          /\ \A q \in Runs : \A u \in Threads :
                (q # r \/ u # l) => thread'[q][u] = thread[q][u]
      BY <1>0, <1>l, <2>1 DEF TypeOK
    <3> QED BY <3>1, LoadCalls DEF Threads
  <2>3. ReloadsAreExclusive'
    BY <2>1, <2>2 DEF IInv, ReloadsAreExclusive, GateIsFree
  <2>4. AnswersAreNewer'
    BY <1>a, <2>1, <2>2 DEF IInv, AnswersAreNewer
  <2> QED
    BY <1>0, <1>a, <2>1, <2>3, <2>4
    DEF IInv, NothingFromTheFuture, StaleValuesAreNoticed, PendingUpdateIsLater,
        NotStartedHasNoValues
<1>2. CASE GetSettings(r, l)
  <2>1. /\ thread' = [thread EXCEPT ![r][l] = Loaded(setting)]
        /\ thread[r][l].st = "loading"
        /\ UNCHANGED <<file, pc, held, origin, clean, lastSettingUpdate>>
    BY <1>2 DEF GetSettings, config, monitor
  <2>2. /\ thread'[r][l].st = "loaded" /\ thread'[r][l].num = setting
        /\ \A q \in Runs : \A k \in Lanes :
              (q # r \/ k # l) => thread'[q][k] = thread[q][k]
    <3>1. /\ thread'[r][l] = Loaded(setting)
          /\ \A q \in Runs : \A u \in Threads :
                (q # r \/ u # l) => thread'[q][u] = thread[q][u]
      BY <1>0, <1>l, <2>1 DEF TypeOK
    <3> QED BY <1>n, <3>1, LoadCalls DEF Threads
  <2>3. ReloadsAreExclusive'
    BY <2>1, <2>2 DEF IInv, ReloadsAreExclusive
  <2>4. AnswersAreNewer'
    BY <1>a, <1>n, <2>1, <2>2 DEF IInv, AnswersAreNewer, NothingFromTheFuture
  <2> QED
    BY <1>0, <1>a, <2>1, <2>3, <2>4
    DEF IInv, NothingFromTheFuture, StaleValuesAreNoticed, PendingUpdateIsLater,
        NotStartedHasNoValues
<1>3. ASSUME NEW since \in Nat, LoadEnds(r, l, since)
      PROVE  /\ thread'[r][l].st = "polling" /\ pc'[r] = "running"
             /\ \A q \in Runs : \A k \in Lanes :
                   (q # r \/ k # l) => thread'[q][k] = thread[q][k]
             /\ ReloadsAreExclusive'
  <2>1. /\ thread'[r][l].st = "polling" /\ pc'[r] = "running"
        /\ \A q \in Runs : \A k \in Lanes :
              (q # r \/ k # l) => thread'[q][k] = thread[q][k]
    BY <1>0, <1>l, <1>3, OneCall, ThreadTypes DEF LoadEnds, Polling, Idle, Threads, TypeOK
  <2> QED BY <2>1 DEF IInv, ReloadsAreExclusive
<1>4. CASE ReceiveSettings(r, l)
  <2> DEFINE value == thread[r][l].num
  <2>1. /\ thread[r][l].st = "loaded" /\ file' \in {file, value}
        /\ held' = [held EXCEPT ![r] = value]
        /\ clean' = [clean EXCEPT ![r] = (value = setting /\ ~scheduler.on)]
        /\ lastSettingUpdate' = [lastSettingUpdate EXCEPT ![r] = clock]
        /\ origin' = [origin EXCEPT ![r] = "server"]
        /\ LoadEnds(r, l, clock)
    BY <1>4 DEF ReceiveSettings
  <2>2. value \in Nat /\ value <= setting
    BY <1>n, <2>1 DEF IInv, AnswersAreNewer
  <2>3. /\ held'[r] = value /\ lastSettingUpdate'[r] = clock
        /\ clean'[r] => value = setting /\ ~scheduler.on
        /\ \A q \in Runs \ {r} : /\ held'[q] = held[q] /\ clean'[q] = clean[q]
                                 /\ lastSettingUpdate'[q] = lastSettingUpdate[q]
                                 /\ origin'[q] = origin[q]
    <3>1. /\ clean'[r] => value = setting /\ ~scheduler.on
          /\ \A q \in Runs \ {r} : clean'[q] = clean[q]
      <4>1. clean \in [Runs -> BOOLEAN] BY <1>0 DEF TypeOK
      <4>2. clean' = [clean EXCEPT ![r] = (value = setting /\ ~scheduler.on)] BY <2>1
      <4> HIDE DEF value
      <4>3. clean'[r] = (value = setting /\ ~scheduler.on) BY <4>1, <4>2, Zenon
      <4>4. \A q \in Runs \ {r} : clean'[q] = clean[q] BY <4>1, <4>2, Zenon
      <4> QED BY <4>3, <4>4, Zenon
    <3>2. /\ held'[r] = value /\ lastSettingUpdate'[r] = clock
          /\ \A q \in Runs \ {r} : /\ held'[q] = held[q] /\ origin'[q] = origin[q]
                                   /\ lastSettingUpdate'[q] = lastSettingUpdate[q]
      BY <1>0, <2>1 DEF TypeOK
    <3> QED BY <3>1, <3>2
  <2>4. NothingFromTheFuture'
    BY <1>a, <1>n, <2>1, <2>2, <2>3 DEF IInv, NothingFromTheFuture
  <2>5. StaleValuesAreNoticed'
    BY <1>a, <2>3 DEF IInv, StaleValuesAreNoticed
  <2>6. PendingUpdateIsLater'
    BY <1>a, <2>3 DEF IInv, PendingUpdateIsLater
  <2>7. NotStartedHasNoValues'
    BY <1>a, <1>n, <1>3, <2>1, <2>3 DEF IInv, NotStartedHasNoValues
  <2>8. AnswersAreNewer'
    <3>1. \A k \in Lanes : thread'[r][k].st # "loaded"
      BY <1>n, <1>3, <2>1 DEF IInv, ReloadsAreExclusive
    <3> QED BY <1>a, <1>n, <1>3, <2>1, <2>3, <3>1 DEF IInv, AnswersAreNewer
  <2> QED BY <1>0, <1>n, <1>3, <2>1, <2>4, <2>5, <2>6, <2>7, <2>8 DEF IInv
<1>5. CASE LoadFails(r, l)
  <2>1. /\ thread[r][l].st \in {"loading", "loaded"}
        /\ \/ held' = [held EXCEPT ![r] = file] /\ origin' = [origin EXCEPT ![r] = "offline"]
           \/ UNCHANGED <<held, origin>>
        /\ LoadEnds(r, l, lastSettingUpdate[r])
        /\ UNCHANGED <<lastSettingUpdate, clean, file>>
    BY <1>5 DEF LoadFails, FallBack
  <2>2. /\ \/ origin'[r] = "offline" /\ held'[r] = file
           \/ origin'[r] = origin[r] /\ held'[r] = held[r]
        /\ \A q \in Runs \ {r} : held'[q] = held[q] /\ origin'[q] = origin[q]
    BY <1>0, <2>1 DEF TypeOK
  <2>3. NothingFromTheFuture'
    BY <1>a, <1>n, <2>1, <2>2 DEF IInv, NothingFromTheFuture
  <2>4. StaleValuesAreNoticed' /\ PendingUpdateIsLater'
    BY <1>a, <2>1, <2>2 DEF IInv, StaleValuesAreNoticed, PendingUpdateIsLater
  <2>5. NotStartedHasNoValues'
    BY <1>a, <1>n, <1>3, <2>1, <2>2 DEF IInv, NotStartedHasNoValues
  <2>6. AnswersAreNewer'
    <3>1. \A k \in Lanes : thread'[r][k].st # "loaded"
      BY <1>n, <1>3, <2>1 DEF IInv, ReloadsAreExclusive
    <3> QED BY <1>a, <1>n, <1>3, <2>1, <2>2, <3>1 DEF IInv, AnswersAreNewer
  <2> QED BY <1>0, <1>n, <1>3, <2>1, <2>3, <2>4, <2>5, <2>6 DEF IInv
<1> QED BY <1>1, <1>2, <1>4, <1>5 DEF Reload

LEMMA ProcessIInv == ASSUME IInv, NEW r \in Runs, Process(r) PROVE IInv'
<1>0. TypeOK /\ TypeOK' BY ProcessTypes DEF IInv
<1>1. CASE Start(r)
  <2>1. PICK l \in Lanes : thread' = [thread EXCEPT ![r][l] = Polling(clock)]
    BY <1>1 DEF Start
  <2>2. \A q \in Runs : \A k \in Lanes :
            thread'[q][k].st \in {"loading", "loaded"} => thread'[q][k] = thread[q][k]
    <3>1. clock \in Nat /\ Polling(clock) \in ThreadType /\ l \in Threads
      BY <1>0, ThreadTypes DEF Threads, TypeOK
    <3>2. /\ thread'[r][l] = Polling(clock)
          /\ \A q \in Runs : \A u \in Threads :
                (q # r \/ u # l) => thread'[q][u] = thread[q][u]
      <4>1. thread \in [Runs -> [Threads -> ThreadType]]
        BY <1>0 DEF TypeOK
      <4> QED
        BY <2>1, <3>1, <4>1
    <3>3. thread'[r][l].st \notin {"loading", "loaded"}
      BY <3>1, <3>2, PollCalls
    <3> QED
      BY <3>2, <3>3 DEF Threads
  <2>3. /\ UNCHANGED <<clock, setting, lastUpdate, scheduler, cleanup, overwritten>>
        /\ UNCHANGED <<file, held, origin, clean>>
        /\ pc[r] = "off" /\ pc' = [pc EXCEPT ![r] = "initialise"]
        /\ lastSettingUpdate' = [lastSettingUpdate EXCEPT ![r] = clock]
    BY <1>1 DEF Start, api, config
  <2>4. /\ lastSettingUpdate'[r] = clock /\ pc'[r] # "off" /\ origin[r] = "none"
        /\ \A q \in Runs \ {r} : /\ lastSettingUpdate'[q] = lastSettingUpdate[q]
                                 /\ pc'[q] = pc[q]
    BY <1>0, <2>3 DEF TypeOK, IInv, NotStartedHasNoValues
  <2>5. NothingFromTheFuture'
    BY <1>0, <2>3, <2>4, Numbers DEF IInv, NothingFromTheFuture
  <2>6. StaleValuesAreNoticed' /\ PendingUpdateIsLater' /\ NotStartedHasNoValues'
    BY <2>3, <2>4 DEF IInv, StaleValuesAreNoticed, PendingUpdateIsLater, NotStartedHasNoValues
  <2>7. ReloadsAreExclusive' /\ AnswersAreNewer'
    BY <2>2, <2>3 DEF IInv, ReloadsAreExclusive, AnswersAreNewer
  <2> QED BY <1>0, <2>5, <2>6, <2>7 DEF IInv
<1>2. CASE Stop(r)
  <2>1. /\ UNCHANGED <<clock, setting, lastUpdate, scheduler, cleanup, overwritten, file>>
        /\ held'[r] = Default /\ origin'[r] = "none" /\ lastSettingUpdate'[r] = 0
        /\ \A q \in Runs \ {r} :
              /\ held'[q] = held[q] /\ origin'[q] = origin[q] /\ clean'[q] = clean[q]
              /\ lastSettingUpdate'[q] = lastSettingUpdate[q] /\ pc'[q] = pc[q]
              /\ thread'[q] = thread[q]
        /\ \A l \in Lanes : thread'[r][l] = Idle
    BY <1>0, <1>2 DEF Stop, TypeOK, api, Threads
  <2>2. NothingFromTheFuture'
    BY <1>0, <2>1, Numbers DEF IInv, NothingFromTheFuture, Default
  <2>3. StaleValuesAreNoticed' /\ PendingUpdateIsLater' /\ NotStartedHasNoValues'
    BY <2>1 DEF IInv, StaleValuesAreNoticed, PendingUpdateIsLater, NotStartedHasNoValues
  <2>4. ReloadsAreExclusive' /\ AnswersAreNewer'
    BY <2>1, PollCalls DEF IInv, ReloadsAreExclusive, AnswersAreNewer
  <2> QED BY <1>0, <2>2, <2>3, <2>4 DEF IInv
<1>3. CASE TimerElapsed(r)
  <2>1. \A q \in Runs : \A l \in Lanes : thread'[q][l] = thread[q][l]
    BY <1>0, <1>3, LanesAssumption DEF TimerElapsed, TypeOK, Threads
  <2> QED BY <1>0, <1>3, <2>1, PollKeepsIInv DEF TimerElapsed, api, config, monitor
<1>4. CASE \E t \in Threads : Poll(r, t) BY <1>4, ProcessPollIInv
<1>5. CASE \E l \in Lanes : Reload(r, l) BY <1>5, ProcessReloadIInv
<1> QED BY <1>1, <1>2, <1>3, <1>4, <1>5 DEF Process

LEMMA StutterIInv == IInv /\ UNCHANGED vars => IInv'
BY DEF IInv, TypeOK, NothingFromTheFuture, StaleValuesAreNoticed, PendingUpdateIsLater,
       NotStartedHasNoValues, ReloadsAreExclusive, AnswersAreNewer, vars

LEMMA StepIInv == IInv /\ [Next]_vars => IInv'
BY ApiIInv, ProcessIInv, StutterIInv DEF Next

LEMMA Invariance == Spec => []IInv
BY InitIInv, StepIInv, PTL DEF Spec

-----------------------------------------------------------------------------
(* The results.                                                            *)

\* A process whose values are not the committed ones will be told so by its next
\* poll, however polls, reloads, updates, the scheduler and the cleanup interleave,
\* but for the two races the property names.
THEOREM StaleValuesNoticed == Spec => []StaleValuesAreNoticed
<1>1. IInv => StaleValuesAreNoticed BY DEF IInv
<1> QED BY <1>1, Invariance, PTL

\* The gate of a process lets one reload at a time ask for the settings and apply
\* them (the semaphore of FigConfigurationProvider).
THEOREM OneReloadAtATime == Spec => []ReloadsAreExclusive
<1>1. IInv => ReloadsAreExclusive BY DEF IInv
<1> QED BY <1>1, Invariance, PTL

\* What a step does to the values of the processes is what a step of SettingsReplica
\* does, or nothing.
LEMMA ApiRefines == IInv /\ Api => [Replica!Next]_(Replica!vars)
<1> SUFFICES ASSUME IInv, Api PROVE [Replica!Next]_(Replica!vars) OBVIOUS
<1>1. CASE UpdateSettingValues \/ SchedulerWrite
  <2>1. Replica!Commit
    BY <1>1 DEF UpdateSettingValues, StampUpdate, SchedulerWrite, config, Replica!Commit
  <2> QED BY <2>1 DEF Replica!Next
<1>2. CASE UNCHANGED <<setting, file, held, origin>>
  BY <1>2 DEF Replica!vars
<1> QED
  BY <1>1, <1>2 DEF Api, SchedulerRead, SchedulerFail, Expire, CleanupRead, CleanupWrite,
    SetLiveReload, SetAllowOfflineSettings, config

LEMMA ProcessRefines ==
    ASSUME IInv, NEW r \in Runs, Process(r) PROVE [Replica!Next]_(Replica!vars)
<1>1. CASE Start(r) \/ TimerElapsed(r)
  BY <1>1 DEF Start, TimerElapsed, api, config, Replica!vars
<1>2. CASE Stop(r)
  <2>1. Replica!Leave(r)
    BY <1>2 DEF Stop, api, Replica!Leave, Default, Replica!Default
  <2> QED BY <2>1 DEF Replica!Next
<1>3. ASSUME NEW t \in Threads, Poll(r, t) PROVE [Replica!Next]_(Replica!vars)
  <2>1. UNCHANGED <<setting, held, origin>> /\ file' \in {file, Default}
    BY <1>3 DEF Poll, SyncStatus, ReceiveStatus, FileAfter, StatusRejected, StatusFails, PollEnds,
      api, config
  <2>2. CASE file' = file BY <2>1, <2>2 DEF Replica!vars
  <2>3. CASE file' = Default
    <3>1. Replica!Forget
      BY <2>1, <2>3 DEF Replica!Forget, Default, Replica!Default
    <3> QED BY <3>1 DEF Replica!Next
  <2> QED BY <2>1, <2>2, <2>3
<1>4. ASSUME NEW l \in Lanes, Reload(r, l) PROVE [Replica!Next]_(Replica!vars)
  <2>1. CASE EnterGate(r, l) \/ GetSettings(r, l)
    BY <2>1 DEF EnterGate, GetSettings, api, config, Replica!vars
  <2>2. CASE ReceiveSettings(r, l)
    <3> DEFINE value == thread[r][l].num
    <3>1. /\ value \in 0..setting
          /\ origin[r] = "server" => held[r] <= value
      BY <2>2, Numbers DEF ReceiveSettings, IInv, AnswersAreNewer
    <3>2. /\ file' \in {file, value} /\ setting' = setting
          /\ held' = [held EXCEPT ![r] = value]
          /\ origin' = [origin EXCEPT ![r] = "server"]
      BY <2>2 DEF ReceiveSettings, LoadEnds, api
    <3>3. Replica!Pull(r) BY <3>1, <3>2 DEF Replica!Pull
    <3> QED BY <3>3 DEF Replica!Next
  <2>3. CASE LoadFails(r, l)
    <3>1. CASE UNCHANGED <<held, origin>>
      BY <2>3, <3>1 DEF LoadFails, FallBack, LoadEnds, api, Replica!vars
    <3>2. CASE ~UNCHANGED <<held, origin>>
      <4>1. Replica!FallBack(r)
        BY <2>3, <3>2 DEF LoadFails, FallBack, LoadEnds, api, Replica!FallBack
      <4> QED BY <4>1 DEF Replica!Next
    <3> QED BY <3>1, <3>2
  <2> QED BY <1>4, <2>1, <2>2, <2>3 DEF Reload
<1> QED BY <1>1, <1>2, <1>3, <1>4 DEF Process

\* The processes of a client implement SettingsReplica: each one moves from a
\* committed version to a newer one, or falls back on the offline file.
THEOREM Refinement == Spec => ImplementsReplica
<1>1. Init => Replica!Init
  BY DEF Init, Replica!Init, Default, Replica!Default
<1>2. IInv /\ [Next]_vars => [Replica!Next]_(Replica!vars)
  <2>1. UNCHANGED vars => UNCHANGED Replica!vars BY DEF vars, Replica!vars
  <2> QED BY <2>1, ApiRefines, ProcessRefines DEF Next
<1> QED BY <1>1, <1>2, Invariance, PTL DEF Spec, Replica!Spec, ImplementsReplica

\* A process never trades values of the API for older ones of the API.
THEOREM NoRegress == Spec => ServerValuesNeverRegress
<1> DEFINE Forward ==
      \A r \in Runs : (origin[r] = "server" /\ origin'[r] = "server") => held'[r] >= held[r]
<1>1. IInv /\ [Replica!Next]_(Replica!vars) => Forward
  <2> SUFFICES ASSUME IInv, [Replica!Next]_(Replica!vars), NEW q \in Runs,
                      origin[q] = "server", origin'[q] = "server"
               PROVE  held'[q] >= held[q]
    OBVIOUS
  <2>1. /\ DOMAIN held = Runs /\ DOMAIN origin = Runs /\ \A r \in Runs : held[r] \in Int
    BY Numbers DEF IInv, TypeOK
  <2>2. CASE UNCHANGED Replica!vars BY <2>1, <2>2 DEF Replica!vars
  <2>3. CASE Replica!Commit \/ Replica!Forget
    BY <2>1, <2>3 DEF Replica!Commit, Replica!Forget
  <2>4. ASSUME NEW r \in Runs, Replica!Pull(r) \/ Replica!FallBack(r) \/ Replica!Leave(r)
        PROVE  held'[q] >= held[q]
    BY <2>1, <2>4 DEF Replica!Pull, Replica!FallBack, Replica!Leave
  <2> QED BY <2>2, <2>3, <2>4 DEF Replica!Next
<1>2. IInv /\ [Next]_vars => [Forward]_vars
  <2>1. UNCHANGED vars => UNCHANGED Replica!vars BY DEF vars, Replica!vars
  <2> QED BY <1>1, <2>1, ApiRefines, ProcessRefines DEF Next
<1> QED BY <1>2, Invariance, PTL DEF Spec, ServerValuesNeverRegress
=============================================================================
