---------------------------- MODULE UpdateEffects ----------------------------
(***************************************************************************)
(* What an update of settings brings about besides the value: the time of  *)
(* the last change (SettingChangeRepository.RegisterChange, one at a time  *)
(* in a process), the web hooks (a queue in memory and its worker) and the *)
(* checkpoint of the time machine (an event, a channel in memory, a row    *)
(* per trigger and a worker in each instance).                             *)
(*                                                                         *)
(* A request commits when it ends; until then others wait for the rows it  *)
(* has written. An update of the scheduling worker has no transaction of   *)
(* its own: each of its writes is committed at once. The queue and the     *)
(* channel know nothing of either.                                         *)
(***************************************************************************)
EXTENDS Naturals, Sequences, FiniteSets, SequencesExt

CONSTANTS
    Instances,      \* instances of the API, each on a machine of its own
    Servers,        \* those that update values
    Updates,        \* updates, each of another client
    Scheduled,      \* those of the scheduling worker
    Hooks,          \* web hooks, each with a client of its own
    Matching,       \* updates of clients that the web hooks match
    None,
    MaxFaults       \* bound: failures, timeouts, crashes and deleted clients of web hooks

ASSUME ServersAssumption == Servers \subseteq Instances
ASSUME UpdatesAssumption == Scheduled \cup Matching \subseteq Updates
ASSUME NoneAssumption == None \notin Instances \cup Updates
ASSUME BoundsAssumption == MaxFaults \in Nat

VARIABLES
    stage,          \* [Updates -> how far an update is]
    host,           \* [Updates -> where it runs]
    saved,          \* updates whose value is committed
    count,          \* [Instances -> count of the semaphore of RegisterChange]
    timedOut,       \* history: instances where a wait for it has timed out
    queue,          \* [Instances -> items of WebHookQueue: an update and its web hooks]
    sending,        \* [Instances -> the item that is processed, and the web hooks whose clients were found]
    sent,           \* [Hooks -> updates that its client was told of]
    forgotten,      \* history: updates and web hooks that a failed look-up, a crash or a missing client
                    \* took away
    channel,        \* [Instances -> triggers in the channel]
    row,            \* [Updates -> row of its trigger]
    worker,         \* [Instances -> the evaluation of TimeMachineWorker]
    checkpoints,    \* checkpoints: after which updates they were made and which they hold
    overlapped,     \* history: triggers that were read by an instance before another had claimed them
    lost,           \* history: updates whose trigger was lost by a failure or a crash
    faults          \* how many of these there were so far

updateVars  == <<stage, host, saved>>
lockVars    == <<count, timedOut>>
hookVars    == <<queue, sending, sent, forgotten>>
triggerVars == <<channel, row, worker, checkpoints, overlapped, lost>>
vars == <<updateVars, lockVars, hookVars, triggerVars, faults>>

NoItem  == [update |-> None, to |-> {}, found |-> {}]
Resting == [stage |-> "resting", toClaim |-> {}, claimed |-> {}, contents |-> {}]

Items       == [update : Updates, to : SUBSET Hooks]
Deliveries  == [update : Updates \cup {None}, to : SUBSET Hooks, found : SUBSET Hooks]
Evaluations == [stage : {"resting", "reading", "claiming", "exporting", "saving"},
                toClaim : SUBSET Updates, claimed : SUBSET Updates, contents : SUBSET Updates]
Stages      == {"idle", "written", "waiting", "inside", "expired", "registered", "published",
                "done", "failed"}

\* Every variable holds values of its kind.
TypeOK ==
    /\ stage \in [Updates -> Stages]
    /\ host \in [Updates -> Instances \cup {None}]
    /\ saved \subseteq Updates
    /\ count \in [Instances -> 0..1] /\ timedOut \subseteq Instances
    /\ queue \in [Instances -> Seq(Items)]
    /\ sending \in [Instances -> Deliveries]
    /\ sent \in [Hooks -> Seq(Updates)]
    /\ forgotten \subseteq Updates \X Hooks
    /\ channel \in [Instances -> Seq(Updates)]
    /\ row \in [Updates -> {"none", "unhandled", "handled", "gone"}]
    /\ worker \in [Instances -> Evaluations]
    /\ checkpoints \subseteq [after : SUBSET Updates, contents : SUBSET Updates]
    /\ overlapped \subseteq Updates /\ lost \subseteq Updates
    /\ faults \in 0..MaxFaults

Init ==
    /\ stage = [u \in Updates |-> "idle"]
    /\ host = [u \in Updates |-> None]
    /\ saved = {}
    /\ count = [a \in Instances |-> 1]
    /\ timedOut = {}
    /\ queue = [a \in Instances |-> <<>>]
    /\ sending = [a \in Instances |-> NoItem]
    /\ sent = [h \in Hooks |-> <<>>]
    /\ forgotten = {}
    /\ channel = [a \in Instances |-> <<>>]
    /\ row = [u \in Updates |-> "none"]
    /\ worker = [a \in Instances |-> Resting]
    /\ checkpoints = {} /\ overlapped = {} /\ lost = {}
    /\ faults = 0

Fault == faults < MaxFaults /\ faults' = faults + 1
To(u, s) == stage' = [stage EXCEPT ![u] = s]

(***************************************************************************)
(* UpdateSettingValues, from the write of the client on.                   *)
(***************************************************************************)

\* The client is written; the value of a scheduled change is committed with that.
UpdateClient(u, a) ==
    /\ stage[u] = "idle"
    /\ To(u, "written")
    /\ host' = [host EXCEPT ![u] = a]
    /\ saved' = saved \cup ({u} \cap Scheduled)
    /\ UNCHANGED <<lockVars, hookVars, triggerVars, faults>>

\* The web hooks that match the client of an update.
HooksOf(u) == IF u \in Matching THEN Hooks ELSE {}

\* SettingValueChanged queues one item for the web hooks that match, if there are any.
SettingValueChanged(u) ==
    /\ stage[u] = "written"
    /\ To(u, "waiting")
    /\ IF u \in Matching
       THEN queue' = [queue EXCEPT ![host[u]] = Append(@, [update |-> u, to |-> HooksOf(u)])]
       ELSE UNCHANGED queue
    /\ UNCHANGED <<host, saved, lockVars, sending, sent, forgotten, triggerVars, faults>>

\* An exception while they are looked up is only logged: nothing is queued, and the update goes on.
QueueingFails(u) ==
    /\ stage[u] = "written"
    /\ Fault
    /\ To(u, "waiting")
    /\ forgotten' = forgotten \cup {<<u, h>> : h \in HooksOf(u)}
    /\ UNCHANGED <<host, saved, lockVars, queue, sending, sent, triggerVars>>

\* Mutant: the semaphore is not taken.
NotTaken(a) == [count EXCEPT ![a] = 1]

\* The semaphore when a wait has succeeded.
Taken(a) == [count EXCEPT ![a] = @ - 1]

\* RegisterChange waits for the semaphore,
EnterRegisterChange(u) ==
    /\ stage[u] = "waiting"
    /\ count[host[u]] > 0
    /\ count' = Taken(host[u])
    /\ To(u, "inside")
    /\ UNCHANGED <<host, saved, timedOut, hookVars, triggerVars, faults>>

\* Release: a semaphore that is full throws and stays so.
Released(a) == [count EXCEPT ![a] = 1]

\* or gives up after five seconds,
TimesOut(u) ==
    /\ stage[u] = "waiting"
    /\ count[host[u]] = 0
    /\ Fault
    /\ To(u, "expired")
    /\ UNCHANGED <<host, saved, lockVars, hookVars, triggerVars>>

\* and releases in its finally what it has not got.
ReleaseExpired(u) ==
    /\ stage[u] = "expired"
    /\ count' = Released(host[u])
    /\ timedOut' = timedOut \cup {a \in {host[u]} : count[a] = 0}
    /\ To(u, "failed")
    /\ UNCHANGED <<host, saved, hookVars, triggerVars, faults>>

\* A request that has written the row of its server keeps it until it ends.
HoldsChangeRow(u) == stage[u] \in {"registered", "published"} /\ u \notin Scheduled

\* The row of the server is written, and the semaphore released, which fails when it is full.
RegisterChange(u) ==
    /\ stage[u] = "inside"
    /\ \A v \in Updates : host[v] = host[u] => ~HoldsChangeRow(v)
    /\ count' = Released(host[u])
    /\ To(u, IF count[host[u]] = 1 THEN "failed" ELSE "registered")
    /\ UNCHANGED <<host, saved, timedOut, hookVars, triggerVars, faults>>

\* The event for the time machine: AddCheckPointTrigger puts it into the channel.
Publish(u) ==
    /\ stage[u] = "registered"
    /\ To(u, "published")
    /\ channel' = [channel EXCEPT ![host[u]] = Append(@, u)]
    /\ UNCHANGED <<host, saved, lockVars, hookVars, row, worker, checkpoints, overlapped, lost, faults>>

\* The transaction commits,
Commit(u) ==
    /\ stage[u] = "published"
    /\ To(u, "done")
    /\ saved' = saved \cup {u}
    /\ UNCHANGED <<host, lockVars, hookVars, triggerVars, faults>>

\* or an exception ends it, from the RegisterChange through its finally.
Fail(u) ==
    /\ stage[u] \in {"written", "inside", "expired", "registered", "published"}
    /\ Fault
    /\ To(u, "failed")
    /\ count' = IF stage[u] = "inside" THEN Released(host[u]) ELSE count
    /\ UNCHANGED <<host, saved, timedOut, hookVars, triggerVars>>

(***************************************************************************)
(* WebHookProcessorWorker.                                                 *)
(***************************************************************************)

\* What is left when an item has been taken.
Dequeued(a) == Tail(queue[a])

\* An item is taken and the clients of its web hooks are read, of which one may have been deleted
\* with its web hook.
DequeueWebHook(a) ==
    /\ sending[a] = NoItem
    /\ queue[a] # <<>>
    /\ \E found \in SUBSET Head(queue[a]).to :
         /\ IF found = Head(queue[a]).to THEN UNCHANGED faults ELSE Fault
         /\ sending' = [sending EXCEPT ![a] = [update |-> Head(queue[a]).update, to |-> Head(queue[a]).to,
                                               found |-> found]]
    /\ queue' = [queue EXCEPT ![a] = Dequeued(a)]
    /\ UNCHANGED <<updateVars, lockVars, sent, forgotten, triggerVars>>

\* Mutant: the rest of an item is dropped when one was sent.
OnlyFirst(a, h) == {}

\* What is left of an item when h was sent, with success or not.
Rest(a, h) == sending[a].to \ {h}

\* A client is told once, whatever it answers,
SendRequest(a, h) ==
    /\ h \in sending[a].to \cap sending[a].found
    /\ sent' = [sent EXCEPT ![h] = Append(@, sending[a].update)]
    /\ sending' = [sending EXCEPT ![a] = IF Rest(a, h) = {} THEN NoItem ELSE [@ EXCEPT !.to = Rest(a, h)]]
    /\ UNCHANGED <<updateVars, lockVars, queue, forgotten, triggerVars, faults>>

\* and one that is not found any more ends the item for those that come after it.
MissingClient(a, h) ==
    /\ h \in sending[a].to \ sending[a].found
    /\ forgotten' = forgotten \cup {<<sending[a].update, g>> : g \in sending[a].to}
    /\ sending' = [sending EXCEPT ![a] = NoItem]
    /\ UNCHANGED <<updateVars, lockVars, queue, sent, triggerVars, faults>>

\* Another exception, of the record in the event log for one, does the same.
ProcessingFails(a) ==
    /\ sending[a] # NoItem
    /\ Fault
    /\ forgotten' = forgotten \cup {<<sending[a].update, g>> : g \in sending[a].to}
    /\ sending' = [sending EXCEPT ![a] = NoItem]
    /\ UNCHANGED <<updateVars, lockVars, queue, sent, triggerVars>>

(***************************************************************************)
(* CheckpointTriggerWorker and TimeMachineWorker.                          *)
(***************************************************************************)

\* A trigger is taken from the channel, and stored.
AddTrigger(a) ==
    /\ channel[a] # <<>>
    /\ channel' = [channel EXCEPT ![a] = Tail(@)]
    /\ row' = [row EXCEPT ![Head(channel[a])] = "unhandled"]
    /\ UNCHANGED <<updateVars, lockVars, hookVars, worker, checkpoints, overlapped, lost, faults>>

\* Storing it fails, and it is dropped.
AddTriggerFails(a) ==
    /\ channel[a] # <<>>
    /\ Fault
    /\ channel' = [channel EXCEPT ![a] = Tail(@)]
    /\ lost' = lost \cup {Head(channel[a])}
    /\ UNCHANGED <<updateVars, lockVars, hookVars, row, worker, checkpoints, overlapped>>

\* Mutant: triggers that nobody has handled are deleted too.
MayDelete(u) == row[u] \in {"unhandled", "handled"}

\* Those that an instance has claimed.
IsHandled(u) == row[u] = "handled"

\* An evaluation deletes the handled triggers (one that would find nothing is left out),
DeleteHandledTriggers(a) ==
    /\ worker[a].stage = "resting"
    /\ \E u \in Updates : row[u] \in {"unhandled", "handled"}
    /\ row' = [u \in Updates |-> IF IsHandled(u) THEN "gone" ELSE row[u]]
    /\ worker' = [worker EXCEPT ![a].stage = "reading"]
    /\ UNCHANGED <<updateVars, lockVars, hookVars, channel, checkpoints, overlapped, lost, faults>>

Unhandled == {u \in Updates : row[u] = "unhandled"}
ToClaim(a) == worker[a].toClaim

\* reads those that nobody has claimed,
GetUnhandledTriggers(a) ==
    /\ worker[a].stage = "reading"
    /\ worker' = [worker EXCEPT ![a] = IF Unhandled = {} THEN Resting
                                       ELSE [@ EXCEPT !.stage = "claiming", !.toClaim = Unhandled]]
    /\ overlapped' = overlapped \cup (Unhandled \cap UNION {ToClaim(b) : b \in Instances \ {a}})
    /\ UNCHANGED <<updateVars, lockVars, hookVars, channel, row, checkpoints, lost, faults>>

\* Mutant: the row does not say who handles it.
ClaimedRow(u) == "unhandled"

\* The row of a trigger that an instance has claimed.
HandledRow(u) == "handled"

\* claims them one by one, whoever has claimed them meanwhile, but for those that are gone,
Claim(a, u) ==
    /\ worker[a].stage = "claiming"
    /\ u \in ToClaim(a)
    /\ LET claimed == worker[a].claimed \cup (IF row[u] = "gone" THEN {} ELSE {u})
           left    == ToClaim(a) \ {u} IN
       worker' = [worker EXCEPT ![a] =
                    IF left # {} THEN [@ EXCEPT !.toClaim = left, !.claimed = claimed]
                    ELSE IF claimed = {} THEN Resting
                    ELSE [Resting EXCEPT !.stage = "exporting", !.claimed = claimed]]
    /\ row' = [row EXCEPT ![u] = IF @ = "gone" THEN @ ELSE HandledRow(u)]
    /\ UNCHANGED <<updateVars, lockVars, hookVars, channel, checkpoints, overlapped, lost, faults>>

\* Mutant: what is not committed is passed over.
NobodyWrites == TRUE

\* No client is written and not committed: what reads all clients has to wait for that.
NoClientIsLocked ==
    \A u \in Updates \ Scheduled : stage[u] \in {"idle", "done", "failed"}

\* exports all clients,
Export(a) ==
    /\ worker[a].stage = "exporting"
    /\ NoClientIsLocked
    /\ worker' = [worker EXCEPT ![a].stage = "saving", ![a].contents = saved]
    /\ UNCHANGED <<updateVars, lockVars, hookVars, channel, row, checkpoints, overlapped, lost, faults>>

\* and stores the checkpoint.
CreateCheckPoint(a) ==
    /\ worker[a].stage = "saving"
    /\ checkpoints' = checkpoints \cup {[after |-> worker[a].claimed, contents |-> worker[a].contents]}
    /\ worker' = [worker EXCEPT ![a] = Resting]
    /\ UNCHANGED <<updateVars, lockVars, hookVars, channel, row, overlapped, lost, faults>>

\* Triggers that only instance a knows of.
ClaimedBy(a) == {u \in worker[a].claimed : row[u] # "unhandled"}

\* An exception ends the evaluation, and what it has claimed stays so.
EvaluationFails(a) ==
    /\ worker[a].stage \in {"claiming", "exporting", "saving"}
    /\ Fault
    /\ worker' = [worker EXCEPT ![a] = Resting]
    /\ lost' = lost \cup ClaimedBy(a)
    /\ UNCHANGED <<updateVars, lockVars, hookVars, channel, row, checkpoints, overlapped>>

\* An instance is killed and starts again: its queue, its channel and its requests are gone.
Crash(a) ==
    /\ Fault
    /\ stage' = [u \in Updates |-> IF host[u] = a /\ stage[u] # "done" THEN "failed" ELSE stage[u]]
    /\ count' = [count EXCEPT ![a] = 1]
    /\ timedOut' = timedOut \ {a}
    /\ forgotten' = forgotten \cup {<<sending[a].update, h>> : h \in sending[a].to}
                              \cup UNION {{<<item.update, h>> : h \in item.to} : item \in ToSet(queue[a])}
    /\ queue' = [queue EXCEPT ![a] = <<>>]
    /\ sending' = [sending EXCEPT ![a] = NoItem]
    /\ lost' = lost \cup ToSet(channel[a]) \cup ClaimedBy(a)
    /\ channel' = [channel EXCEPT ![a] = <<>>]
    /\ worker' = [worker EXCEPT ![a] = Resting]
    /\ UNCHANGED <<host, saved, sent, row, checkpoints, overlapped>>

Request(u) == SettingValueChanged(u) \/ EnterRegisterChange(u) \/ ReleaseExpired(u) \/ RegisterChange(u)
                  \/ Publish(u) \/ Commit(u)
Send(a) == DequeueWebHook(a) \/ (\E h \in Hooks : SendRequest(a, h) \/ MissingClient(a, h))
Evaluate(a) == DeleteHandledTriggers(a) \/ GetUnhandledTriggers(a) \/ (\E u \in Updates : Claim(a, u))
                   \/ Export(a) \/ CreateCheckPoint(a)

Next ==
    \/ \E u \in Updates, a \in Servers : UpdateClient(u, a)
    \/ \E u \in Updates : Request(u) \/ QueueingFails(u) \/ TimesOut(u) \/ Fail(u)
    \/ \E a \in Instances : Send(a) \/ AddTrigger(a) \/ Evaluate(a)
                                \/ ProcessingFails(a) \/ AddTriggerFails(a) \/ EvaluationFails(a) \/ Crash(a)

\* Requests end, by commit or not, and the workers go on.
Fairness ==
    /\ \A u \in Updates : WF_vars(Request(u))
    /\ \A a \in Instances : WF_vars(Send(a)) /\ WF_vars(AddTrigger(a)) /\ WF_vars(Evaluate(a))

Spec == Init /\ [][Next]_vars /\ Fairness

(***************************************************************************)
(* Properties.                                                             *)
(***************************************************************************)

Inside(a) == {u \in Updates : host[u] = a /\ stage[u] = "inside"}

\* RegisterChange is entered by one at a time, and the semaphore is free again after each, unless a
\* wait has timed out, whose release is one too many.
OnlyTimeoutsBreakTheLock == \A a \in Instances : a \in timedOut \/ count[a] + Cardinality(Inside(a)) = 1

\* A checkpoint holds the changes it was made after, although their triggers are stored, and may be
\* handled by any instance, before they are committed.
CheckpointsHoldTheirChanges == \A c \in checkpoints : c.after \cap saved \subseteq c.contents

\* A change has a second checkpoint, be it the same as the first, only if an instance read its trigger
\* before another claimed it.
OneCheckpointPerTrigger ==
    [][\A a \in Instances : CreateCheckPoint(a) =>
          \A c \in checkpoints : c.after \cap worker[a].claimed \subseteq overlapped]_vars

\* A web hook that matches a change that was committed has been sent or will be, unless the look-up
\* of the web hooks failed, which is only logged and does not stop the update, or a crash, a client
\* that was deleted or another exception came while its item waited.
HooksAreAccountedFor ==
    \A u \in Updates : stage[u] = "done" => \A h \in HooksOf(u) :
        \/ u \in ToSet(sent[h]) \/ <<u, h>> \in forgotten
        \/ \E a \in Instances : \/ sending[a].update = u /\ h \in sending[a].to
                                \/ [update |-> u, to |-> HooksOf(u)] \in ToSet(queue[a])

\* Every change that is committed is in a checkpoint in the end, unless its trigger was lost.
ChangesAreCheckpointed ==
    \A u \in Updates : stage[u] = "done" ~> u \in lost \/ (\E c \in checkpoints : u \in c.contents)
=============================================================================
