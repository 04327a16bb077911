-------------------------- MODULE UpdateEffectsProofs --------------------------
(***************************************************************************)
(* Proofs about UpdateEffects, for any instances, updates and web hooks.   *)
(* A trigger is published when its request is about to commit (Published), *)
(* and an export waits for the requests that have not: what a checkpoint   *)
(* is made after is then committed or will never be (Settled).             *)
(* A trigger is in a channel once and becomes unhandled once (Queued), so  *)
(* that instances share one only if they read it together (ReadOnce).      *)
(***************************************************************************)
EXTENDS UpdateEffects, FiniteSetTheorems, TLAPS

\* An update that will be committed no more, if it is not.
Settled(u) == stage[u] \in {"done", "failed"} \/ u \in saved

\* One that has come to its trigger.
Published(u) == stage[u] = "published" \/ Settled(u)

\* What is scheduled is committed as it is written.
SavedAtOnce == \A u \in Scheduled : stage[u] # "idle" => u \in saved

\* Triggers come from updates that have come to publish them.
TriggersArePublished ==
    /\ \A a \in Instances : \A u \in ToSet(channel[a]) : Published(u)
    /\ \A u \in Updates : row[u] # "none" => Published(u)
    /\ \A a \in Instances : \A u \in worker[a].toClaim \cup worker[a].claimed : Published(u)

\* An export settles what it is made for.
ExportsSettle ==
    /\ \A a \in Instances : worker[a].stage = "saving" =>
          \A u \in worker[a].claimed : Settled(u) /\ (u \in saved => u \in worker[a].contents)
    /\ \A c \in checkpoints : \A u \in c.after : Settled(u)

\* An update has a host from the time it is written.
Hosted == \A u \in Updates : IF stage[u] = "idle" THEN host[u] = None ELSE host[u] \in Instances

\* The semaphore, where no wait has timed out: free, or taken by the one inside.
Guarded ==
    \A a \in Instances :
        \/ a \in timedOut
        \/ count[a] = 1 /\ Inside(a) = {}
        \/ count[a] = 0 /\ \E u \in Updates : Inside(a) = {u}

\* An update has come to its web hooks, and no failure has ended it there.
HasQueued(u) == stage[u] \notin {"idle", "written", "failed"}

\* Of an update that goes on after that, no web hook is forgotten silently.
Accounted(u, h) ==
    \/ u \in ToSet(sent[h]) \/ <<u, h>> \in forgotten
    \/ \E a \in Instances : \/ sending[a].update = u /\ h \in sending[a].to
                            \/ [update |-> u, to |-> HooksOf(u)] \in ToSet(queue[a])
HooksKept == \A u \in Updates : HasQueued(u) => \A h \in HooksOf(u) : Accounted(u, h)

\* What is sent is an item of an update.
SendsItems == \A a \in Instances : sending[a] = NoItem \/ sending[a].update \in Updates

IInv ==
    /\ TypeOK /\ SavedAtOnce /\ TriggersArePublished /\ ExportsSettle
    /\ Hosted /\ Guarded /\ SendsItems /\ HooksKept /\ CheckpointsHoldTheirChanges
-----------------------------------------------------------------------------
LEMMA ToSetOfAppend ==
  ASSUME NEW S, NEW s \in Seq(S), NEW x \in S
  PROVE  Append(s, x) \in Seq(S) /\ ToSet(Append(s, x)) = ToSet(s) \cup {x}
  <1>1. /\ Append(s, x) \in Seq(S)
        /\ DOMAIN Append(s, x) = 1..(Len(s) + 1) /\ DOMAIN s = 1..Len(s) /\ Len(s) \in Nat
        /\ Append(s, x)[Len(s) + 1] = x
        /\ \A i \in 1..Len(s) : Append(s, x)[i] = s[i]
    OBVIOUS
  <1> QED
    BY <1>1 DEF ToSet

LEMMA ToSetOfTail ==
  ASSUME NEW S, NEW s \in Seq(S), s # <<>>
  PROVE  /\ Head(s) \in S /\ Tail(s) \in Seq(S)
         /\ ToSet(s) = {Head(s)} \cup ToSet(Tail(s))
  <1>1. /\ Head(s) \in S /\ Tail(s) \in Seq(S) /\ Head(s) = s[1]
        /\ Len(s) \in Nat /\ Len(s) > 0 /\ DOMAIN s = 1..Len(s)
        /\ DOMAIN Tail(s) = 1..(Len(s) - 1)
        /\ \A i \in 1..(Len(s) - 1) : Tail(s)[i] = s[i + 1]
    OBVIOUS
  <1>2. ToSet(s) \subseteq {Head(s)} \cup ToSet(Tail(s))
    <2> SUFFICES ASSUME NEW i \in 1..Len(s) PROVE s[i] \in {Head(s)} \cup ToSet(Tail(s))
      BY <1>1 DEF ToSet
    <2>1. CASE i = 1
      BY <1>1, <2>1
    <2>2. CASE i # 1
      <3>1. i - 1 \in 1..(Len(s) - 1) /\ Tail(s)[i - 1] = s[i]
        BY <1>1, <2>2
      <3> QED
        BY <1>1, <3>1 DEF ToSet
    <2> QED
      BY <2>1, <2>2
  <1>3. {Head(s)} \cup ToSet(Tail(s)) \subseteq ToSet(s)
    <2>1. \A i \in 1..(Len(s) - 1) : i + 1 \in 1..Len(s)
      BY <1>1
    <2> QED
      BY <1>1, <2>1 DEF ToSet
  <1> QED
    BY <1>1, <1>2, <1>3

LEMMA ToSetOfEmpty == ASSUME NEW S PROVE <<>> \in Seq(S) /\ ToSet(<<>>) = {}
  BY DEF ToSet

LEMMA ToSetInSeq == ASSUME NEW S, NEW s \in Seq(S) PROVE ToSet(s) \subseteq S
  BY DEF ToSet

LEMMA Initially == Init => IInv
  <1> SUFFICES ASSUME Init PROVE IInv
    OBVIOUS
  <1> USE DEF Init
  <1>1. NoItem \in Deliveries /\ Resting \in Evaluations
    BY DEF NoItem, Resting, Deliveries, Evaluations
  <1>2. TypeOK
    BY <1>1, ToSetOfEmpty, BoundsAssumption DEF TypeOK, Stages
  <1>3. SavedAtOnce /\ Hosted
    BY UpdatesAssumption DEF SavedAtOnce, Hosted
  <1>4. TriggersArePublished /\ ExportsSettle /\ CheckpointsHoldTheirChanges
    BY ToSetOfEmpty
    DEF TriggersArePublished, ExportsSettle, CheckpointsHoldTheirChanges, Resting
  <1>5. Guarded /\ HooksKept /\ SendsItems
    BY DEF Guarded, Inside, HooksKept, HasQueued, SendsItems
  <1> QED
    BY <1>2, <1>3, <1>4, <1>5 DEF IInv

\* An action of a request, of the web hooks of an instance, or of its checkpoints.
RequestStep(u) ==
    \/ \E a \in Servers : UpdateClient(u, a)
    \/ Request(u) \/ QueueingFails(u) \/ TimesOut(u) \/ Fail(u)
HookStep(a) == Send(a) \/ ProcessingFails(a)
TriggerStep(a) == AddTrigger(a) \/ AddTriggerFails(a) \/ Evaluate(a) \/ EvaluationFails(a)

LEMMA Steps ==
  ASSUME [Next]_vars
  PROVE  \/ UNCHANGED vars
         \/ \E u \in Updates : RequestStep(u)
         \/ \E a \in Instances : HookStep(a) \/ TriggerStep(a) \/ Crash(a)
  BY DEF Next, RequestStep, HookStep, TriggerStep

LEMMA RequestTypes ==
  ASSUME IInv, NEW u \in Updates, RequestStep(u)
  PROVE  TypeOK'
  <1> USE ServersAssumption, BoundsAssumption
      DEF IInv, TypeOK, Stages, Fault, To, updateVars, lockVars, hookVars, triggerVars
  <1>h. stage[u] # "idle" => host[u] \in Instances
    BY DEF Hosted
  <1>1. ASSUME NEW a \in Servers, UpdateClient(u, a) PROVE TypeOK'
    BY <1>1 DEF UpdateClient
  <1>2. CASE SettingValueChanged(u)
    <2>1. [update |-> u, to |-> HooksOf(u)] \in Items
      BY DEF Items, HooksOf
    <2>2. host[u] \in Instances
      BY <1>h, <1>2 DEF SettingValueChanged
    <2>3. Append(queue[host[u]], [update |-> u, to |-> HooksOf(u)]) \in Seq(Items)
      BY <2>1, <2>2, ToSetOfAppend
    <2>4. queue' \in [Instances -> Seq(Items)]
      BY <1>2, <2>2, <2>3 DEF SettingValueChanged
    <2> QED
      BY <1>2, <2>4 DEF SettingValueChanged
  <1>3. CASE EnterRegisterChange(u)
    <2>1. host[u] \in Instances /\ count[host[u]] = 1
      BY <1>h, <1>3 DEF EnterRegisterChange
    <2>2. count' \in [Instances -> 0..1]
      BY <1>3, <2>1 DEF EnterRegisterChange, Taken
    <2> QED
      BY <1>3, <2>2 DEF EnterRegisterChange
  <1>4. CASE TimesOut(u)
    BY <1>4 DEF TimesOut
  <1>5. CASE ReleaseExpired(u)
    BY <1>h, <1>5 DEF ReleaseExpired, Released
  <1>6. CASE RegisterChange(u)
    BY <1>h, <1>6 DEF RegisterChange, Released
  <1>7. CASE Publish(u)
    <2>1. host[u] \in Instances
      BY <1>h, <1>7 DEF Publish
    <2>2. Append(channel[host[u]], u) \in Seq(Updates)
      BY <2>1, ToSetOfAppend
    <2> QED
      BY <1>7, <2>1, <2>2 DEF Publish
  <1>8. CASE Commit(u)
    BY <1>8 DEF Commit
  <1>9. CASE Fail(u)
    <2>1. count' \in [Instances -> 0..1]
      BY <1>h, <1>9 DEF Fail, Released
    <2> QED
      BY <1>9, <2>1 DEF Fail
  <1>10. CASE QueueingFails(u)
    <2>1. forgotten \cup {<<u, h>> : h \in HooksOf(u)} \subseteq Updates \X Hooks
      BY DEF HooksOf
    <2> QED
      BY <1>10, <2>1 DEF QueueingFails
  <1> QED
    BY <1>1, <1>2, <1>3, <1>4, <1>5, <1>6, <1>7, <1>8, <1>9, <1>10 DEF RequestStep, Request

LEMMA HookTypes ==
  ASSUME IInv, NEW a \in Instances, HookStep(a)
  PROVE  TypeOK'
  <1> USE BoundsAssumption
      DEF IInv, TypeOK, Fault, updateVars, lockVars, hookVars, triggerVars
  <1>n. NoItem \in Deliveries
    BY DEF NoItem, Deliveries
  <1>d. \A h \in sending[a].to : sending[a] # NoItem
    BY DEF NoItem
  <1>e. sending[a] # NoItem => sending[a].update \in Updates
    BY DEF SendsItems
  <1>1. CASE DequeueWebHook(a)
    <2>1. queue[a] \in Seq(Items) /\ queue[a] # <<>>
      BY <1>1 DEF DequeueWebHook
    <2>2. Head(queue[a]) \in Items /\ Tail(queue[a]) \in Seq(Items)
      BY <2>1, ToSetOfTail
    <2>3. \A found \in SUBSET Head(queue[a]).to :
            [update |-> Head(queue[a]).update, to |-> Head(queue[a]).to, found |-> found]
               \in Deliveries
      BY <2>2 DEF Items, Deliveries
    <2> QED
      BY <1>1, <2>2, <2>3 DEF DequeueWebHook, Dequeued
  <1>2. ASSUME NEW h \in Hooks, SendRequest(a, h) PROVE TypeOK'
    <2>1. sending[a] \in Deliveries /\ sending[a].update \in Updates
      BY <1>2, <1>d, <1>e DEF SendRequest
    <2>2. [sending[a] EXCEPT !.to = Rest(a, h)] \in Deliveries
      BY <2>1 DEF Deliveries, Rest
    <2>3. Append(sent[h], sending[a].update) \in Seq(Updates)
      BY <2>1, ToSetOfAppend
    <2> QED
      BY <1>2, <1>n, <2>2, <2>3 DEF SendRequest
  <1>3. ASSUME sending[a] # NoItem
        PROVE  forgotten \cup {<<sending[a].update, g>> : g \in sending[a].to}
                  \subseteq Updates \X Hooks
    BY <1>e, <1>3 DEF Deliveries
  <1>4. ASSUME NEW h \in Hooks, MissingClient(a, h) PROVE TypeOK'
    BY <1>n, <1>d, <1>3, <1>4 DEF MissingClient
  <1>5. CASE ProcessingFails(a)
    BY <1>n, <1>3, <1>5 DEF ProcessingFails
  <1> QED
    BY <1>1, <1>2, <1>4, <1>5 DEF HookStep, Send

LEMMA TriggerTypes ==
  ASSUME IInv, NEW a \in Instances, TriggerStep(a)
  PROVE  TypeOK'
  <1> USE BoundsAssumption
      DEF IInv, TypeOK, Fault, updateVars, lockVars, hookVars, triggerVars
  <1>r. Resting \in Evaluations
    BY DEF Resting, Evaluations
  <1>t. channel[a] # <<>> => /\ Head(channel[a]) \in Updates
                             /\ [channel EXCEPT ![a] = Tail(@)] \in [Instances -> Seq(Updates)]
    BY ToSetOfTail
  <1>1. CASE AddTrigger(a)
    BY <1>1, <1>t DEF AddTrigger
  <1>2. CASE AddTriggerFails(a)
    BY <1>2, <1>t DEF AddTriggerFails
  <1>3. CASE DeleteHandledTriggers(a)
    <2>1. row' \in [Updates -> {"none", "unhandled", "handled", "gone"}]
      BY <1>3 DEF DeleteHandledTriggers
    <2>2. [worker[a] EXCEPT !.stage = "reading"] \in Evaluations
      BY DEF Evaluations
    <2> QED
      BY <1>3, <2>1, <2>2 DEF DeleteHandledTriggers
  <1>4. CASE GetUnhandledTriggers(a)
    <2>1. Unhandled \in SUBSET Updates
      BY DEF Unhandled
    <2>2. [worker[a] EXCEPT !.stage = "claiming", !.toClaim = Unhandled] \in Evaluations
      BY <2>1 DEF Evaluations
    <2>3. overlapped' \subseteq Updates
      BY <1>4, <2>1 DEF GetUnhandledTriggers
    <2> QED
      BY <1>4, <1>r, <2>2, <2>3 DEF GetUnhandledTriggers
  <1>5. ASSUME NEW u \in Updates, Claim(a, u) PROVE TypeOK'
    <2> DEFINE claimed == worker[a].claimed \cup (IF row[u] = "gone" THEN {} ELSE {u})
               left    == ToClaim(a) \ {u}
    <2>0. claimed \subseteq Updates /\ left \subseteq Updates
      BY DEF ToClaim, Evaluations
    <2>1. worker' = [worker EXCEPT ![a] =
                    IF left # {} THEN [@ EXCEPT !.toClaim = left, !.claimed = claimed]
                    ELSE IF claimed = {} THEN Resting
                    ELSE [Resting EXCEPT !.stage = "exporting", !.claimed = claimed]]
      BY <1>5 DEF Claim
    <2>4. row' \in [Updates -> {"none", "unhandled", "handled", "gone"}]
      BY <1>5 DEF Claim, HandledRow
    <2> HIDE DEF claimed, left
    <2>2. /\ [worker[a] EXCEPT !.toClaim = left, !.claimed = claimed] \in Evaluations
          /\ [Resting EXCEPT !.stage = "exporting", !.claimed = claimed] \in Evaluations
      BY <2>0, <1>r DEF Evaluations
    <2>3. worker' \in [Instances -> Evaluations]
      BY <2>1, <2>2, <1>r
    <2> QED
      BY <1>5, <2>3, <2>4 DEF Claim
  <1>6. CASE Export(a)
    <2>1. [worker[a] EXCEPT !.stage = "saving", !.contents = saved] \in Evaluations
      BY DEF Evaluations
    <2>2. worker' = [worker EXCEPT ![a] = [worker[a] EXCEPT !.stage = "saving", !.contents = saved]]
      BY <1>6 DEF Export
    <2> QED
      BY <1>6, <2>1, <2>2 DEF Export
  <1>7. CASE CreateCheckPoint(a)
    <2>1. [after |-> worker[a].claimed, contents |-> worker[a].contents]
             \in [after : SUBSET Updates, contents : SUBSET Updates]
      BY DEF Evaluations
    <2> QED
      BY <1>7, <1>r, <2>1 DEF CreateCheckPoint
  <1>8. CASE EvaluationFails(a)
    <2>1. ClaimedBy(a) \subseteq Updates
      BY DEF ClaimedBy, Evaluations
    <2> QED
      BY <1>8, <1>r, <2>1 DEF EvaluationFails
  <1> QED
    BY <1>1, <1>2, <1>3, <1>4, <1>5, <1>6, <1>7, <1>8 DEF TriggerStep, Evaluate

LEMMA CrashTypes ==
  ASSUME IInv, NEW a \in Instances, Crash(a)
  PROVE  TypeOK'
  <1> USE BoundsAssumption
      DEF IInv, TypeOK
  <1>1. /\ stage' \in [Updates -> Stages]
        /\ count' \in [Instances -> 0..1] /\ timedOut' \subseteq Instances
        /\ faults' \in 0..MaxFaults
    BY DEF Crash, Fault, Stages
  <1>2. /\ queue' \in [Instances -> Seq(Items)] /\ channel' \in [Instances -> Seq(Updates)]
        /\ sending' \in [Instances -> Deliveries] /\ worker' \in [Instances -> Evaluations]
    BY ToSetOfEmpty DEF Crash, NoItem, Deliveries, Resting, Evaluations
  <1>3. lost' \subseteq Updates
    BY ToSetInSeq DEF Crash, ClaimedBy, Evaluations
  <1>4. {<<sending[a].update, h>> : h \in sending[a].to} \subseteq Updates \X Hooks
    BY DEF SendsItems, NoItem, Deliveries
  <1>5. \A item \in ToSet(queue[a]) : {<<item.update, h>> : h \in item.to} \subseteq Updates \X Hooks
    <2>1. ToSet(queue[a]) \subseteq Items
      BY ToSetInSeq
    <2> QED
      BY <2>1 DEF Items
  <1>6. forgotten' \subseteq Updates \X Hooks
    BY <1>4, <1>5 DEF Crash
  <1> QED
    BY <1>1, <1>2, <1>3, <1>6 DEF Crash

\* What is settled stays so, and is committed only if it was.
LEMMA SettledForGood ==
  ASSUME IInv, [Next]_vars, NEW u \in Updates
  PROVE  /\ Published(u) => Published(u)'
         /\ Settled(u) => Settled(u)' /\ (u \in saved' => u \in saved)
  <1> USE DEF Published, Settled, updateVars
  <1>t. stage \in [Updates -> Stages] /\ stage[u] \in Stages
    BY DEF IInv, TypeOK
  <1>1. CASE UNCHANGED vars
    BY <1>1 DEF vars
  <1>2. ASSUME NEW v \in Updates, RequestStep(v)
        PROVE  /\ Published(u) => Published(u)'
               /\ Settled(u) => Settled(u)' /\ (u \in saved' => u \in saved)
    BY <1>2, <1>t
    DEF RequestStep, Request, To, UpdateClient, SettingValueChanged, QueueingFails, EnterRegisterChange,
        TimesOut, ReleaseExpired, RegisterChange, Publish, Commit, Fail
  <1>3. ASSUME NEW a \in Instances, HookStep(a) \/ TriggerStep(a) PROVE UNCHANGED <<stage, saved>>
    BY <1>3
    DEF HookStep, Send, DequeueWebHook, SendRequest, MissingClient, ProcessingFails,
        TriggerStep, Evaluate, AddTrigger, AddTriggerFails, DeleteHandledTriggers,
        GetUnhandledTriggers, Claim, Export, CreateCheckPoint, EvaluationFails
  <1>4. ASSUME NEW a \in Instances, Crash(a)
        PROVE  /\ Published(u) => Published(u)'
               /\ Settled(u) => Settled(u)' /\ (u \in saved' => u \in saved)
    BY <1>4 DEF Crash
  <1> QED
    BY <1>1, <1>2, <1>3, <1>4, Steps

LEMMA UpdatesHosted ==
  ASSUME IInv, [Next]_vars
  PROVE  SavedAtOnce' /\ Hosted'
  <1> USE UpdatesAssumption, ServersAssumption DEF SavedAtOnce, Hosted, updateVars
  <1>t. stage \in [Updates -> Stages] /\ host \in [Updates -> Instances \cup {None}]
    BY DEF IInv, TypeOK
  <1>i. SavedAtOnce /\ Hosted
    BY DEF IInv
  <1>1. CASE UNCHANGED vars
    BY <1>1, <1>i DEF vars
  <1>2. ASSUME NEW v \in Updates, RequestStep(v) PROVE SavedAtOnce' /\ Hosted'
    <2>1. CASE \E a \in Servers : UpdateClient(v, a)
      BY <2>1, <1>t, <1>i DEF UpdateClient, To
    <2>2. CASE Request(v) \/ QueueingFails(v) \/ TimesOut(v) \/ Fail(v)
      <3>1. /\ stage[v] # "idle" /\ stage'[v] # "idle" /\ \A u \in Updates : u # v => stage'[u] = stage[u]
            /\ host' = host /\ saved \subseteq saved'
        BY <2>2, <1>t
        DEF Request, To, SettingValueChanged, QueueingFails, EnterRegisterChange,
            TimesOut, ReleaseExpired, RegisterChange, Publish, Commit, Fail
      <3> QED
        BY <3>1, <1>t, <1>i
    <2> QED
      BY <1>2, <2>1, <2>2 DEF RequestStep
  <1>3. ASSUME NEW a \in Instances, HookStep(a) \/ TriggerStep(a)
        PROVE  UNCHANGED <<stage, host, saved>>
    BY <1>3
    DEF HookStep, Send, DequeueWebHook, SendRequest, MissingClient, ProcessingFails,
        TriggerStep, Evaluate, AddTrigger, AddTriggerFails, DeleteHandledTriggers,
        GetUnhandledTriggers, Claim, Export, CreateCheckPoint, EvaluationFails
  <1>4. ASSUME NEW a \in Instances, Crash(a) PROVE SavedAtOnce' /\ Hosted'
    <2>1. \A u \in Updates : stage'[u] # "idle" => stage[u] # "idle" \/ host[u] = a
      BY <1>4, <1>t DEF Crash
    <2>2. \A u \in Updates : host[u] = a => stage[u] # "idle"
      BY <1>i, NoneAssumption
    <2> QED
      BY <1>4, <1>t, <1>i, <2>1, <2>2 DEF Crash
  <1> QED
    BY <1>1, <1>2, <1>3, <1>4, <1>i, Steps

\* Neither the requests nor the hooks touch what the triggers have become.
LEMMA TriggersKept ==
  ASSUME IInv, [Next]_vars
  PROVE  TriggersArePublished'
  <1>p. ASSUME NEW u \in Updates, Published(u) PROVE Published(u)'
    BY <1>p, SettledForGood
  <1>t. /\ stage \in [Updates -> Stages] /\ row \in [Updates -> {"none", "unhandled", "handled", "gone"}]
        /\ host \in [Updates -> Instances \cup {None}]
        /\ channel \in [Instances -> Seq(Updates)] /\ worker \in [Instances -> Evaluations]
    BY DEF IInv, TypeOK
  <1>w. \A a \in Instances : worker[a].toClaim \subseteq Updates /\ worker[a].claimed \subseteq Updates
    BY <1>t DEF Evaluations
  <1>c. \A a \in Instances : ToSet(channel[a]) \subseteq Updates
    BY <1>t, ToSetInSeq
  <1>i. /\ \A a \in Instances : \A u \in ToSet(channel[a]) : Published(u)'
        /\ \A u \in Updates : row[u] # "none" => Published(u)'
        /\ \A a \in Instances : \A u \in worker[a].toClaim \cup worker[a].claimed : Published(u)'
    BY <1>p, <1>w, <1>c DEF IInv, TriggersArePublished
  <1> DEFINE Goal ==
        /\ \A a \in Instances : \A u \in ToSet(channel'[a]) : Published(u)'
        /\ \A u \in Updates : row'[u] # "none" => Published(u)'
        /\ \A a \in Instances : \A u \in worker'[a].toClaim \cup worker'[a].claimed : Published(u)'
  <1>r. Resting.toClaim = {} /\ Resting.claimed = {}
    BY DEF Resting
  <1> DEFINE Quiet == channel' = channel /\ row' = row /\ worker' = worker
  <1>1. ASSUME Quiet PROVE Goal
    <2>1. channel' = channel /\ row' = row /\ worker' = worker
      BY <1>1
    <2> HIDE DEF Quiet
    <2>2. \A a \in Instances : \A u \in ToSet(channel'[a]) : Published(u)'
      BY <1>i, <2>1
    <2>3. \A u \in Updates : row'[u] # "none" => Published(u)'
      BY <1>i, <2>1
    <2>4. \A a \in Instances : \A u \in worker'[a].toClaim \cup worker'[a].claimed : Published(u)'
      BY <1>i, <2>1
    <2> QED
      BY <2>2, <2>3, <2>4
  <1>2. ASSUME NEW u \in Updates, Publish(u) PROVE Goal
    <2>1. host[u] \in Instances
      BY <1>2 DEF IInv, Hosted, Publish
    <2>2. stage'[u] = "published"
      BY <1>2, <1>t DEF Publish, To
    <2>3. channel'[host[u]] = Append(channel[host[u]], u)
          /\ \A a \in Instances : a # host[u] => channel'[a] = channel[a]
      BY <1>2, <1>t, <2>1 DEF Publish
    <2>4. ToSet(channel'[host[u]]) = ToSet(channel[host[u]]) \cup {u}
      BY <2>1, <2>3, <1>t, ToSetOfAppend
    <2>5. Published(u)'
      BY <2>2 DEF Published
    <2>6. \A a \in Instances : \A v \in ToSet(channel'[a]) : Published(v)'
      BY <1>i, <2>1, <2>3, <2>4, <2>5
    <2>7. row' = row /\ worker' = worker
      BY <1>2 DEF Publish
    <2> QED
      BY <1>i, <2>6, <2>7
  <1>3. ASSUME NEW a \in Instances, AddTrigger(a) \/ AddTriggerFails(a) PROVE Goal
    <2>1. /\ channel[a] # <<>> /\ channel' = [channel EXCEPT ![a] = Tail(channel[a])]
          /\ worker' = worker
          /\ \A u \in Updates : row'[u] # "none" => row[u] # "none" \/ u = Head(channel[a])
      BY <1>3, <1>t DEF AddTrigger, AddTriggerFails
    <2>2. ToSet(channel[a]) = {Head(channel[a])} \cup ToSet(Tail(channel[a]))
      BY <2>1, <1>t, ToSetOfTail
    <2> QED
      BY <1>t, <1>i, <2>1, <2>2
  <1>4. ASSUME NEW a \in Instances, Evaluate(a) \/ EvaluationFails(a) PROVE Goal
    <2>1. channel' = channel
      BY <1>4 DEF Evaluate, DeleteHandledTriggers, GetUnhandledTriggers, Claim, Export,
                  CreateCheckPoint, EvaluationFails
    <2>2. \A u \in Updates : row'[u] # "none" => row[u] # "none" \/ u \in worker[a].toClaim
      BY <1>4, <1>t DEF Evaluate, DeleteHandledTriggers, IsHandled, GetUnhandledTriggers, Claim, ToClaim,
                        Export, CreateCheckPoint, EvaluationFails
    <2>3. \A b \in Instances : b # a => worker'[b] = worker[b]
      BY <1>4, <1>t DEF Evaluate, DeleteHandledTriggers, GetUnhandledTriggers, Claim, Export,
                  CreateCheckPoint, EvaluationFails
    <2>4. ASSUME NEW u \in worker'[a].toClaim \cup worker'[a].claimed
          PROVE  \/ u \in worker[a].toClaim \cup worker[a].claimed
                 \/ u \in Updates /\ row[u] = "unhandled"
      <3>1. CASE DeleteHandledTriggers(a)
        BY <3>1, <2>4, <1>t DEF DeleteHandledTriggers, Evaluations
      <3>2. CASE GetUnhandledTriggers(a)
        BY <3>2, <2>4, <1>t, <1>r DEF GetUnhandledTriggers, Unhandled, Evaluations
      <3>3. ASSUME NEW v \in Updates, Claim(a, v) PROVE u \in worker[a].toClaim \cup worker[a].claimed
        <4> DEFINE claimed == worker[a].claimed \cup (IF row[v] = "gone" THEN {} ELSE {v})
                   left    == ToClaim(a) \ {v}
        <4>1. claimed \cup left \subseteq worker[a].toClaim \cup worker[a].claimed
          BY <3>3 DEF Claim, ToClaim
        <4>2. worker' = [worker EXCEPT ![a] =
                    IF left # {} THEN [@ EXCEPT !.toClaim = left, !.claimed = claimed]
                    ELSE IF claimed = {} THEN Resting
                    ELSE [Resting EXCEPT !.stage = "exporting", !.claimed = claimed]]
          BY <3>3 DEF Claim
        <4> HIDE DEF claimed, left
        <4>3. /\ [Resting EXCEPT !.stage = "exporting", !.claimed = claimed].toClaim = {}
              /\ [Resting EXCEPT !.stage = "exporting", !.claimed = claimed].claimed = claimed
          BY DEF Resting
        <4>4. worker[a] \in Evaluations
          BY <1>t
        <4>5. /\ [worker[a] EXCEPT !.toClaim = left, !.claimed = claimed].toClaim = left
              /\ [worker[a] EXCEPT !.toClaim = left, !.claimed = claimed].claimed = claimed
          BY <4>4 DEF Evaluations
        <4>6. worker'[a].toClaim \cup worker'[a].claimed \subseteq left \cup claimed
          BY <1>t, <1>r, <4>2, <4>3, <4>5
        <4> QED
          BY <2>4, <4>1, <4>6
      <3>4. CASE Export(a)
        BY <3>4, <2>4, <1>t DEF Export, Evaluations
      <3>5. CASE CreateCheckPoint(a) \/ EvaluationFails(a)
        BY <3>5, <2>4, <1>t, <1>r DEF CreateCheckPoint, EvaluationFails
      <3> QED
        BY <1>4, <3>1, <3>2, <3>3, <3>4, <3>5 DEF Evaluate
    <2>5. \A b \in Instances : \A u \in worker'[b].toClaim \cup worker'[b].claimed : Published(u)'
      BY <1>i, <2>3, <2>4
    <2> QED
      BY <1>i, <2>1, <2>2, <2>5
  <1>5. ASSUME NEW a \in Instances, Crash(a) PROVE Goal
    <2>1. row' = row /\ channel' = [channel EXCEPT ![a] = <<>>] /\ worker' = [worker EXCEPT ![a] = Resting]
      BY <1>5 DEF Crash
    <2> QED
      BY <1>t, <1>i, <1>r, <2>1, ToSetOfEmpty
  <1>6. ASSUME NEW u \in Updates, RequestStep(u) PROVE Publish(u) \/ Quiet
    BY <1>6
    DEF RequestStep, Request, UpdateClient, SettingValueChanged, QueueingFails, EnterRegisterChange,
        TimesOut, ReleaseExpired, RegisterChange, Commit, Fail, triggerVars
  <1>7. ASSUME NEW a \in Instances, HookStep(a) PROVE Quiet
    BY <1>7 DEF HookStep, Send, DequeueWebHook, SendRequest, MissingClient, ProcessingFails, triggerVars
  <1>8. ASSUME UNCHANGED vars PROVE Quiet
    BY <1>8 DEF vars, triggerVars
  <1> HIDE DEF Goal, Quiet
  <1>9. Goal
    BY <1>1, <1>2, <1>3, <1>4, <1>5, <1>6, <1>7, <1>8, Steps DEF TriggerStep
  <1> QED
    BY <1>9 DEF Goal, TriggersArePublished

LEMMA ExportsKept ==
  ASSUME IInv, [Next]_vars
  PROVE  ExportsSettle' /\ CheckpointsHoldTheirChanges'
  <1> DEFINE Holds(c) == \A u \in c.after : Settled(u)' /\ (u \in saved' => u \in c.contents)
             Made(w) == [after |-> w.claimed, contents |-> w.contents]
             Goal ==
               /\ \A a \in Instances : worker'[a].stage = "saving" => Holds(Made(worker'[a]))
               /\ \A c \in checkpoints' : Holds(c)
  <1>t. /\ stage \in [Updates -> Stages] /\ saved \subseteq Updates
        /\ worker \in [Instances -> Evaluations]
        /\ checkpoints \subseteq [after : SUBSET Updates, contents : SUBSET Updates]
    BY DEF IInv, TypeOK
  <1>g. ASSUME Goal PROVE ExportsSettle' /\ CheckpointsHoldTheirChanges'
    BY <1>g DEF ExportsSettle, CheckpointsHoldTheirChanges
  <1>s. \A u \in Updates : Settled(u) => Settled(u)' /\ (u \in saved' => u \in saved)
    BY SettledForGood
  <1>i. /\ \A a \in Instances : worker[a].stage = "saving" => Holds(Made(worker[a]))
        /\ \A c \in checkpoints : Holds(c)
    <2>1. ASSUME NEW a \in Instances, worker[a].stage = "saving" PROVE Holds(Made(worker[a]))
      <3>1. worker[a].claimed \subseteq Updates
        BY <1>t DEF Evaluations
      <3>2. \A u \in worker[a].claimed : Settled(u) /\ (u \in saved => u \in worker[a].contents)
        BY <2>1 DEF IInv, ExportsSettle
      <3> QED
        BY <1>s, <3>1, <3>2
    <2>2. ASSUME NEW c \in checkpoints PROVE Holds(c)
      <3>1. c.after \subseteq Updates
        BY <1>t
      <3>2. \A u \in c.after : Settled(u) /\ (u \in saved => u \in c.contents)
        BY DEF IInv, ExportsSettle, CheckpointsHoldTheirChanges
      <3> QED
        BY <1>s, <3>1, <3>2
    <2> QED
      BY <2>1, <2>2
  <1>r. Resting.stage # "saving"
    BY DEF Resting
  <1> DEFINE Quiet == worker' = worker /\ checkpoints' = checkpoints
             Ends(a) == /\ checkpoints' = checkpoints
                        /\ worker'[a].stage # "saving"
                        /\ \A b \in Instances : b # a => worker'[b] = worker[b]
  <1>1. ASSUME Quiet PROVE Goal
    <2>1. worker' = worker /\ checkpoints' = checkpoints
      BY <1>1
    <2> HIDE DEF Holds, Made, Quiet
    <2> QED
      BY <1>i, <2>1
  <1>2. ASSUME NEW a \in Instances, Ends(a) PROVE Goal
    <2> HIDE DEF Holds, Made
    <2> QED
      BY <1>i, <1>2
  <1>3. ASSUME NEW a \in Instances, Export(a) PROVE Goal
    <2>1. /\ checkpoints' = checkpoints /\ saved' = saved /\ stage' = stage
          /\ worker' = [worker EXCEPT ![a] = [worker[a] EXCEPT !.stage = "saving", !.contents = saved]]
      BY <1>3 DEF Export, updateVars
    <2>2. worker'[a].claimed = worker[a].claimed /\ worker'[a].contents = saved
      BY <1>t, <2>1 DEF Evaluations
    <2>3. \A u \in worker[a].claimed : u \in Updates /\ Published(u)
      BY <1>t DEF IInv, TriggersArePublished, Evaluations
    <2>4. ASSUME NEW u \in worker[a].claimed PROVE Settled(u)
      <3>1. CASE u \in Scheduled
        <4>1. stage[u] = "published" => u \in saved
          BY <3>1 DEF IInv, SavedAtOnce
        <4> QED
          BY <2>3, <4>1 DEF Published, Settled
      <3>2. CASE u \notin Scheduled
        BY <1>3, <2>3, <3>2 DEF Export, NoClientIsLocked, Published, Settled
      <3> QED
        BY <3>1, <3>2
    <2>5. Holds(Made(worker'[a]))
      BY <1>s, <2>1, <2>2, <2>3, <2>4
    <2>6. \A b \in Instances : b # a => worker'[b] = worker[b]
      BY <1>t, <2>1
    <2> HIDE DEF Holds, Made
    <2> QED
      BY <1>i, <2>1, <2>5, <2>6
  <1>4. ASSUME NEW a \in Instances, CreateCheckPoint(a) PROVE Goal
    <2>1. /\ checkpoints' = checkpoints \cup {Made(worker[a])} /\ worker[a].stage = "saving"
          /\ worker' = [worker EXCEPT ![a] = Resting]
      BY <1>4 DEF CreateCheckPoint
    <2>2. worker'[a] = Resting /\ \A b \in Instances : b # a => worker'[b] = worker[b]
      BY <1>t, <2>1
    <2> HIDE DEF Holds, Made
    <2> QED
      BY <1>i, <1>r, <2>1, <2>2
  <1>5. ASSUME NEW a \in Instances, AddTrigger(a) \/ AddTriggerFails(a) \/ HookStep(a) PROVE Quiet
    BY <1>5 DEF AddTrigger, AddTriggerFails, HookStep, Send, DequeueWebHook, SendRequest, MissingClient,
                ProcessingFails, triggerVars
  <1>6. ASSUME NEW a \in Instances, DeleteHandledTriggers(a) PROVE Ends(a)
    <2>1. /\ worker' = [worker EXCEPT ![a] = [worker[a] EXCEPT !.stage = "reading"]]
          /\ checkpoints' = checkpoints
      BY <1>6 DEF DeleteHandledTriggers
    <2> QED
      BY <1>t, <2>1 DEF Evaluations
  <1>7. ASSUME NEW a \in Instances, GetUnhandledTriggers(a) PROVE Ends(a)
    <2>1. /\ worker' = [worker EXCEPT ![a] =
                IF Unhandled = {} THEN Resting
                ELSE [worker[a] EXCEPT !.stage = "claiming", !.toClaim = Unhandled]]
          /\ checkpoints' = checkpoints
      BY <1>7 DEF GetUnhandledTriggers
    <2> QED
      BY <1>t, <1>r, <2>1 DEF Evaluations
  <1>8. ASSUME NEW a \in Instances, NEW v \in Updates, Claim(a, v) PROVE Ends(a)
    <2>1. PICK claimed, left : worker' = [worker EXCEPT ![a] =
                    IF left # {} THEN [worker[a] EXCEPT !.toClaim = left, !.claimed = claimed]
                    ELSE IF claimed = {} THEN Resting
                    ELSE [Resting EXCEPT !.stage = "exporting", !.claimed = claimed]]
      BY <1>8 DEF Claim
    <2>2. checkpoints' = checkpoints /\ worker[a].stage = "claiming"
      BY <1>8 DEF Claim
    <2>3. [Resting EXCEPT !.stage = "exporting", !.claimed = claimed].stage = "exporting"
      BY DEF Resting
    <2>4. [worker[a] EXCEPT !.toClaim = left, !.claimed = claimed].stage = "claiming"
      BY <1>t, <2>2 DEF Evaluations
    <2> QED
      BY <1>t, <1>r, <2>1, <2>2, <2>3, <2>4
  <1>9. ASSUME NEW a \in Instances, EvaluationFails(a) \/ Crash(a) PROVE Ends(a)
    BY <1>t, <1>r, <1>9 DEF EvaluationFails, Crash
  <1>10. ASSUME NEW u \in Updates, RequestStep(u) PROVE Quiet
    BY <1>10
    DEF RequestStep, Request, UpdateClient, SettingValueChanged, QueueingFails, EnterRegisterChange,
        TimesOut, ReleaseExpired, RegisterChange, Publish, Commit, Fail, triggerVars
  <1>11. ASSUME UNCHANGED vars PROVE Quiet
    BY <1>11 DEF vars, triggerVars
  <1> HIDE DEF Goal, Quiet, Ends, Holds, Made
  <1>12. ASSUME NEW a \in Instances, TriggerStep(a) PROVE Goal
    BY <1>1, <1>2, <1>3, <1>4, <1>5, <1>6, <1>7, <1>8, <1>9, <1>12 DEF TriggerStep, Evaluate
  <1>13. ASSUME NEW a \in Instances, HookStep(a) \/ Crash(a) PROVE Goal
    BY <1>1, <1>2, <1>5, <1>9, <1>13
  <1> QED
    BY <1>1, <1>10, <1>11, <1>12, <1>13, <1>g, Steps

\* The semaphore of one instance, when c is its count and in who is inside.
Semaphore(c, in) == (c = 1 /\ in = {}) \/ (c = 0 /\ \E u \in Updates : in = {u})

LEMMA LockKept ==
  ASSUME IInv, [Next]_vars
  PROVE  Guarded'
  <1>t. /\ stage \in [Updates -> Stages] /\ host \in [Updates -> Instances \cup {None}]
        /\ count \in [Instances -> 0..1] /\ timedOut \subseteq Instances
    BY DEF IInv, TypeOK
  <1>h. \A u \in Updates : stage[u] # "idle" => host[u] \in Instances
    BY DEF IInv, Hosted
  <1>i. \A a \in Instances : a \in timedOut \/ Semaphore(count[a], Inside(a))
    BY DEF IInv, Guarded, Semaphore
  <1> DEFINE Kept(a) == a \in timedOut' \/ Semaphore(count'[a], Inside(a)')
             Quiet(a) == /\ a \in timedOut => a \in timedOut'
                         /\ count'[a] = count[a] /\ Inside(a)' = Inside(a)
  <1>g. ASSUME \A a \in Instances : Kept(a) PROVE Guarded'
    BY <1>g DEF Guarded, Semaphore
  <1>q. ASSUME NEW a \in Instances, Quiet(a) PROVE Kept(a)
    BY <1>i, <1>q
  \* An update that is not inside, and does not get in, does nothing to the semaphores it leaves alone.
  <1>o. ASSUME NEW u \in Updates,
               \A v \in Updates : v # u => stage'[v] = stage[v] /\ host'[v] = host[v],
               stage[u] # "inside", stage'[u] # "inside",
               NEW a \in Instances
        PROVE  Inside(a)' = Inside(a)
    <2>1. \A v \in Updates : host'[v] = a /\ stage'[v] = "inside" <=> host[v] = a /\ stage[v] = "inside"
      BY <1>o
    <2> QED
      BY <2>1 DEF Inside
  <1>1. ASSUME NEW u \in Updates, NEW a \in Instances,
               \/ \E b \in Servers : UpdateClient(u, b)
               \/ SettingValueChanged(u) \/ QueueingFails(u) \/ TimesOut(u) \/ Publish(u) \/ Commit(u)
        PROVE  Quiet(a)
    <2>1. /\ stage[u] # "inside" /\ stage'[u] # "inside"
          /\ \A v \in Updates : v # u => stage'[v] = stage[v] /\ host'[v] = host[v]
          /\ UNCHANGED <<count, timedOut>>
      BY <1>1, <1>t
      DEF UpdateClient, SettingValueChanged, QueueingFails, TimesOut, Publish, Commit, To, lockVars
    <2> QED
      BY <1>o, <2>1
  <1>2. ASSUME NEW u \in Updates, NEW a \in Instances, EnterRegisterChange(u) PROVE Kept(a)
    <2>1. /\ stage[u] = "waiting" /\ stage'[u] = "inside" /\ host[u] \in Instances
          /\ \A v \in Updates : v # u => stage'[v] = stage[v]
          /\ host' = host /\ timedOut' = timedOut
          /\ count[host[u]] = 1 /\ count'[host[u]] = 0
          /\ \A b \in Instances : b # host[u] => count'[b] = count[b]
      BY <1>t, <1>h, <1>2 DEF EnterRegisterChange, Taken, To
    <2>2. CASE a = host[u]
      <3>1. Inside(a)' = Inside(a) \cup {u}
        BY <2>1, <2>2 DEF Inside
      <3> QED
        BY <1>i, <2>1, <2>2, <3>1 DEF Semaphore
    <2>3. CASE a # host[u]
      <3>1. Inside(a)' = Inside(a)
        BY <2>1, <2>3 DEF Inside
      <3> QED
        BY <1>i, <2>1, <2>3, <3>1
    <2> QED
      BY <2>2, <2>3
  <1>3. ASSUME NEW u \in Updates, NEW a \in Instances, ReleaseExpired(u) PROVE Kept(a)
    <2>1. /\ stage[u] # "inside" /\ stage'[u] # "inside" /\ host[u] \in Instances
          /\ \A v \in Updates : v # u => stage'[v] = stage[v] /\ host'[v] = host[v]
          /\ count' = [count EXCEPT ![host[u]] = 1]
          /\ timedOut' = timedOut \cup {b \in {host[u]} : count[b] = 0}
      BY <1>t, <1>h, <1>3 DEF ReleaseExpired, Released, To
    <2>2. Inside(a)' = Inside(a)
      BY <1>o, <2>1
    <2>3. CASE a = host[u]
      <3>1. count[a] = 0 => a \in timedOut'
        BY <2>1, <2>3
      <3>2. count[a] # 0 => count'[a] = count[a]
        BY <1>t, <2>1, <2>3
      <3>3. a \in timedOut => a \in timedOut'
        BY <2>1
      <3> QED
        BY <1>i, <2>2, <3>1, <3>2, <3>3
    <2>4. CASE a # host[u]
      BY <1>t, <1>i, <2>1, <2>2, <2>4
    <2> QED
      BY <2>3, <2>4
  <1>4. ASSUME NEW u \in Updates, NEW a \in Instances,
               RegisterChange(u) \/ (Fail(u) /\ stage[u] = "inside")
        PROVE  Kept(a)
    <2>1. /\ stage[u] = "inside" /\ stage'[u] # "inside" /\ host[u] \in Instances
          /\ \A v \in Updates : v # u => stage'[v] = stage[v]
          /\ host' = host /\ timedOut' = timedOut
          /\ count' = [count EXCEPT ![host[u]] = 1]
      BY <1>t, <1>h, <1>4 DEF RegisterChange, Fail, Released, To
    <2>2. CASE a = host[u]
      <3>1. a \in timedOut \/ Inside(a) = {u}
        <4>1. u \in Inside(a)
          BY <2>1, <2>2 DEF Inside
        <4> QED
          BY <1>i, <4>1 DEF Semaphore
      <3>2. Inside(a)' = Inside(a) \ {u}
        BY <2>1 DEF Inside
      <3>3. count'[a] = 1
        BY <1>t, <2>1, <2>2
      <3> QED
        BY <2>1, <3>1, <3>2, <3>3 DEF Semaphore
    <2>3. CASE a # host[u]
      <3>1. count'[a] = count[a]
        BY <1>t, <2>1, <2>3
      <3>2. \A v \in Updates : host'[v] = a /\ stage'[v] = "inside" <=> host[v] = a /\ stage[v] = "inside"
        BY <2>1, <2>3
      <3>3. Inside(a)' = Inside(a)
        BY <3>2 DEF Inside
      <3> QED
        BY <1>i, <2>1, <3>1, <3>3
    <2> QED
      BY <2>2, <2>3
  <1>5. ASSUME NEW u \in Updates, NEW a \in Instances, Fail(u), stage[u] # "inside" PROVE Quiet(a)
    <2>1. /\ stage'[u] # "inside"
          /\ \A v \in Updates : v # u => stage'[v] = stage[v] /\ host'[v] = host[v]
          /\ UNCHANGED <<count, timedOut>>
      BY <1>5, <1>t DEF Fail, To
    <2> QED
      BY <1>o, <1>5, <2>1
  <1>6. ASSUME NEW a \in Instances, NEW b \in Instances, HookStep(b) \/ TriggerStep(b) PROVE Quiet(a)
    <2>1. UNCHANGED <<stage, host, count, timedOut>>
      BY <1>6
      DEF HookStep, Send, DequeueWebHook, SendRequest, MissingClient, ProcessingFails,
          TriggerStep, Evaluate, AddTrigger, AddTriggerFails, DeleteHandledTriggers,
          GetUnhandledTriggers, Claim, Export, CreateCheckPoint, EvaluationFails,
          updateVars, lockVars
    <2> QED
      BY <2>1 DEF Inside
  <1>7. ASSUME NEW a \in Instances, NEW b \in Instances, Crash(b) PROVE Kept(a)
    <2>1. /\ stage' = [u \in Updates |-> IF host[u] = b /\ stage[u] # "done" THEN "failed" ELSE stage[u]]
          /\ count' = [count EXCEPT ![b] = 1] /\ timedOut' = timedOut \ {b} /\ host' = host
      BY <1>7 DEF Crash
    <2>2. CASE a = b
      <3>1. Inside(a)' = {}
        BY <2>1, <2>2 DEF Inside
      <3>2. count'[a] = 1
        BY <1>t, <2>1, <2>2
      <3> QED
        BY <3>1, <3>2 DEF Semaphore
    <2>3. CASE a # b
      <3>3. \A v \in Updates : host'[v] = a /\ stage'[v] = "inside" <=> host[v] = a /\ stage[v] = "inside"
        BY <2>1, <2>3
      <3>1. Inside(a)' = Inside(a)
        BY <3>3 DEF Inside
      <3>2. count'[a] = count[a] /\ (a \in timedOut => a \in timedOut')
        BY <1>t, <2>1, <2>3
      <3> QED
        BY <1>i, <3>1, <3>2
    <2> QED
      BY <2>2, <2>3
  <1>8. ASSUME UNCHANGED vars, NEW a \in Instances PROVE Quiet(a)
    BY <1>8 DEF vars, updateVars, lockVars, Inside
  <1> HIDE DEF Kept, Quiet
  <1>9. ASSUME NEW u \in Updates, RequestStep(u), NEW a \in Instances PROVE Kept(a)
    BY <1>q, <1>1, <1>2, <1>3, <1>4, <1>5, <1>9 DEF RequestStep, Request
  <1> QED
    BY <1>q, <1>6, <1>7, <1>8, <1>9, <1>g, Steps

LEMMA SendsKept ==
  ASSUME IInv, [Next]_vars
  PROVE  SendsItems'
  <1>t. queue \in [Instances -> Seq(Items)] /\ sending \in [Instances -> Deliveries]
    BY DEF IInv, TypeOK
  <1>i. SendsItems
    BY DEF IInv
  <1>1. ASSUME NEW a \in Instances, DequeueWebHook(a) PROVE SendsItems'
    <2>1. Head(queue[a]) \in Items
      BY <1>t, <1>1, ToSetOfTail DEF DequeueWebHook
    <2>2. /\ sending'[a].update = Head(queue[a]).update
          /\ \A b \in Instances : b # a => sending'[b] = sending[b]
      BY <1>t, <1>1 DEF DequeueWebHook
    <2> QED
      BY <1>i, <2>1, <2>2 DEF SendsItems, Items
  <1>2. ASSUME NEW a \in Instances, NEW h \in Hooks, SendRequest(a, h) PROVE SendsItems'
    <2>1. sending[a].update \in Updates
      BY <1>i, <1>2 DEF SendRequest, SendsItems, NoItem
    <2>2. \/ sending'[a] = NoItem
          \/ sending'[a] = [sending[a] EXCEPT !.to = Rest(a, h)]
      BY <1>t, <1>2 DEF SendRequest
    <2>3. [sending[a] EXCEPT !.to = Rest(a, h)].update = sending[a].update
      BY <1>t DEF Deliveries
    <2>4. \A b \in Instances : b # a => sending'[b] = sending[b]
      BY <1>t, <1>2 DEF SendRequest
    <2> QED
      BY <1>i, <2>1, <2>2, <2>3, <2>4 DEF SendsItems
  <1>3. ASSUME NEW a \in Instances,
               (\E h \in Hooks : MissingClient(a, h)) \/ ProcessingFails(a) \/ Crash(a)
        PROVE  SendsItems'
    BY <1>t, <1>i, <1>3 DEF MissingClient, ProcessingFails, Crash, SendsItems
  <1>4. ASSUME sending' = sending PROVE SendsItems'
    BY <1>i, <1>4 DEF SendsItems
  <1>5. ASSUME NEW u \in Updates, RequestStep(u) PROVE sending' = sending
    BY <1>5
    DEF RequestStep, Request, UpdateClient, SettingValueChanged, QueueingFails, EnterRegisterChange,
        TimesOut, ReleaseExpired, RegisterChange, Publish, Commit, Fail, hookVars
  <1>6. ASSUME NEW a \in Instances, TriggerStep(a) PROVE sending' = sending
    BY <1>6
    DEF TriggerStep, Evaluate, AddTrigger, AddTriggerFails, DeleteHandledTriggers,
        GetUnhandledTriggers, Claim, Export, CreateCheckPoint, EvaluationFails, hookVars
  <1>7. ASSUME NEW a \in Instances, HookStep(a) PROVE SendsItems'
    BY <1>1, <1>2, <1>3, <1>7 DEF HookStep, Send
  <1> QED
    BY <1>3, <1>4, <1>5, <1>6, <1>7, Steps DEF vars, hookVars

LEMMA HooksKeptByRequests ==
  ASSUME IInv, NEW u \in Updates, RequestStep(u)
  PROVE  HooksKept'
  <1> USE DEF HooksOf
  <1>t. /\ stage \in [Updates -> Stages] /\ host \in [Updates -> Instances \cup {None}]
        /\ queue \in [Instances -> Seq(Items)]
    BY DEF IInv, TypeOK
  <1>i. HooksKept
    BY DEF IInv
  <1>s. UNCHANGED <<sending, sent>>
    BY
    DEF RequestStep, Request, UpdateClient, SettingValueChanged, QueueingFails, EnterRegisterChange,
        TimesOut, ReleaseExpired, RegisterChange, Publish, Commit, Fail, hookVars
  <1>f. ASSUME NEW v \in Updates, HasQueued(v)'
        PROVE  HasQueued(v) \/ (v = u /\ (SettingValueChanged(u) \/ QueueingFails(u)))
    BY <1>t, <1>f
    DEF RequestStep, Request, UpdateClient, SettingValueChanged, QueueingFails, EnterRegisterChange,
        TimesOut, ReleaseExpired, RegisterChange, Publish, Commit, Fail, To, HasQueued
  <1> SUFFICES ASSUME NEW v \in Updates, HasQueued(v)', NEW h \in HooksOf(v)
               PROVE  Accounted(v, h)'
    BY DEF HooksKept
  <1>1. CASE SettingValueChanged(u) /\ u \in Matching
    <2> DEFINE item == [update |-> u, to |-> HooksOf(u)]
    <2>1. /\ host[u] \in Instances /\ ~HasQueued(u) /\ forgotten' = forgotten
          /\ queue' = [queue EXCEPT ![host[u]] = Append(queue[host[u]], item)]
      BY <1>1 DEF IInv, Hosted, HasQueued, SettingValueChanged
    <2>2. item \in Items
      BY DEF Items
    <2> HIDE DEF item
    <2>3. ToSet(queue'[host[u]]) = ToSet(queue[host[u]]) \cup {item}
      BY <1>t, <2>1, <2>2, ToSetOfAppend
    <2>4. \A a \in Instances : ToSet(queue[a]) \subseteq ToSet(queue'[a])
      BY <1>t, <2>1, <2>3
    <2>5. CASE v = u
      BY <2>1, <2>3, <2>5 DEF Accounted, item
    <2>6. CASE v # u
      <3>1. Accounted(v, h)
        BY <1>i, <1>f, <2>6 DEF HooksKept
      <3> QED
        BY <1>s, <2>1, <2>4, <3>1 DEF Accounted
    <2> QED
      BY <2>5, <2>6
  <1>2. CASE QueueingFails(u)
    <2>1. queue' = queue /\ forgotten' = forgotten \cup {<<u, g>> : g \in HooksOf(u)}
      BY <1>2 DEF QueueingFails
    <2>2. CASE v = u
      BY <2>1, <2>2 DEF Accounted
    <2>3. CASE v # u
      <3>1. Accounted(v, h)
        BY <1>i, <1>f, <2>3 DEF HooksKept
      <3> QED
        BY <1>s, <2>1, <3>1 DEF Accounted
    <2> QED
      BY <2>2, <2>3
  <1>3. CASE ~(SettingValueChanged(u) /\ u \in Matching) /\ ~QueueingFails(u)
    <2>1. UNCHANGED <<queue, forgotten>>
      BY <1>3
      DEF RequestStep, Request, UpdateClient, SettingValueChanged, QueueingFails, EnterRegisterChange,
          TimesOut, ReleaseExpired, RegisterChange, Publish, Commit, Fail, hookVars
    <2>2. HasQueued(v)
      BY <1>f, <1>3
    <2>3. Accounted(v, h)
      BY <1>i, <2>2 DEF HooksKept
    <2> QED
      BY <1>s, <2>1, <2>3 DEF Accounted
  <1> QED
    BY <1>1, <1>2, <1>3

LEMMA HooksKeptByWorkers ==
  ASSUME IInv, NEW a \in Instances, HookStep(a) \/ Crash(a)
  PROVE  HooksKept'
  <1> USE DEF HooksOf
  <1>t. /\ stage \in [Updates -> Stages]
        /\ queue \in [Instances -> Seq(Items)] /\ sending \in [Instances -> Deliveries]
        /\ sent \in [Hooks -> Seq(Updates)]
    BY DEF IInv, TypeOK
  <1>i. HooksKept /\ SendsItems
    BY DEF IInv
  <1>f. ASSUME NEW v \in Updates, HasQueued(v)' PROVE HasQueued(v)
    BY <1>t, <1>f
    DEF HookStep, Send, DequeueWebHook, SendRequest, MissingClient, ProcessingFails, Crash, updateVars,
        HasQueued
  <1> SUFFICES ASSUME NEW u \in Updates, NEW h \in HooksOf(u), Accounted(u, h)
               PROVE  Accounted(u, h)'
    BY <1>i, <1>f DEF HooksKept
  <1>h. h \in Hooks
    OBVIOUS
  <1> DEFINE item == [update |-> u, to |-> HooksOf(u)]
  <1>1. CASE DequeueWebHook(a)
    <2>1. /\ queue' = [queue EXCEPT ![a] = Tail(queue[a])] /\ queue[a] # <<>>
          /\ sending[a].to = {} /\ UNCHANGED <<sent, forgotten>>
          /\ sending'[a].update = Head(queue[a]).update /\ sending'[a].to = Head(queue[a]).to
          /\ \A b \in Instances : b # a => sending'[b] = sending[b]
      BY <1>t, <1>1 DEF DequeueWebHook, Dequeued, NoItem
    <2>2. ToSet(queue[a]) = {Head(queue[a])} \cup ToSet(Tail(queue[a]))
      BY <1>t, <2>1, ToSetOfTail
    <2>3. ASSUME NEW b \in Instances, sending[b].update = u, h \in sending[b].to
          PROVE  Accounted(u, h)'
      <3>1. b # a
        BY <2>1, <2>3
      <3> QED
        BY <2>1, <2>3, <3>1 DEF Accounted
    <2>4. ASSUME NEW b \in Instances, item \in ToSet(queue[b]) PROVE Accounted(u, h)'
      <3>1. CASE b = a /\ item = Head(queue[a])
        BY <2>1, <3>1 DEF Accounted
      <3>2. CASE ~(b = a /\ item = Head(queue[a]))
        <4>1. item \in ToSet(queue'[b])
          BY <1>t, <2>1, <2>2, <2>4, <3>2
        <4> QED
          BY <4>1 DEF Accounted
      <3> QED
        BY <3>1, <3>2
    <2> QED
      BY <2>1, <2>3, <2>4 DEF Accounted
  <1>2. ASSUME NEW g \in Hooks, SendRequest(a, g) PROVE Accounted(u, h)'
    <2>1. /\ g \in sending[a].to /\ UNCHANGED <<queue, forgotten>>
          /\ sent' = [sent EXCEPT ![g] = Append(sent[g], sending[a].update)]
          /\ \A b \in Instances : b # a => sending'[b] = sending[b]
          /\ Rest(a, g) # {} => sending'[a] = [sending[a] EXCEPT !.to = Rest(a, g)]
      BY <1>t, <1>2 DEF SendRequest
    <2>2. sending[a].update \in Updates
      BY <1>i, <2>1 DEF SendsItems, NoItem
    <2>3. ToSet(sent'[g]) = ToSet(sent[g]) \cup {sending[a].update}
      BY <1>t, <2>1, <2>2, ToSetOfAppend
    <2>4. u \in ToSet(sent[h]) => u \in ToSet(sent'[h])
      BY <1>t, <2>1, <2>3
    <2>5. ASSUME NEW b \in Instances, sending[b].update = u, h \in sending[b].to
          PROVE  Accounted(u, h)'
      <3>1. CASE b # a
        BY <2>1, <2>5, <3>1 DEF Accounted
      <3>2. CASE b = a /\ h = g
        BY <2>3, <2>5, <3>2 DEF Accounted
      <3>3. CASE b = a /\ h # g
        <4>1. h \in Rest(a, g)
          BY <2>5, <3>3 DEF Rest
        <4>2. /\ [sending[a] EXCEPT !.to = Rest(a, g)].to = Rest(a, g)
              /\ [sending[a] EXCEPT !.to = Rest(a, g)].update = sending[a].update
          BY <1>t DEF Deliveries
        <4>3. sending'[a].update = u /\ h \in sending'[a].to
          BY <2>1, <2>5, <3>3, <4>1, <4>2
        <4> QED
          BY <4>3 DEF Accounted
      <3> QED
        BY <3>1, <3>2, <3>3
    <2> QED
      BY <2>1, <2>4, <2>5 DEF Accounted
  <1>3. ASSUME ProcessingFails(a) \/ \E g \in Hooks : MissingClient(a, g) PROVE Accounted(u, h)'
    <2>1. /\ UNCHANGED <<queue, sent>>
          /\ forgotten' = forgotten \cup {<<sending[a].update, g>> : g \in sending[a].to}
          /\ \A b \in Instances : b # a => sending'[b] = sending[b]
      BY <1>t, <1>3 DEF ProcessingFails, MissingClient
    <2>2. ASSUME NEW b \in Instances, sending[b].update = u, h \in sending[b].to
          PROVE  Accounted(u, h)'
      <3>1. CASE b = a
        BY <2>1, <2>2, <3>1 DEF Accounted
      <3>2. CASE b # a
        BY <2>1, <2>2, <3>2 DEF Accounted
      <3> QED
        BY <3>1, <3>2
    <2> QED
      BY <2>1, <2>2 DEF Accounted
  <1>4. ASSUME Crash(a) PROVE Accounted(u, h)'
    <2>1. /\ sent' = sent
          /\ forgotten' = forgotten \cup {<<sending[a].update, g>> : g \in sending[a].to}
                              \cup UNION {{<<i.update, g>> : g \in i.to} : i \in ToSet(queue[a])}
          /\ \A b \in Instances : b # a => sending'[b] = sending[b] /\ queue'[b] = queue[b]
      BY <1>t, <1>4 DEF Crash
    <2>2. ASSUME NEW b \in Instances, sending[b].update = u, h \in sending[b].to
          PROVE  Accounted(u, h)'
      <3>1. CASE b = a
        BY <2>1, <2>2, <3>1 DEF Accounted
      <3>2. CASE b # a
        BY <2>1, <2>2, <3>2 DEF Accounted
      <3> QED
        BY <3>1, <3>2
    <2>3. ASSUME NEW b \in Instances, item \in ToSet(queue[b]) PROVE Accounted(u, h)'
      <3>1. CASE b = a
        <4>1. item.update = u /\ item.to = HooksOf(u)
          OBVIOUS
        <4> HIDE DEF item
        <4>2. <<u, h>> \in {<<item.update, g>> : g \in item.to}
          BY <4>1
        <4>3. <<u, h>> \in forgotten'
          BY <2>1, <2>3, <3>1, <4>2
        <4> QED
          BY <4>3 DEF Accounted
      <3>2. CASE b # a
        BY <2>1, <2>3, <3>2 DEF Accounted
      <3> QED
        BY <3>1, <3>2
    <2> QED
      BY <2>1, <2>2, <2>3 DEF Accounted
  <1> QED
    BY <1>1, <1>2, <1>3, <1>4 DEF HookStep, Send

LEMMA HooksStayAccounted ==
  ASSUME IInv, [Next]_vars
  PROVE  HooksKept'
  <1>1. ASSUME UNCHANGED <<stage, hookVars>> PROVE HooksKept'
    BY <1>1 DEF IInv, HooksKept, HasQueued, HooksOf, Accounted, hookVars
  <1>2. ASSUME NEW a \in Instances, TriggerStep(a) PROVE UNCHANGED <<stage, hookVars>>
    BY <1>2
    DEF TriggerStep, Evaluate, AddTrigger, AddTriggerFails, DeleteHandledTriggers,
        GetUnhandledTriggers, Claim, Export, CreateCheckPoint, EvaluationFails, updateVars
  <1>3. ASSUME UNCHANGED vars PROVE UNCHANGED <<stage, hookVars>>
    BY <1>3 DEF vars, updateVars
  <1> QED
    BY <1>1, <1>2, <1>3, HooksKeptByRequests, HooksKeptByWorkers, Steps

LEMMA TypesKept ==
  ASSUME IInv, [Next]_vars
  PROVE  TypeOK'
  <1>1. ASSUME UNCHANGED vars PROVE TypeOK'
    BY <1>1 DEF IInv, TypeOK, vars, updateVars, lockVars, hookVars, triggerVars
  <1> QED
    BY <1>1, RequestTypes, HookTypes, TriggerTypes, CrashTypes, Steps

LEMMA Inductive == IInv /\ [Next]_vars => IInv'
  <1> SUFFICES ASSUME IInv, [Next]_vars PROVE IInv'
    OBVIOUS
  <1> QED
    BY TypesKept, UpdatesHosted, TriggersKept, ExportsKept, LockKept, SendsKept, HooksStayAccounted
    DEF IInv

LEMMA Invariance == Spec => []IInv
  BY Initially, Inductive, PTL DEF Spec
-----------------------------------------------------------------------------
(* Who reads, claims and handles a trigger.                                *)

\* An update publishes its trigger once: it has done so, or it fails.
HasPublished(u) == stage[u] \in {"published", "done", "failed"}

\* A trigger is in one channel, once, and then has no row.
Queued ==
    /\ \A a \in Instances : \A i, j \in DOMAIN channel[a] : channel[a][i] = channel[a][j] => i = j
    /\ \A a, b \in Instances : a # b => ToSet(channel[a]) \cap ToSet(channel[b]) = {}
    /\ \A a \in Instances : \A u \in ToSet(channel[a]) : row[u] = "none" /\ HasPublished(u)
    /\ \A u \in Updates : row[u] # "none" => HasPublished(u)

Reads(a) == worker[a].toClaim \cup worker[a].claimed

\* A trigger is claimed once, and has a checkpoint once, unless instances have read it
\* together: nobody finds it unhandled when it was claimed.
ReadOnce ==
    /\ \A a \in Instances : \A u \in worker[a].toClaim : row[u] # "none"
    /\ \A a \in Instances : \A u \in worker[a].claimed : row[u] \in {"handled", "gone"}
    /\ \A c \in checkpoints : \A u \in c.after : row[u] \in {"handled", "gone"}
    /\ \A a, b \in Instances : a # b => Reads(a) \cap Reads(b) \subseteq overlapped
    /\ \A c \in checkpoints, a \in Instances : c.after \cap Reads(a) \subseteq overlapped

TInv == IInv /\ Queued /\ ReadOnce

LEMMA TriggersInitially == Init => Queued /\ ReadOnce
  BY ToSetOfEmpty DEF Init, Queued, ReadOnce, Reads, Resting

\* An update comes to its trigger once.
LEMMA StagesOfTriggers ==
  ASSUME IInv, [Next]_vars, NEW u \in Updates
  PROVE  HasPublished(u) => HasPublished(u)'
  <1> USE DEF HasPublished, updateVars
  <1>t. stage \in [Updates -> Stages]
    BY DEF IInv, TypeOK
  <1>1. ASSUME UNCHANGED stage PROVE HasPublished(u) => HasPublished(u)'
    BY <1>1
  <1>2. ASSUME NEW v \in Updates, RequestStep(v) PROVE HasPublished(u) => HasPublished(u)'
    BY <1>2, <1>t
    DEF RequestStep, Request, To, UpdateClient, SettingValueChanged, QueueingFails, EnterRegisterChange,
        TimesOut, ReleaseExpired, RegisterChange, Publish, Commit, Fail
  <1>3. ASSUME NEW a \in Instances, HookStep(a) \/ TriggerStep(a) PROVE UNCHANGED stage
    BY <1>3
    DEF HookStep, Send, DequeueWebHook, SendRequest, MissingClient, ProcessingFails,
        TriggerStep, Evaluate, AddTrigger, AddTriggerFails, DeleteHandledTriggers,
        GetUnhandledTriggers, Claim, Export, CreateCheckPoint, EvaluationFails
  <1>4. ASSUME NEW a \in Instances, Crash(a) PROVE HasPublished(u) => HasPublished(u)'
    BY <1>4, <1>t DEF Crash
  <1> QED
    BY <1>1, <1>2, <1>3, <1>4, Steps DEF vars

\* What an evaluation does to the triggers that its instance has read, to their rows and to
\* the checkpoints.
ReadBy(a) ==
    /\ \A b \in Instances : b # a => worker'[b] = worker[b]
    /\ channel' = channel /\ overlapped \subseteq overlapped'
    /\ \A u \in Updates :
          \/ row'[u] = row[u]
          \/ u \in worker[a].toClaim /\ row'[u] \in {"handled", "gone"}
          \/ row[u] = "handled" /\ row'[u] = "gone"
    /\ \A u \in worker'[a].claimed : u \in Reads(a) /\ row'[u] \in {"handled", "gone"}
    /\ \A u \in worker'[a].toClaim :
          /\ row'[u] # "none"
          /\ \/ u \in worker[a].toClaim
             \/ /\ row[u] = "unhandled"
                /\ \A b \in Instances \ {a} : u \in worker[b].toClaim => u \in overlapped'
    /\ \A c \in checkpoints' :
          c \in checkpoints \/ (c.after = worker[a].claimed /\ worker'[a] = Resting)

LEMMA EvaluationReads ==
  ASSUME IInv, ReadOnce, NEW a \in Instances, Evaluate(a) \/ EvaluationFails(a)
  PROVE  ReadBy(a)
  <1>t. /\ row \in [Updates -> {"none", "unhandled", "handled", "gone"}]
        /\ worker \in [Instances -> Evaluations] /\ worker[a] \in Evaluations
        /\ worker[a].toClaim \subseteq Updates /\ worker[a].claimed \subseteq Updates
    BY DEF IInv, TypeOK, Evaluations
  <1>r. Resting.toClaim = {} /\ Resting.claimed = {}
    BY DEF Resting
  <1>i. /\ \A u \in worker[a].toClaim : row[u] # "none"
        /\ \A u \in worker[a].claimed : row[u] \in {"handled", "gone"}
    BY DEF ReadOnce
  <1> USE DEF Reads
  <1>1. CASE DeleteHandledTriggers(a)
    <2>1. /\ UNCHANGED <<channel, overlapped, checkpoints>>
          /\ row' = [u \in Updates |-> IF row[u] = "handled" THEN "gone" ELSE row[u]]
          /\ worker' = [worker EXCEPT ![a] = [worker[a] EXCEPT !.stage = "reading"]]
      BY <1>1 DEF DeleteHandledTriggers, IsHandled
    <2>2. worker'[a].toClaim = worker[a].toClaim /\ worker'[a].claimed = worker[a].claimed
      BY <1>t, <2>1 DEF Evaluations
    <2>3. \A b \in Instances : b # a => worker'[b] = worker[b]
      BY <1>t, <2>1
    <2>4. \A u \in Updates : row'[u] = IF row[u] = "handled" THEN "gone" ELSE row[u]
      BY <2>1
    <2>5. UNCHANGED <<channel, overlapped, checkpoints>>
      BY <2>1
    <2>6. \A u \in worker'[a].claimed : u \in Reads(a) /\ row'[u] \in {"handled", "gone"}
      BY <1>t, <1>i, <2>2, <2>4
    <2>7. \A u \in worker'[a].toClaim : row'[u] # "none" /\ u \in worker[a].toClaim
      BY <1>t, <1>i, <2>2, <2>4
    <2>8. \A c \in checkpoints' : c \in checkpoints
      BY <2>5
    <2>9. \A u \in Updates : row'[u] = row[u] \/ (row[u] = "handled" /\ row'[u] = "gone")
      BY <2>4
    <2> QED
      BY <2>3, <2>5, <2>6, <2>7, <2>8, <2>9 DEF ReadBy
  <1>2. CASE GetUnhandledTriggers(a)
    <2>0. UNCHANGED <<channel, row, checkpoints>>
      BY <1>2 DEF GetUnhandledTriggers
    <2>1. /\ worker' = [worker EXCEPT ![a] =
                IF Unhandled = {} THEN Resting
                ELSE [worker[a] EXCEPT !.stage = "claiming", !.toClaim = Unhandled]]
          /\ overlapped' = overlapped \cup
                (Unhandled \cap UNION {worker[b].toClaim : b \in Instances \ {a}})
      BY <1>2 DEF GetUnhandledTriggers, ToClaim
    <2>2. worker'[a].toClaim \subseteq Unhandled /\ worker'[a].claimed \subseteq worker[a].claimed
      BY <1>t, <1>r, <2>1 DEF Evaluations
    <2>3. \A b \in Instances : b # a => worker'[b] = worker[b]
      BY <1>t, <2>1
    <2>4. /\ overlapped \subseteq overlapped'
          /\ \A u \in Unhandled : \A b \in Instances \ {a} :
                u \in worker[b].toClaim => u \in overlapped'
      BY <2>1
    <2>5. \A u \in worker'[a].claimed : u \in Reads(a) /\ row'[u] \in {"handled", "gone"}
      BY <1>i, <2>0, <2>2
    <2>6. \A u \in worker'[a].toClaim : row[u] = "unhandled" /\ row'[u] = "unhandled"
                                        /\ u \in Unhandled
      BY <2>0, <2>2 DEF Unhandled
    <2>7. \A c \in checkpoints' : c \in checkpoints
      BY <2>0
    <2> QED
      BY <2>0, <2>3, <2>4, <2>5, <2>6, <2>7 DEF ReadBy
  <1>3. ASSUME NEW v \in Updates, Claim(a, v) PROVE ReadBy(a)
    <2> DEFINE claimed == worker[a].claimed \cup (IF row[v] = "gone" THEN {} ELSE {v})
               left    == worker[a].toClaim \ {v}
    <2>1. /\ UNCHANGED <<channel, overlapped, checkpoints>> /\ v \in worker[a].toClaim
          /\ row' = [row EXCEPT ![v] = IF row[v] = "gone" THEN "gone" ELSE "handled"]
      BY <1>3, <1>t DEF Claim, HandledRow, ToClaim
    <2>2. worker' = [worker EXCEPT ![a] =
                    IF left # {} THEN [@ EXCEPT !.toClaim = left, !.claimed = claimed]
                    ELSE IF claimed = {} THEN Resting
                    ELSE [Resting EXCEPT !.stage = "exporting", !.claimed = claimed]]
      BY <1>3 DEF Claim, ToClaim
    <2>3. claimed \subseteq worker[a].claimed \cup {v} /\ left \subseteq worker[a].toClaim
      OBVIOUS
    <2> HIDE DEF claimed, left
    <2>4. /\ [Resting EXCEPT !.stage = "exporting", !.claimed = claimed].toClaim = {}
          /\ [Resting EXCEPT !.stage = "exporting", !.claimed = claimed].claimed = claimed
      BY DEF Resting
    <2>5. /\ [worker[a] EXCEPT !.toClaim = left, !.claimed = claimed].toClaim = left
          /\ [worker[a] EXCEPT !.toClaim = left, !.claimed = claimed].claimed = claimed
      BY <1>t DEF Evaluations
    <2>6. worker'[a].toClaim \subseteq left /\ worker'[a].claimed \subseteq claimed
      BY <1>t, <1>r, <2>2, <2>4, <2>5
    <2>7. \A u \in Updates : row'[u] = IF u = v THEN IF row[v] = "gone" THEN "gone" ELSE "handled"
                                      ELSE row[u]
      BY <1>t, <2>1
    <2>8. \A b \in Instances : b # a => worker'[b] = worker[b]
      BY <1>t, <2>2
    <2>9. \A u \in worker'[a].claimed : u \in Reads(a) /\ row'[u] \in {"handled", "gone"}
      BY <1>t, <1>i, <2>1, <2>3, <2>6, <2>7
    <2>10. \A u \in worker'[a].toClaim : row'[u] # "none" /\ u \in worker[a].toClaim
      BY <1>t, <1>i, <2>3, <2>6, <2>7
    <2>11. \A u \in Updates : \/ row'[u] = row[u]
                              \/ u \in worker[a].toClaim /\ row'[u] \in {"handled", "gone"}
      BY <2>1, <2>7
    <2>12. \A c \in checkpoints' : c \in checkpoints
      BY <2>1
    <2> QED
      BY <2>1, <2>8, <2>9, <2>10, <2>11, <2>12 DEF ReadBy
  <1>4. CASE Export(a)
    <2>1. /\ UNCHANGED <<channel, row, checkpoints, overlapped>>
          /\ worker' = [worker EXCEPT ![a] = [worker[a] EXCEPT !.stage = "saving", !.contents = saved]]
      BY <1>4 DEF Export
    <2>2. worker'[a].toClaim = worker[a].toClaim /\ worker'[a].claimed = worker[a].claimed
      BY <1>t, <2>1 DEF Evaluations
    <2>3. \A b \in Instances : b # a => worker'[b] = worker[b]
      BY <1>t, <2>1
    <2>4. UNCHANGED <<channel, row, checkpoints, overlapped>>
      BY <2>1
    <2>5. \A u \in worker'[a].claimed : u \in Reads(a) /\ row'[u] \in {"handled", "gone"}
      BY <1>i, <2>2, <2>4
    <2>6. \A u \in worker'[a].toClaim : row'[u] # "none" /\ u \in worker[a].toClaim
      BY <1>i, <2>2, <2>4
    <2>7. \A c \in checkpoints' : c \in checkpoints
      BY <2>4
    <2> QED
      BY <2>3, <2>4, <2>5, <2>6, <2>7 DEF ReadBy
  <1>5. CASE CreateCheckPoint(a)
    <2>1. /\ UNCHANGED <<channel, row, overlapped>> /\ worker' = [worker EXCEPT ![a] = Resting]
          /\ checkpoints' = checkpoints \cup
                {[after |-> worker[a].claimed, contents |-> worker[a].contents]}
      BY <1>5 DEF CreateCheckPoint
    <2> QED
      BY <1>t, <1>r, <2>1 DEF ReadBy
  <1>6. CASE EvaluationFails(a)
    <2>1. UNCHANGED <<channel, row, overlapped, checkpoints>> /\ worker' = [worker EXCEPT ![a] = Resting]
      BY <1>6 DEF EvaluationFails
    <2> QED
      BY <1>t, <1>r, <2>1 DEF ReadBy
  <1> QED
    BY <1>1, <1>2, <1>3, <1>4, <1>5, <1>6 DEF Evaluate

\* The triggers move when one is published, stored or dropped, in an evaluation, or with a crash.
LEMMA TriggerSteps ==
  ASSUME [Next]_vars
  PROVE  \/ UNCHANGED triggerVars
         \/ \E u \in Updates : Publish(u)
         \/ \E a \in Instances : \/ AddTrigger(a) \/ AddTriggerFails(a)
                                 \/ Evaluate(a) \/ EvaluationFails(a) \/ Crash(a)
  <1>1. ASSUME NEW u \in Updates, RequestStep(u) PROVE Publish(u) \/ UNCHANGED triggerVars
    BY <1>1
    DEF RequestStep, Request, UpdateClient, SettingValueChanged, QueueingFails, EnterRegisterChange,
        TimesOut, ReleaseExpired, RegisterChange, Commit, Fail
  <1>2. ASSUME NEW a \in Instances, HookStep(a) PROVE UNCHANGED triggerVars
    BY <1>2 DEF HookStep, Send, DequeueWebHook, SendRequest, MissingClient, ProcessingFails
  <1> QED
    BY <1>1, <1>2, Steps DEF vars, TriggerStep

LEMMA ReadOnceStep == TInv /\ [Next]_vars => ReadOnce'
  <1> SUFFICES ASSUME TInv, [Next]_vars PROVE ReadOnce'
    OBVIOUS
  <1> USE DEF Reads
  <1>t. /\ row \in [Updates -> {"none", "unhandled", "handled", "gone"}]
        /\ worker \in [Instances -> Evaluations]
        /\ checkpoints \subseteq [after : SUBSET Updates, contents : SUBSET Updates]
        /\ \A a \in Instances : channel[a] \in Seq(Updates)
    BY DEF TInv, IInv, TypeOK
  <1>u. /\ \A a \in Instances : Reads(a) \subseteq Updates
        /\ \A c \in checkpoints : c.after \subseteq Updates
    BY <1>t DEF Evaluations
  <1>i. ReadOnce
    BY DEF TInv
  <1>1. CASE UNCHANGED triggerVars \/ \E u \in Updates : Publish(u)
    <2>1. UNCHANGED <<row, worker, checkpoints, overlapped>>
      BY <1>1 DEF Publish, triggerVars
    <2> QED
      BY <1>i, <2>1 DEF ReadOnce
  <1>2. ASSUME NEW a \in Instances, AddTrigger(a) \/ AddTriggerFails(a) PROVE ReadOnce'
    <2>1. UNCHANGED <<worker, checkpoints, overlapped>>
      BY <1>2 DEF AddTrigger, AddTriggerFails
    <2>2. Head(channel[a]) \in ToSet(channel[a])
      BY <1>2, <1>t, ToSetOfTail DEF AddTrigger, AddTriggerFails
    <2>3. row[Head(channel[a])] = "none"
      BY <2>2 DEF TInv, Queued
    <2>4. \A u \in Updates : row[u] # "none" => row'[u] = row[u]
      BY <1>2, <1>t, <2>3 DEF AddTrigger, AddTriggerFails
    <2> QED
      BY <1>i, <1>u, <2>1, <2>4 DEF ReadOnce
  <1>3. ASSUME NEW a \in Instances, Evaluate(a) \/ EvaluationFails(a) PROVE ReadOnce'
    <2>1. ReadBy(a)
      BY <1>3, <1>i, EvaluationReads DEF TInv
    <2> USE DEF ReadBy
    <2>2. \A u \in Updates : /\ row[u] # "none" => row'[u] # "none"
                             /\ row[u] \in {"handled", "gone"} => row'[u] \in {"handled", "gone"}
      BY <2>1
    <2>3. \A b \in Instances : \A u \in worker'[b].toClaim : row'[u] # "none"
      BY <1>i, <1>u, <2>1, <2>2 DEF ReadOnce
    <2>4. \A b \in Instances : \A u \in worker'[b].claimed : row'[u] \in {"handled", "gone"}
      BY <1>i, <1>u, <2>1, <2>2 DEF ReadOnce
    <2>5. \A c \in checkpoints' : \A u \in c.after : row'[u] \in {"handled", "gone"}
      BY <1>i, <1>u, <2>1, <2>2 DEF ReadOnce
    \* What others hold, and what checkpoints were made after, it does not find unhandled.
    <2>6. ASSUME NEW b \in Instances, b # a, NEW u \in worker'[a].toClaim \cup worker'[a].claimed,
                 u \in Reads(b)
          PROVE  u \in overlapped'
      <3>1. CASE u \in Reads(a)
        BY <1>i, <2>1, <2>6, <3>1 DEF ReadOnce
      <3>2. CASE u \notin Reads(a)
        <4>1. u \in worker'[a].toClaim /\ row[u] = "unhandled"
          BY <2>1, <2>6, <3>2
        <4>2. u \in worker[b].toClaim
          BY <1>i, <2>6, <4>1 DEF ReadOnce
        <4> QED
          BY <2>1, <2>6, <3>2, <4>1, <4>2
      <3> QED
        BY <3>1, <3>2
    <2>7. ASSUME NEW b \in Instances, NEW d \in Instances, b # d,
                 NEW u \in Reads(b)' \cap Reads(d)'
          PROVE  u \in overlapped'
      <3>1. CASE b = a
        BY <2>1, <2>6, <2>7, <3>1
      <3>2. CASE d = a
        BY <2>1, <2>6, <2>7, <3>2
      <3>3. CASE b # a /\ d # a
        BY <1>i, <2>1, <2>7, <3>3 DEF ReadOnce
      <3> QED
        BY <3>1, <3>2, <3>3
    <2>8. ASSUME NEW c \in checkpoints', NEW b \in Instances, NEW u \in c.after \cap Reads(b)'
          PROVE  u \in overlapped'
      <3>1. CASE c \in checkpoints /\ b = a
        <4>1. row[u] # "unhandled"
          BY <1>i, <2>8, <3>1 DEF ReadOnce
        <4>2. u \in Reads(a)
          BY <2>1, <2>8, <3>1, <4>1
        <4> QED
          BY <1>i, <2>1, <2>8, <3>1, <4>2 DEF ReadOnce
      <3>2. CASE c \in checkpoints /\ b # a
        BY <1>i, <2>1, <2>8, <3>2 DEF ReadOnce
      <3>3. CASE c \notin checkpoints
        <4>1. c.after = worker[a].claimed /\ worker'[a] = Resting
          BY <2>1, <3>3
        <4>2. b # a
          BY <2>8, <4>1 DEF Resting
        <4> QED
          BY <1>i, <2>1, <2>8, <4>1, <4>2 DEF ReadOnce
      <3> QED
        BY <3>1, <3>2, <3>3
    <2> QED
      BY <2>3, <2>4, <2>5, <2>7, <2>8 DEF ReadOnce
  <1>4. ASSUME NEW a \in Instances, Crash(a) PROVE ReadOnce'
    <2>1. UNCHANGED <<row, checkpoints, overlapped>> /\ worker' = [worker EXCEPT ![a] = Resting]
      BY <1>4 DEF Crash
    <2>2. Resting.toClaim = {} /\ Resting.claimed = {}
      BY DEF Resting
    <2>3. \A b \in Instances : worker'[b].toClaim \subseteq worker[b].toClaim
                               /\ worker'[b].claimed \subseteq worker[b].claimed
      BY <1>t, <2>1, <2>2
    <2> QED
      BY <1>i, <2>1, <2>3 DEF ReadOnce
  <1> QED
    BY <1>1, <1>2, <1>3, <1>4, TriggerSteps

\* Appending keeps a sequence free of duplicates, and so does taking its head.
LEMMA DistinctAppend ==
  ASSUME NEW S, NEW s \in Seq(S), NEW x \in S, x \notin ToSet(s),
         \A i, j \in DOMAIN s : s[i] = s[j] => i = j
  PROVE  \A i, j \in DOMAIN Append(s, x) : Append(s, x)[i] = Append(s, x)[j] => i = j
  <1>1. /\ DOMAIN Append(s, x) = 1..(Len(s) + 1) /\ DOMAIN s = 1..Len(s) /\ Len(s) \in Nat
        /\ Append(s, x)[Len(s) + 1] = x
        /\ \A i \in 1..Len(s) : Append(s, x)[i] = s[i]
    OBVIOUS
  <1>2. \A i \in 1..Len(s) : s[i] # x
    BY <1>1 DEF ToSet
  <1> QED
    BY <1>1, <1>2

LEMMA DistinctTail ==
  ASSUME NEW S, NEW s \in Seq(S), s # <<>>,
         \A i, j \in DOMAIN s : s[i] = s[j] => i = j
  PROVE  /\ Head(s) \notin ToSet(Tail(s))
         /\ \A i, j \in DOMAIN Tail(s) : Tail(s)[i] = Tail(s)[j] => i = j
  <1>1. /\ Head(s) = s[1] /\ Len(s) \in Nat /\ Len(s) > 0 /\ DOMAIN s = 1..Len(s)
        /\ DOMAIN Tail(s) = 1..(Len(s) - 1)
        /\ \A i \in 1..(Len(s) - 1) : Tail(s)[i] = s[i + 1]
    OBVIOUS
  <1>2. \A i \in 1..(Len(s) - 1) : i + 1 \in 1..Len(s) /\ i + 1 # 1
    BY <1>1
  <1>3. Head(s) \notin ToSet(Tail(s))
    BY <1>1, <1>2 DEF ToSet
  <1>4. ASSUME NEW i \in DOMAIN Tail(s), NEW j \in DOMAIN Tail(s), Tail(s)[i] = Tail(s)[j]
        PROVE  i = j
    <2>1. s[i + 1] = s[j + 1] /\ i + 1 \in DOMAIN s /\ j + 1 \in DOMAIN s
      BY <1>1, <1>2, <1>4
    <2>2. i + 1 = j + 1
      BY <2>1
    <2> QED
      BY <1>1, <2>2
  <1> QED
    BY <1>3, <1>4

LEMMA QueuedStep == TInv /\ [Next]_vars => Queued'
  <1> SUFFICES ASSUME TInv, [Next]_vars PROVE Queued'
    OBVIOUS
  <1>t. /\ stage \in [Updates -> Stages] /\ row \in [Updates -> {"none", "unhandled", "handled", "gone"}]
        /\ host \in [Updates -> Instances \cup {None}]
        /\ channel \in [Instances -> Seq(Updates)] /\ worker \in [Instances -> Evaluations]
    BY DEF TInv, IInv, TypeOK
  <1>c. \A a \in Instances : ToSet(channel[a]) \subseteq Updates
    BY <1>t, ToSetInSeq
  <1>i. Queued
    BY DEF TInv
  <1>p. \A u \in Updates : HasPublished(u) => HasPublished(u)'
    BY StagesOfTriggers DEF TInv
  <1>1. CASE UNCHANGED triggerVars
    <2>1. UNCHANGED <<channel, row>>
      BY <1>1 DEF triggerVars
    <2>2. \A a \in Instances : \A u \in ToSet(channel[a]) : HasPublished(u)'
      BY <1>c, <1>i, <1>p DEF Queued
    <2>3. \A u \in Updates : row[u] # "none" => HasPublished(u)'
      BY <1>i, <1>p DEF Queued
    <2> QED
      BY <1>i, <2>1, <2>2, <2>3 DEF Queued
  <1>2. ASSUME NEW u \in Updates, Publish(u) PROVE Queued'
    <2>1. /\ host[u] \in Instances /\ row' = row
          /\ channel' = [channel EXCEPT ![host[u]] = Append(channel[host[u]], u)]
          /\ ~HasPublished(u) /\ HasPublished(u)'
      BY <1>2, <1>t DEF TInv, IInv, Hosted, Publish, To, HasPublished
    <2>2. row[u] = "none" /\ \A a \in Instances : u \notin ToSet(channel[a])
      BY <1>i, <2>1 DEF Queued
    <2>3. ToSet(channel'[host[u]]) = ToSet(channel[host[u]]) \cup {u}
      BY <1>t, <2>1, ToSetOfAppend
    <2>4. \A i, j \in DOMAIN channel'[host[u]] : channel'[host[u]][i] = channel'[host[u]][j] => i = j
      <3>1. channel[host[u]] \in Seq(Updates)
        BY <1>t, <2>1
      <3>2. \A i, j \in DOMAIN channel[host[u]] : channel[host[u]][i] = channel[host[u]][j] => i = j
        BY <1>i, <2>1 DEF Queued
      <3>3. channel'[host[u]] = Append(channel[host[u]], u)
        BY <1>t, <2>1
      <3>4. \A i, j \in DOMAIN Append(channel[host[u]], u) :
              Append(channel[host[u]], u)[i] = Append(channel[host[u]], u)[j] => i = j
        BY <2>1, <2>2, <3>1, <3>2, DistinctAppend
      <3> QED
        BY <3>3, <3>4
    <2>5. \A a \in Instances : a # host[u] => channel'[a] = channel[a]
      BY <1>t, <2>1
    <2>6. \A a \in Instances : \A i, j \in DOMAIN channel'[a] : channel'[a][i] = channel'[a][j] => i = j
      BY <1>i, <2>4, <2>5 DEF Queued
    <2>7. \A a, b \in Instances : a # b => ToSet(channel'[a]) \cap ToSet(channel'[b]) = {}
      BY <1>i, <2>2, <2>3, <2>5 DEF Queued
    <2>8. \A a \in Instances : \A v \in ToSet(channel'[a]) : row'[v] = "none" /\ HasPublished(v)'
      BY <1>c, <1>i, <1>p, <2>1, <2>2, <2>3, <2>5 DEF Queued
    <2>9. \A v \in Updates : row'[v] # "none" => HasPublished(v)'
      BY <1>i, <1>p, <2>1 DEF Queued
    <2> QED
      BY <2>6, <2>7, <2>8, <2>9 DEF Queued
  <1>3. ASSUME NEW a \in Instances, AddTrigger(a) \/ AddTriggerFails(a) PROVE Queued'
    <2> DEFINE v == Head(channel[a])
    <2>1. /\ channel[a] # <<>> /\ channel[a] \in Seq(Updates)
          /\ channel' = [channel EXCEPT ![a] = Tail(channel[a])]
      BY <1>3, <1>t DEF AddTrigger, AddTriggerFails
    <2>2. v \in Updates /\ ToSet(channel[a]) = {v} \cup ToSet(Tail(channel[a]))
      BY <2>1, ToSetOfTail
    <2>3. \A i, j \in DOMAIN channel[a] : channel[a][i] = channel[a][j] => i = j
      BY <1>i DEF Queued
    <2>4. /\ v \notin ToSet(Tail(channel[a]))
          /\ \A i, j \in DOMAIN Tail(channel[a]) : Tail(channel[a])[i] = Tail(channel[a])[j] => i = j
      BY <2>1, <2>3, DistinctTail
    <2>5. /\ channel'[a] = Tail(channel[a])
          /\ \A b \in Instances : b # a => channel'[b] = channel[b]
      BY <1>t, <2>1
    <2>6. \A b \in Instances : ToSet(channel'[b]) \subseteq ToSet(channel[b]) \ {v}
      BY <1>i, <2>2, <2>4, <2>5 DEF Queued
    <2>7. \A u \in Updates : u # v => row'[u] = row[u]
      BY <1>3, <1>t DEF AddTrigger, AddTriggerFails
    <2>8. HasPublished(v)
      BY <1>i, <2>2 DEF Queued
    <2> HIDE DEF v
    <2>9. \A b \in Instances : \A i, j \in DOMAIN channel'[b] : channel'[b][i] = channel'[b][j] => i = j
      BY <1>i, <2>4, <2>5 DEF Queued
    <2>10. \A b, d \in Instances : b # d => ToSet(channel'[b]) \cap ToSet(channel'[d]) = {}
      BY <1>i, <2>6 DEF Queued
    <2>11. \A b \in Instances : \A u \in ToSet(channel'[b]) : row'[u] = "none" /\ HasPublished(u)'
      BY <1>c, <1>i, <1>p, <2>6, <2>7 DEF Queued
    <2>12. \A u \in Updates : row'[u] # "none" => HasPublished(u)'
      BY <1>i, <1>p, <2>7, <2>8 DEF Queued
    <2> QED
      BY <2>9, <2>10, <2>11, <2>12 DEF Queued
  <1>4. ASSUME NEW a \in Instances, Evaluate(a) \/ EvaluationFails(a) PROVE Queued'
    <2>1. /\ channel' = channel
          /\ \A u \in Updates : row'[u] = row[u] \/ u \in worker[a].toClaim \/ row[u] = "handled"
      BY <1>4, EvaluationReads DEF TInv, ReadBy
    <2>2. \A u \in worker[a].toClaim : row[u] # "none"
      BY DEF TInv, ReadOnce
    <2>3. \A u \in Updates : row[u] = "none" => row'[u] = "none"
      BY <2>1, <2>2
    <2>4. \A b \in Instances : \A u \in ToSet(channel[b]) : row'[u] = "none" /\ HasPublished(u)'
      BY <1>c, <1>i, <1>p, <2>3 DEF Queued
    <2>5. \A u \in Updates : row'[u] # "none" => HasPublished(u)'
      BY <1>i, <1>p, <2>3 DEF Queued
    <2> QED
      BY <1>i, <2>1, <2>4, <2>5 DEF Queued
  <1>5. ASSUME NEW a \in Instances, Crash(a) PROVE Queued'
    <2>1. row' = row /\ channel' = [channel EXCEPT ![a] = <<>>]
      BY <1>5 DEF Crash
    <2>2. DOMAIN channel'[a] = {} /\ ToSet(channel'[a]) = {}
      BY <1>t, <2>1, ToSetOfEmpty
    <2>3. \A b \in Instances : b # a => channel'[b] = channel[b]
      BY <1>t, <2>1
    <2>4. \A b \in Instances : \A u \in ToSet(channel'[b]) : row[u] = "none" /\ HasPublished(u)'
      BY <1>c, <1>i, <1>p, <2>2, <2>3 DEF Queued
    <2>5. \A u \in Updates : row[u] # "none" => HasPublished(u)'
      BY <1>i, <1>p DEF Queued
    <2>6. \A b, d \in Instances : b # d => ToSet(channel'[b]) \cap ToSet(channel'[d]) = {}
      BY <1>i, <2>2, <2>3 DEF Queued
    <2>7. \A b \in Instances : \A i, j \in DOMAIN channel'[b] : channel'[b][i] = channel'[b][j] => i = j
      BY <1>i, <2>2, <2>3 DEF Queued
    <2> QED
      BY <2>1, <2>4, <2>5, <2>6, <2>7 DEF Queued
  <1> QED
    BY <1>1, <1>2, <1>3, <1>4, <1>5, TriggerSteps

LEMMA TriggerInvariance == Spec => []TInv
  <1>1. Init => TInv
    BY Initially, TriggersInitially DEF TInv
  <1>2. TInv /\ [Next]_vars => TInv'
    BY Inductive, QueuedStep, ReadOnceStep DEF TInv
  <1> QED
    BY <1>1, <1>2, PTL DEF Spec
-----------------------------------------------------------------------------
\* Every variable of the updates, their lock, hooks and triggers holds values of its kind.
THEOREM TypesOfUpdateEffects == Spec => []TypeOK
  <1>1. IInv => TypeOK
    BY DEF IInv
  <1> QED
    BY <1>1, Invariance, PTL

\* RegisterChange is entered by one at a time and frees its semaphore, where no wait has timed out.
THEOREM LockBrokenByTimeoutsOnly == Spec => []OnlyTimeoutsBreakTheLock
  <1>1. ASSUME IInv PROVE OnlyTimeoutsBreakTheLock
    <2> SUFFICES ASSUME NEW a \in Instances, a \notin timedOut
                 PROVE  count[a] + Cardinality(Inside(a)) = 1
      BY DEF OnlyTimeoutsBreakTheLock
    <2>1. CASE count[a] = 1 /\ Inside(a) = {}
      BY <2>1, FS_EmptySet
    <2>2. CASE count[a] = 0 /\ \E u \in Updates : Inside(a) = {u}
      BY <2>2, FS_Singleton
    <2> QED
      BY <1>1, <2>1, <2>2 DEF IInv, Guarded
  <1> QED
    BY <1>1, Invariance, PTL

\* A checkpoint holds the changes it is made after: a trigger is stored and handled before its
\* request commits, but the export waits for the rows that are written.
THEOREM CheckpointsAreTrue == Spec => []CheckpointsHoldTheirChanges
  <1>1. IInv => CheckpointsHoldTheirChanges
    BY DEF IInv
  <1> QED
    BY <1>1, Invariance, PTL

\* A web hook that matches a committed change is never lost, but by a failure to look the web hooks
\* up (QueueWebHook only logs it), a crash, a deleted client or an exception while its item waited.
THEOREM HooksAreNotLost == Spec => []HooksAreAccountedFor
  <1>1. ASSUME IInv PROVE HooksAreAccountedFor
    BY <1>1 DEF IInv, HooksKept, HasQueued, Accounted, HooksAreAccountedFor
  <1> QED
    BY <1>1, Invariance, PTL

\* A change gets a second checkpoint, be it the same as the first, only if an instance had read its
\* trigger before another one claimed it: a claimed trigger is not found unhandled again
\* (TimeMachineWorker).
THEOREM OneCheckpointForATrigger == Spec => OneCheckpointPerTrigger
  <1>1. TInv => [\A a \in Instances : CreateCheckPoint(a) =>
                    \A c \in checkpoints : c.after \cap worker[a].claimed \subseteq overlapped]_vars
    BY DEF TInv, ReadOnce, Reads
  <1> QED
    BY <1>1, TriggerInvariance, PTL DEF OneCheckpointPerTrigger
=============================================================================
