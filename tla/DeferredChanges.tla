---------------------------- MODULE DeferredChanges ----------------------------
(***************************************************************************)
(* Changes of a setting that are scheduled for later, or to be reverted    *)
(* later: their rows in the database (DeferredChangeRepository), what      *)
(* administrators do to them (SettingsService, SchedulingService), and     *)
(* the SchedulingWorker of every API instance, which carries them out      *)
(* outside of any transaction of its own: each write commits by itself,    *)
(* and other instances and requests come in between.                       *)
(*                                                                         *)
(* A request runs in one transaction and is one step.  One client with one *)
(* setting stands for all of them.                                         *)
(***************************************************************************)
EXTENDS Integers, FiniteSets

CONSTANTS
    Instances,    \* the API instances over one database
    Values,       \* the values of the setting
    InitialValue,
    Horizon,      \* bound: the time is 0..Horizon
    MaxChanges,   \* bound: rows ever scheduled
    MaxEdits,     \* bound: what users and administrators do
    MaxFaults     \* bound: crashes of an instance and failed applications

Never == 0        \* of a revert time: there is none

ASSUME InstancesAssumption == IsFiniteSet(Instances)
ASSUME ValuesAssumption == InitialValue \in Values
ASSUME BoundsAssumption ==
    /\ Horizon \in Nat /\ MaxChanges \in Nat
    /\ MaxEdits \in Nat /\ MaxFaults \in Nat

Ids == 1..MaxChanges
Times == 1..Horizon

\* A row: when it is due, whether its change set still has ApplyAtUtc, when it is to
\* be reverted, the value it sets; for a revert, the change it reverts.
Row == [id : Ids, at : Times, applyAt : BOOLEAN, revertAt : Times \cup {Never},
        value : Values, reverts : Ids \cup {0}]

VARIABLES
    \* The database.
    rows,        \* the scheduled changes
    value,       \* the value of the setting
    previous,    \* the last but one entry of its history, in the order recorded
    latest,      \* the last entry
    nextId,
    now,
    \* The worker of each instance.
    pc,
    due,         \* the rows it has read, as they were
    claimed,     \* the rows it handles, as it holds them
    change,      \* the one it applies: a set of at most one row
    original,    \* the value it found for it
    \* What happened.
    applied,     \* how often each change was carried out
    reverted,    \* the changes whose revert has been scheduled
    temporary,   \* the changes that set a value which is to be reverted
    deleted,     \* the changes an administrator deleted
    edits, faults

database == <<rows, value, previous, latest, nextId>>
worker == <<pc, due, claimed, change, original>>
history == <<applied, reverted, temporary, deleted>>
vars == <<database, now, worker, history, edits, faults>>

Init ==
    /\ rows = {}
    /\ value = InitialValue /\ previous = InitialValue /\ latest = InitialValue
    /\ nextId = 1
    /\ now = 0
    /\ pc = [i \in Instances |-> "idle"]
    /\ due = [i \in Instances |-> {}]
    /\ claimed = [i \in Instances |-> {}]
    /\ change = [i \in Instances |-> {}]
    /\ original = [i \in Instances |-> InitialValue]
    /\ applied = [c \in Ids |-> 0]
    /\ reverted = {} /\ temporary = {} /\ deleted = {}
    /\ edits = 0 /\ faults = 0

RowsOf(c) == {x \in rows : x.id = c}

\* UPDATE ... WHERE id = ...: every column, of a row that is still there.
Updated(x) == {y \in rows : y.id # x.id} \cup {x}

\* Mutant: the row is only deleted as the worker has read it.
WithoutVersion(x) == rows \ {x}
\* DELETE ... WHERE id = ....
Without(x) == {y \in rows : y.id # x.id}

\* Schedule saves a new row.
Scheduled(at, applyAt, revertAt, v, reverts) ==
    [id |-> nextId, at |-> at, applyAt |-> applyAt, revertAt |-> revertAt,
     value |-> v, reverts |-> reverts]

Tick ==
    /\ now < Horizon
    /\ now' = now + 1
    /\ UNCHANGED <<database, worker, history, edits, faults>>

-----------------------------------------------------------------------------
(* What users and administrators do.                                       *)

Edit == edits < MaxEdits /\ edits' = edits + 1

\* An update with ApplyAtUtc, and perhaps RevertAtUtc, which has to come later.
ScheduleChange(at, revertAt, v) ==
    /\ Edit
    /\ nextId <= MaxChanges
    /\ revertAt # Never => revertAt > at
    /\ rows' = rows \cup {Scheduled(at, TRUE, revertAt, v, 0)}
    /\ nextId' = nextId + 1
    /\ UNCHANGED <<value, previous, latest, now, worker, applied, reverted, temporary, deleted,
                   faults>>

\* An immediate update, and perhaps its revert.
UpdateSettingValue(v, revertAt) ==
    /\ Edit
    /\ v # value
    /\ value' = v /\ previous' = latest /\ latest' = v
    /\ IF revertAt = Never THEN UNCHANGED <<rows, nextId>>
       ELSE /\ nextId <= MaxChanges
            /\ rows' = rows \cup {Scheduled(revertAt, FALSE, Never, value, 0)}
            /\ nextId' = nextId + 1
    /\ UNCHANGED <<now, worker, applied, reverted, temporary, deleted, faults>>

RescheduleChange(x, at) ==
    /\ Edit
    /\ x \in rows
    /\ rows' = Updated([x EXCEPT !.at = at])
    /\ UNCHANGED <<value, previous, latest, nextId, now, worker, applied, reverted, temporary,
                   deleted, faults>>

DeleteDeferredChange(x) ==
    /\ Edit
    /\ x \in rows
    /\ rows' = Without(x)
    /\ deleted' = deleted \cup {x.id}
    /\ UNCHANGED <<value, previous, latest, nextId, now, worker, applied, reverted, temporary,
                   faults>>

-----------------------------------------------------------------------------
(* SchedulingWorker.EvaluateDeferredChanges.                               *)

Fault == faults < MaxFaults /\ faults' = faults + 1

GoTo(i, place) == pc' = [pc EXCEPT ![i] = place]
Earliest(S) == {x \in S : \A y \in S : x.at <= y.at}
Holds(i, x) == change[i] = {x}
Done(i) == change' = [change EXCEPT ![i] = {}]

\* Mutant: what is due this very moment is left out.
IsOverdue(x) == x.at < now
\* ExecuteAtUtc is at or before the evaluation time.
IsDue(x) == x.at <= now

\* GetChangesToExecute reads what is due ...
ReadDueChanges(i) ==
    /\ pc[i] = "idle"
    /\ \E x \in rows : IsDue(x)
    /\ due' = [due EXCEPT ![i] = {x \in rows : IsDue(x)}]
    /\ GoTo(i, "claim")
    /\ UNCHANGED <<database, now, claimed, change, original, history, edits, faults>>

\* Mutant: a row that is gone is inserted again.
TakenToBeThere(x) == TRUE
\* The update of a row that is gone fails (StaleObjectStateException).
StillThere(x) == RowsOf(x.id) # {}

\* The update sets HandlingInstance, which nothing reads: the row is as it was read.
ClaimedRows(x) == Updated(x)

\* ... and claims it, one by one.  Without a version, an update misses only a row that
\* is gone; what changed in the row is overwritten.
Claim(i) ==
    /\ pc[i] = "claim"
    /\ \E x \in Earliest(due[i]) :
          /\ due' = [due EXCEPT ![i] = @ \ {x}]
          /\ IF StillThere(x)
             THEN rows' = ClaimedRows(x) /\ claimed' = [claimed EXCEPT ![i] = @ \cup {x}]
             ELSE UNCHANGED <<rows, claimed>>
    /\ UNCHANGED <<value, previous, latest, nextId, now, pc, change, original, history,
                   edits, faults>>

ClaimsMade(i) ==
    /\ pc[i] = "claim" /\ due[i] = {}
    /\ GoTo(i, "next")
    /\ UNCHANGED <<database, now, due, claimed, change, original, history, edits, faults>>

EvaluationEnds(i) ==
    /\ pc[i] = "next" /\ claimed[i] = {}
    /\ GoTo(i, "idle")
    /\ UNCHANGED <<database, now, due, claimed, change, original, history, edits, faults>>

Takes(i, x) ==
    /\ pc[i] = "next" /\ x \in Earliest(claimed[i])
    /\ claimed' = [claimed EXCEPT ![i] = @ \ {x}]

\* ApplyAtUtc is cleared first, lest applying it schedules it once more.
ClearApplyAt(i, x) ==
    /\ Takes(i, x)
    /\ x.applyAt /\ StillThere(x)
    /\ rows' = Updated([x EXCEPT !.applyAt = FALSE])
    /\ change' = [change EXCEPT ![i] = {[x EXCEPT !.applyAt = FALSE]}]
    /\ GoTo(i, "load")
    /\ UNCHANGED <<value, previous, latest, nextId, now, due, original, history, edits, faults>>

\* The row has gone, or the update fails: the change is logged and left.
ClearFails(i, x) ==
    /\ Takes(i, x)
    /\ x.applyAt
    /\ (~StillThere(x) /\ UNCHANGED faults) \/ Fault
    /\ UNCHANGED <<database, now, pc, due, change, original, history, edits>>

NothingToClear(i, x) ==
    /\ Takes(i, x)
    /\ ~x.applyAt
    /\ change' = [change EXCEPT ![i] = {x}]
    /\ GoTo(i, "load")
    /\ UNCHANGED <<database, now, due, original, history, edits, faults>>

-----------------------------------------------------------------------------
(* SettingsService.UpdateSettingValues, as the worker calls it.            *)

\* Where an application goes when the value is to change ("dirty").
\* Mutant: the value is saved before its revert.
SaveFirst(x) == "save"
RevertFirst(x) == IF x.revertAt # Never THEN "revert" ELSE "save"
LoadClient(i) ==
    /\ pc[i] = "load"
    /\ \E x \in change[i] :
          /\ original' = [original EXCEPT ![i] = value]
          /\ GoTo(i, IF x.value # value THEN RevertFirst(x)
                     ELSE IF x.revertAt # Never THEN "ensure" ELSE "remove")
          /\ applied' = IF x.value # value THEN applied ELSE [applied EXCEPT ![x.id] = @ + 1]
    /\ UNCHANGED <<database, now, due, claimed, change, reverted, temporary, deleted,
                   edits, faults>>

\* The revert, to the value it found.
ScheduleRevert(i) ==
    /\ pc[i] = "revert" /\ nextId <= MaxChanges
    /\ \E x \in change[i] :
          /\ rows' = rows \cup {Scheduled(x.revertAt, FALSE, Never, original[i], x.id)}
          /\ reverted' = reverted \cup {x.id}
    /\ nextId' = nextId + 1
    /\ GoTo(i, "save")
    /\ UNCHANGED <<value, previous, latest, now, due, claimed, change, original, applied, temporary,
                   deleted, edits, faults>>

\* EnsureRevertScheduledAfterPartialApply: unless there is a change at that time, a revert
\* to the last but one value of the history.
EnsureRevert(i) ==
    /\ pc[i] = "ensure"
    /\ \E x \in change[i] :
          \/ /\ \E y \in rows : y.at = x.revertAt
             /\ UNCHANGED <<rows, nextId, reverted>>
          \/ /\ \A y \in rows : y.at # x.revertAt
             /\ nextId <= MaxChanges
             /\ rows' = rows \cup
                   {Scheduled(x.revertAt, FALSE, Never, previous, x.id)}
             /\ nextId' = nextId + 1
             /\ reverted' = reverted \cup {x.id}
    /\ GoTo(i, "remove")
    /\ UNCHANGED <<value, previous, latest, now, due, claimed, change, original, applied, temporary,
                   deleted, edits, faults>>

\* UpdateClient.
SaveValue(i) ==
    /\ pc[i] = "save"
    /\ \E x \in change[i] :
          /\ value' = x.value
          /\ applied' = [applied EXCEPT ![x.id] = @ + 1]
          /\ temporary' = IF x.revertAt = Never THEN temporary ELSE temporary \cup {x.id}
    /\ GoTo(i, "record")
    /\ UNCHANGED <<rows, previous, latest, nextId, now, due, claimed, change, original, reverted,
                   deleted, edits, faults>>

RecordSettingChanges(i) ==
    /\ pc[i] = "record"
    /\ \E x \in change[i] : latest' = x.value
    /\ previous' = latest
    /\ GoTo(i, "remove")
    /\ UNCHANGED <<rows, value, nextId, now, due, claimed, change, original, history,
                   edits, faults>>

Remove(i) ==
    /\ pc[i] = "remove"
    /\ \E x \in change[i] : rows' = Without(x)
    /\ Done(i)
    /\ GoTo(i, "next")
    /\ UNCHANGED <<value, previous, latest, nextId, now, due, claimed, original, history,
                   edits, faults>>

\* Mutant: a change that fails is removed all the same.
RowsAfterFailure(i) == {y \in rows : \A x \in change[i] : y.id # x.id}
\* An exception is logged, and the row stays for the next evaluation.
RowsKept(i) == rows

ApplicationFails(i) ==
    /\ Fault
    /\ pc[i] \in {"load", "revert", "ensure", "save", "record", "remove"}
    /\ rows' = RowsKept(i)
    /\ Done(i)
    /\ GoTo(i, "next")
    /\ UNCHANGED <<value, previous, latest, nextId, now, due, claimed, original, history, edits>>

\* The instance is killed, and starts again with nothing in hand.
Crash(i) ==
    /\ Fault
    /\ pc[i] # "idle"
    /\ GoTo(i, "idle")
    /\ due' = [due EXCEPT ![i] = {}]
    /\ claimed' = [claimed EXCEPT ![i] = {}]
    /\ Done(i)
    /\ UNCHANGED <<database, now, original, history, edits>>

Work(i) ==
    \/ ReadDueChanges(i) \/ Claim(i) \/ ClaimsMade(i) \/ EvaluationEnds(i)
    \/ \E x \in claimed[i] : ClearApplyAt(i, x) \/ ClearFails(i, x) \/ NothingToClear(i, x)
    \/ LoadClient(i) \/ ScheduleRevert(i) \/ EnsureRevert(i) \/ SaveValue(i)
    \/ RecordSettingChanges(i) \/ Remove(i)

Administration ==
    \/ \E at \in Times, revertAt \in Times \cup {Never}, v \in Values :
          ScheduleChange(at, revertAt, v)
    \/ \E v \in Values, revertAt \in Times \cup {Never} : UpdateSettingValue(v, revertAt)
    \/ \E x \in rows : DeleteDeferredChange(x) \/ \E at \in Times : RescheduleChange(x, at)

Next ==
    \/ Tick
    \/ Administration
    \/ \E i \in Instances : Work(i) \/ ApplicationFails(i) \/ Crash(i)

Spec == Init /\ [][Next]_vars

\* Time passes and the workers work; nobody has to administrate, fail or crash.
FairSpec == Spec /\ WF_vars(Tick) /\ \A i \in Instances : WF_vars(Work(i))

-----------------------------------------------------------------------------
(* Correctness.                                                            *)

TypeOK ==
    /\ rows \subseteq Row
    /\ \A x, y \in rows : x.id = y.id => x = y
    /\ value \in Values /\ previous \in Values /\ latest \in Values
    /\ nextId \in 1..(MaxChanges + 1)
    /\ now \in 0..Horizon
    /\ pc \in [Instances -> {"idle", "claim", "next", "load", "revert", "ensure", "save",
                             "record", "remove"}]
    /\ due \in [Instances -> SUBSET Row] /\ claimed \in [Instances -> SUBSET Row]
    /\ change \in [Instances -> SUBSET Row]
    /\ original \in [Instances -> Values]
    /\ applied \in [Ids -> Nat]
    /\ reverted \subseteq Ids /\ temporary \subseteq Ids /\ deleted \subseteq Ids
    /\ edits \in Nat /\ faults \in Nat

\* A scheduled change is not lost: its row only goes when it has been carried out or an
\* administrator has deleted it, whoever fails, is killed or writes to it meanwhile.
NothingIsLost ==
    \A c \in Ids : (c < nextId /\ RowsOf(c) = {}) => (applied[c] > 0 \/ c \in deleted)

\* A change that is deleted does not come back, although workers still hold its row and
\* write all of it: their update does not insert it.
DeletedStaysDeleted == \A x \in rows : x.id \notin deleted

\* A value that is to be reverted is never set without its revert in the database.
TemporaryHasRevert == temporary \subseteq reverted

\* An instance carries a change out once, if it does, and again only after a fault: the row
\* is gone when it has.
AppliedOncePerInstance ==
    \A c \in Ids : applied[c] <= Cardinality(Instances) + faults

\* A change that is due does not stay so: it is carried out and removed, unless it is
\* deleted or rescheduled.
DueChangesEnd ==
    \A c \in Ids : []<>(\A x \in rows : x.id = c => x.at > now)
=============================================================================
