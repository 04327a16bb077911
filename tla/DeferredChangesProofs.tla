------------------------- MODULE DeferredChangesProofs -------------------------
(***************************************************************************)
(* Proofs about DeferredChanges, for any instances, values and bounds.     *)
(* A step does one of four things to the rows (RowSteps): it leaves them,  *)
(* adds one with a fresh id, writes one that is still there, or removes    *)
(* one, and then only a change that has been applied or that an            *)
(* administrator deletes.  What the workers hold is old, but its ids have  *)
(* been given out (Known), so that writing it revives nothing.             *)
(* Counting how often a change is carried out needs the instances that     *)
(* hold its row still, and those that have applied it and not yet removed  *)
(* it (Counted).                                                           *)
(***************************************************************************)
EXTENDS DeferredChanges, FiniteSetTheorems, TLAPS

\* Ids are given out once, in order.
Known ==
    /\ \A x \in rows : x.id < nextId
    /\ \A i \in Instances : \A x \in due[i] \cup claimed[i] \cup change[i] : x.id < nextId
    /\ \A c \in deleted : c < nextId

\* A worker applies one change at a time; it schedules a revert for a change that has one,
\* before it saves its value, and before it removes a row it has applied it.
Progress ==
    /\ \A i \in Instances : \A x, y \in change[i] : x = y
    /\ \A i \in Instances : pc[i] \in {"revert", "ensure"} =>
          \A x \in change[i] : x.revertAt # Never
    /\ \A i \in Instances : pc[i] = "save" =>
          \A x \in change[i] : x.revertAt # Never => x.id \in reverted
    /\ \A i \in Instances : pc[i] \in {"record", "remove", "ensure"} =>
          \A x \in change[i] : applied[x.id] > 0

IInv ==
    TypeOK /\ Known /\ Progress /\ NothingIsLost /\ DeletedStaysDeleted /\ TemporaryHasRevert
-----------------------------------------------------------------------------
LEMMA Initially == Init => IInv
  BY ValuesAssumption, BoundsAssumption
  DEF Init, IInv, TypeOK, Known, Progress, NothingIsLost, DeletedStaysDeleted,
      TemporaryHasRevert, Ids, Times

\* What a worker holds are rows with a known id.
LEMMA HeldRows ==
  ASSUME IInv, NEW i \in Instances, NEW x \in due[i] \cup claimed[i] \cup change[i]
  PROVE  x \in Row /\ x.id \in Ids /\ x.id < nextId
  BY DEF IInv, TypeOK, Known, Row

\* A row that is scheduled has the next id.
LEMMA ScheduledRow ==
  ASSUME IInv, nextId <= MaxChanges, NEW at \in Times, NEW applyAt \in BOOLEAN,
         NEW revertAt \in Times \cup {Never}, NEW v \in Values, NEW c \in Ids \cup {0}
  PROVE  /\ Scheduled(at, applyAt, revertAt, v, c) \in Row
         /\ Scheduled(at, applyAt, revertAt, v, c).id = nextId
  <1>1. nextId \in Ids
    BY BoundsAssumption DEF IInv, TypeOK, Ids
  <1> QED
    BY <1>1 DEF Scheduled, Row

Kept == rows' = rows /\ nextId' = nextId
Added(x) ==
    /\ x.id = nextId /\ nextId <= MaxChanges
    /\ rows' = rows \cup {x} /\ nextId' = nextId + 1
Written(x) == StillThere(x) /\ rows' = Updated(x) /\ nextId' = nextId
Removed(x) ==
    /\ x.id \in deleted' \/ applied'[x.id] > 0
    /\ rows' = Without(x) /\ nextId' = nextId

\* What a step does to the rows.
LEMMA RowSteps ==
  ASSUME IInv, [Next]_vars
  PROVE  Kept \/ \E x \in Row : Added(x) \/ Written(x) \/ Removed(x)
  <1> USE DEF Kept, Added, Written, Removed, database, worker, history
  <1>1. CASE UNCHANGED vars \/ Tick
    BY <1>1 DEF vars, Tick
  <1>2. ASSUME NEW at \in Times, NEW revertAt \in Times \cup {Never}, NEW v \in Values,
               ScheduleChange(at, revertAt, v)
        PROVE  \E x \in Row : Added(x)
    <2> DEFINE x == Scheduled(at, TRUE, revertAt, v, 0)
    <2>1. nextId <= MaxChanges /\ nextId \in Int
      BY <1>2 DEF ScheduleChange, IInv, TypeOK
    <2>2. x \in Row /\ x.id = nextId
      BY <2>1, ScheduledRow
    <2>3. rows' = rows \cup {x} /\ nextId' = nextId + 1
      BY <1>2 DEF ScheduleChange
    <2> HIDE DEF x
    <2> QED
      BY <2>1, <2>2, <2>3, BoundsAssumption
  <1>3. ASSUME NEW v \in Values, NEW revertAt \in Times \cup {Never},
               UpdateSettingValue(v, revertAt)
        PROVE  Kept \/ \E x \in Row : Added(x)
    <2>1. CASE revertAt = Never
      BY <1>3, <2>1 DEF UpdateSettingValue
    <2>2. CASE revertAt # Never
      <3> DEFINE x == Scheduled(revertAt, FALSE, Never, value, 0)
      <3>1. nextId <= MaxChanges /\ nextId \in Int /\ value \in Values /\ revertAt \in Times
        BY <1>3, <2>2 DEF UpdateSettingValue, IInv, TypeOK
      <3>2. x \in Row /\ x.id = nextId
        BY <3>1, ScheduledRow
      <3>3. rows' = rows \cup {x} /\ nextId' = nextId + 1
        BY <1>3, <2>2 DEF UpdateSettingValue
      <3> HIDE DEF x
      <3> QED
        BY <3>1, <3>2, <3>3, BoundsAssumption
    <2> QED
      BY <2>1, <2>2
  <1>4. ASSUME NEW x \in rows, NEW at \in Times, RescheduleChange(x, at)
        PROVE  \E y \in Row : Written(y)
    <2>1. x \in Row
      BY DEF IInv, TypeOK
    <2>2. [x EXCEPT !.at = at] \in Row /\ [x EXCEPT !.at = at].id = x.id
      BY <2>1 DEF Row
    <2> QED
      BY <1>4, <2>2 DEF RescheduleChange, StillThere, RowsOf
  <1>5. ASSUME NEW x \in rows, DeleteDeferredChange(x) PROVE \E y \in Row : Removed(y)
    BY <1>5 DEF DeleteDeferredChange, IInv, TypeOK
  <1>6. ASSUME NEW i \in Instances, Work(i)
        PROVE  Kept \/ \E x \in Row : Added(x) \/ Written(x) \/ Removed(x)
    <2>1. CASE ReadDueChanges(i) \/ ClaimsMade(i) \/ EvaluationEnds(i) \/ LoadClient(i)
               \/ SaveValue(i) \/ RecordSettingChanges(i)
      BY <2>1 DEF ReadDueChanges, ClaimsMade, EvaluationEnds, LoadClient, SaveValue,
                  RecordSettingChanges
    <2>2. CASE Claim(i)
      BY <2>2, HeldRows DEF Claim, ClaimedRows, Earliest
    <2>3. ASSUME NEW x \in claimed[i], ClearApplyAt(i, x) PROVE \E y \in Row : Written(y)
      <3>1. x \in Row
        BY HeldRows
      <3>2. [x EXCEPT !.applyAt = FALSE] \in Row /\ [x EXCEPT !.applyAt = FALSE].id = x.id
        BY <3>1 DEF Row
      <3> QED
        BY <2>3, <3>2 DEF ClearApplyAt, StillThere, RowsOf
    <2>4. ASSUME NEW x \in claimed[i], ClearFails(i, x) \/ NothingToClear(i, x) PROVE Kept
      BY <2>4 DEF ClearFails, NothingToClear
    <2>5. ASSUME NEW x \in change[i], NEW v \in Values, x.revertAt # Never,
                 nextId <= MaxChanges, nextId' = nextId + 1,
                 rows' = rows \cup {Scheduled(x.revertAt, FALSE, Never, v, x.id)}
          PROVE  \E y \in Row : Added(y)
      <3> DEFINE y == Scheduled(x.revertAt, FALSE, Never, v, x.id)
      <3>1. x.revertAt \in Times /\ x.id \in Ids /\ nextId \in Int
        BY <2>5, HeldRows DEF Row, IInv, TypeOK
      <3>2. y \in Row /\ y.id = nextId
        BY <2>5, <3>1, ScheduledRow
      <3>3. rows' = rows \cup {y}
        BY <2>5
      <3> HIDE DEF y
      <3>4. Added(y)
        BY <2>5, <3>2, <3>3 DEF Added
      <3> QED
        BY <3>2, <3>4
    <2>6. CASE ScheduleRevert(i)
      <3>1. PICK x \in change[i] :
              rows' = rows \cup {Scheduled(x.revertAt, FALSE, Never, original[i], x.id)}
        BY <2>6 DEF ScheduleRevert
      <3>2. original[i] \in Values /\ nextId <= MaxChanges /\ nextId' = nextId + 1
        BY <2>6 DEF ScheduleRevert, IInv, TypeOK
      <3>3. x.revertAt # Never
        BY <2>6 DEF ScheduleRevert, IInv, Progress
      <3> QED
        BY <2>5, <3>1, <3>2, <3>3
    <2>8. CASE EnsureRevert(i)
      <3>1. PICK x \in change[i] :
              \/ Kept
              \/ /\ rows' = rows \cup {Scheduled(x.revertAt, FALSE, Never, previous, x.id)}
                 /\ nextId <= MaxChanges /\ nextId' = nextId + 1
        BY <2>8 DEF EnsureRevert
      <3>2. previous \in Values /\ x.revertAt # Never
        BY <2>8 DEF EnsureRevert, IInv, TypeOK, Progress
      <3> QED
        BY <2>5, <3>1, <3>2
    <2>7. CASE Remove(i)
      <3>1. PICK x \in change[i] : rows' = Without(x)
        BY <2>7 DEF Remove
      <3>2. applied[x.id] > 0 /\ applied' = applied
        BY <2>7 DEF Remove, IInv, Progress
      <3> QED
        BY <2>7, <3>1, <3>2, HeldRows DEF Remove
    <2> QED
      BY <1>6, <2>1, <2>2, <2>3, <2>4, <2>6, <2>7, <2>8 DEF Work
  <1>7. ASSUME NEW i \in Instances, ApplicationFails(i) \/ Crash(i) PROVE Kept
    BY <1>7 DEF ApplicationFails, Crash, RowsKept
  <1> QED
    BY <1>1, <1>2, <1>3, <1>4, <1>5, <1>6, <1>7 DEF Next, Administration
-----------------------------------------------------------------------------
LEMMA TypeStep == IInv /\ [Next]_vars => TypeOK'
  <1> SUFFICES ASSUME IInv, [Next]_vars PROVE TypeOK'
    OBVIOUS
  <1> USE DEF database, worker, history
  <1>1. /\ rows' \subseteq Row
        /\ \A x, y \in rows' : x.id = y.id => x = y
        /\ nextId' \in 1..(MaxChanges + 1)
    <2> USE DEF IInv, TypeOK, Known
    <2>1. CASE Kept
      BY <2>1 DEF Kept
    <2>2. ASSUME NEW x \in Row, Added(x) \/ Written(x) \/ Removed(x)
          PROVE  /\ rows' \subseteq Row
                 /\ \A y, z \in rows' : y.id = z.id => y = z
                 /\ nextId' \in 1..(MaxChanges + 1)
      BY <2>2, BoundsAssumption DEF Added, Written, Removed, Updated, Without
    <2> QED
      BY <2>1, <2>2, RowSteps
  <1> USE <1>1 DEF IInv, TypeOK, Edit, Fault, GoTo, Done
  <1>2. CASE UNCHANGED vars \/ Tick
    BY <1>2, BoundsAssumption DEF vars, Tick
  <1>3. ASSUME NEW at \in Times, NEW revertAt \in Times \cup {Never}, NEW v \in Values,
               ScheduleChange(at, revertAt, v)
        PROVE  TypeOK'
    <2>1. /\ UNCHANGED <<value, previous, latest, now, pc, due, claimed, change, original,
                         applied, reverted, temporary, deleted, faults>>
          /\ edits' = edits + 1
      BY <1>3 DEF ScheduleChange
    <2> QED
      BY <2>1
  <1>4. ASSUME NEW v \in Values, NEW revertAt \in Times \cup {Never},
               UpdateSettingValue(v, revertAt)
        PROVE  TypeOK'
    BY <1>4 DEF UpdateSettingValue
  <1>5. ASSUME NEW x \in rows, NEW at \in Times, RescheduleChange(x, at) PROVE TypeOK'
    BY <1>5 DEF RescheduleChange
  <1>6. ASSUME NEW x \in rows, DeleteDeferredChange(x) PROVE TypeOK'
    BY <1>6 DEF DeleteDeferredChange, Row
  <1>7. ASSUME NEW i \in Instances, Work(i) PROVE TypeOK'
    <2>1. CASE ReadDueChanges(i)
      BY <2>1 DEF ReadDueChanges
    <2>2. CASE Claim(i)
      BY <2>2 DEF Claim, Earliest
    <2>3. CASE ClaimsMade(i) \/ EvaluationEnds(i)
      BY <2>3 DEF ClaimsMade, EvaluationEnds
    <2>4. ASSUME NEW x \in claimed[i], ClearApplyAt(i, x) PROVE TypeOK'
      <3>1. x \in Row
        BY <2>4
      <3>2. [x EXCEPT !.applyAt = FALSE] \in Row
        BY <3>1 DEF Row
      <3> QED
        BY <2>4, <3>2 DEF ClearApplyAt, Takes
    <2>5. ASSUME NEW x \in claimed[i], ClearFails(i, x) \/ NothingToClear(i, x) PROVE TypeOK'
      BY <2>5 DEF ClearFails, NothingToClear, Takes
    <2>6. CASE LoadClient(i)
      <3>1. PICK x \in change[i] :
              applied' = IF x.value # value THEN applied ELSE [applied EXCEPT ![x.id] = @ + 1]
        BY <2>6 DEF LoadClient
      <3>2. applied' \in [Ids -> Nat]
        BY <3>1, HeldRows
      <3> QED
        BY <2>6, <3>2 DEF LoadClient, RevertFirst
    <2>7. CASE ScheduleRevert(i)
      <3>1. /\ \E x \in change[i] : reverted' = reverted \cup {x.id}
            /\ pc' = [pc EXCEPT ![i] = "save"]
            /\ UNCHANGED <<value, previous, latest, now, due, claimed, change, original,
                           applied, temporary, deleted, edits, faults>>
        BY <2>7 DEF ScheduleRevert
      <3>2. reverted' \subseteq Ids
        BY <3>1, HeldRows
      <3> QED
        BY <3>1, <3>2
    <2>8. CASE EnsureRevert(i)
      <3>1. /\ \E x \in change[i] : reverted' \in {reverted, reverted \cup {x.id}}
            /\ pc' = [pc EXCEPT ![i] = "remove"]
            /\ UNCHANGED <<value, previous, latest, now, due, claimed, change, original,
                           applied, temporary, deleted, edits, faults>>
        BY <2>8 DEF EnsureRevert
      <3>2. reverted' \subseteq Ids
        BY <3>1, HeldRows
      <3> QED
        BY <3>1, <3>2
    <2>9. CASE SaveValue(i)
      <3>1. PICK x \in change[i] :
              /\ value' = x.value
              /\ applied' = [applied EXCEPT ![x.id] = @ + 1]
              /\ temporary' = IF x.revertAt = Never THEN temporary ELSE temporary \cup {x.id}
        BY <2>9 DEF SaveValue
      <3>2. x.id \in Ids /\ x.value \in Values
        BY HeldRows DEF Row
      <3> QED
        BY <2>9, <3>1, <3>2 DEF SaveValue
    <2>10. CASE RecordSettingChanges(i)
      BY <2>10 DEF RecordSettingChanges, Row
    <2>11. CASE Remove(i)
      BY <2>11 DEF Remove
    <2> QED
      BY <1>7, <2>1, <2>2, <2>3, <2>4, <2>5, <2>6, <2>7, <2>8, <2>9, <2>10, <2>11 DEF Work
  <1>8. ASSUME NEW i \in Instances, ApplicationFails(i) \/ Crash(i) PROVE TypeOK'
    BY <1>8 DEF ApplicationFails, Crash
  <1> QED
    BY <1>2, <1>3, <1>4, <1>5, <1>6, <1>7, <1>8 DEF Next, Administration
-----------------------------------------------------------------------------
\* What has happened stays so.
LEMMA HistoryGrows ==
  ASSUME IInv, [Next]_vars
  PROVE  /\ nextId <= nextId' /\ reverted \subseteq reverted'
         /\ \A c \in Ids : applied[c] > 0 => applied'[c] > 0
         /\ \/ deleted' = deleted
            \/ \E x \in rows :
                  deleted' = deleted \cup {x.id} /\ rows' = Without(x) /\ nextId' = nextId
  <1>1. nextId <= nextId'
    BY RowSteps DEF Kept, Added, Written, Removed, IInv, TypeOK
  <1>2. deleted' = deleted \/ \E x \in rows :
          deleted' = deleted \cup {x.id} /\ rows' = Without(x) /\ nextId' = nextId
    BY DEF Next, vars, history, Administration, Work, Tick, ScheduleChange, UpdateSettingValue,
           RescheduleChange, DeleteDeferredChange, ReadDueChanges, Claim, ClaimsMade,
           EvaluationEnds, ClearApplyAt, ClearFails, NothingToClear, LoadClient, ScheduleRevert,
           EnsureRevert, SaveValue, RecordSettingChanges, Remove, ApplicationFails, Crash
  <1>3. reverted \subseteq reverted'
    BY DEF Next, vars, history, Administration, Work, Tick, ScheduleChange, UpdateSettingValue,
           RescheduleChange, DeleteDeferredChange, ReadDueChanges, Claim, ClaimsMade,
           EvaluationEnds, ClearApplyAt, ClearFails, NothingToClear, LoadClient, ScheduleRevert,
           EnsureRevert, SaveValue, RecordSettingChanges, Remove, ApplicationFails, Crash
  <1>4. applied' = applied \/ \E c \in Ids : applied' = [applied EXCEPT ![c] = @ + 1]
    <2>1. ASSUME NEW i \in Instances, LoadClient(i) \/ SaveValue(i)
          PROVE  applied' = applied \/ \E c \in Ids : applied' = [applied EXCEPT ![c] = @ + 1]
      BY <2>1, HeldRows DEF LoadClient, SaveValue
    <2> QED
      BY <2>1
      DEF Next, vars, history, Administration, Work, Tick, ScheduleChange, UpdateSettingValue,
          RescheduleChange, DeleteDeferredChange, ReadDueChanges, Claim, ClaimsMade,
          EvaluationEnds, ClearApplyAt, ClearFails, NothingToClear, ScheduleRevert,
          EnsureRevert, RecordSettingChanges, Remove, ApplicationFails, Crash
  <1>5. \A c \in Ids : applied[c] > 0 => applied'[c] > 0
    BY <1>4 DEF IInv, TypeOK
  <1> QED
    BY <1>1, <1>2, <1>3, <1>5

\* What a worker comes to hold is a row, or what it has held.
LEMMA HeldStep ==
  ASSUME IInv, [Next]_vars, NEW i \in Instances,
         NEW x \in due'[i] \cup claimed'[i] \cup change'[i]
  PROVE  \E y \in rows \cup due[i] \cup claimed[i] \cup change[i] : x.id = y.id
  <1> DEFINE Held == \E y \in rows \cup due[i] \cup claimed[i] \cup change[i] : x.id = y.id
  <1>1. CASE UNCHANGED worker
    BY <1>1 DEF worker
  <1>2. ASSUME NEW j \in Instances, Work(j), x \notin due[i] \cup claimed[i] \cup change[i]
        PROVE  Held
    <2> USE DEF IInv, TypeOK, worker
    <2>1. CASE ReadDueChanges(j)
      BY <1>2, <2>1 DEF ReadDueChanges
    <2>2. CASE Claim(j)
      BY <1>2, <2>2 DEF Claim, Earliest
    <2>3. ASSUME NEW y \in claimed[j], ClearApplyAt(j, y) PROVE Held
      <3>1. y \in Row
        BY <2>3
      <3>2. [y EXCEPT !.applyAt = FALSE].id = y.id
        BY <3>1 DEF Row
      <3> QED
        BY <1>2, <2>3, <3>2 DEF ClearApplyAt, Takes
    <2>4. ASSUME NEW y \in claimed[j], ClearFails(j, y) \/ NothingToClear(j, y) PROVE Held
      BY <1>2, <2>4 DEF ClearFails, NothingToClear, Takes
    <2>5. CASE ClaimsMade(j) \/ EvaluationEnds(j) \/ LoadClient(j) \/ ScheduleRevert(j)
               \/ EnsureRevert(j) \/ SaveValue(j) \/ RecordSettingChanges(j)
      BY <1>2, <2>5
      DEF ClaimsMade, EvaluationEnds, LoadClient, ScheduleRevert, EnsureRevert, SaveValue,
          RecordSettingChanges
    <2>6. CASE Remove(j)
      BY <1>2, <2>6 DEF Remove, Done
    <2> QED
      BY <1>2, <2>1, <2>2, <2>3, <2>4, <2>5, <2>6 DEF Work
  <1>3. ASSUME NEW j \in Instances, ApplicationFails(j) \/ Crash(j) PROVE Held
    BY <1>3 DEF ApplicationFails, Crash, Done, IInv, TypeOK
  <1> QED
    BY <1>1, <1>2, <1>3
    DEF Next, vars, worker, Administration, Tick, ScheduleChange, UpdateSettingValue,
        RescheduleChange, DeleteDeferredChange

LEMMA KnownStep == IInv /\ [Next]_vars => Known'
  <1> SUFFICES ASSUME IInv, [Next]_vars PROVE Known'
    OBVIOUS
  <1>1. \A x \in rows : x.id \in Ids /\ x.id < nextId
    BY DEF IInv, TypeOK, Known, Row
  <1>2. nextId \in Int /\ nextId' \in Int /\ nextId <= nextId'
    BY TypeStep, HistoryGrows DEF IInv, TypeOK
  <1>3. \A x \in rows' : x.id < nextId'
    <2>1. CASE Kept
      BY <1>1, <2>1 DEF Kept
    <2>2. ASSUME NEW y \in Row, Added(y) \/ Written(y) \/ Removed(y), NEW x \in rows'
          PROVE  x.id < nextId'
      BY <1>1, <1>2, <2>2 DEF Added, Written, Removed, Updated, Without, StillThere, RowsOf, Ids
    <2> QED
      BY <2>1, <2>2, RowSteps
  <1>4. ASSUME NEW i \in Instances, NEW x \in (due[i] \cup claimed[i] \cup change[i])'
        PROVE  x.id < nextId'
    <2>1. PICK y \in rows \cup due[i] \cup claimed[i] \cup change[i] : x.id = y.id
      BY <1>4, HeldStep
    <2>2. y.id \in Ids /\ y.id < nextId
      BY <1>1, HeldRows
    <2> QED
      BY <1>2, <2>1, <2>2 DEF Ids
  <1>5. \A c \in deleted' : c < nextId'
    <2>1. \A c \in deleted : c \in Ids /\ c < nextId
      BY DEF IInv, TypeOK, Known
    <2>2. \A c \in deleted' : c \in deleted \/ \E x \in rows : c = x.id
      BY HistoryGrows
    <2> QED
      BY <1>1, <1>2, <2>1, <2>2 DEF Ids
  <1> QED
    BY <1>3, <1>4, <1>5 DEF Known

LEMMA DeletedStaysDeletedStep == IInv /\ [Next]_vars => DeletedStaysDeleted'
  <1> SUFFICES ASSUME IInv, [Next]_vars PROVE DeletedStaysDeleted'
    OBVIOUS
  <1> USE DEF IInv, DeletedStaysDeleted
  <1>1. CASE deleted' = deleted
    <2>1. nextId \notin deleted
      BY DEF Known, TypeOK
    <2> QED
      BY <1>1, <2>1, RowSteps
      DEF Kept, Added, Written, Removed, Updated, Without, StillThere, RowsOf
  <1>2. ASSUME NEW x \in rows, deleted' = deleted \cup {x.id}, rows' = Without(x)
        PROVE  DeletedStaysDeleted'
    BY <1>2 DEF Without
  <1> QED
    BY <1>1, <1>2, HistoryGrows

LEMMA NothingIsLostStep == IInv /\ [Next]_vars => NothingIsLost'
  <1> SUFFICES ASSUME IInv, [Next]_vars, NEW c \in Ids, c < nextId', RowsOf(c)' = {}
               PROVE  applied'[c] > 0 \/ c \in deleted'
    BY DEF NothingIsLost
  <1>1. CASE c < nextId /\ RowsOf(c) = {}
    BY <1>1, HistoryGrows DEF IInv, NothingIsLost
  <1>2. CASE c < nextId /\ RowsOf(c) # {}
    <2>1. PICK y \in rows : y.id = c
      BY <1>2 DEF RowsOf
    <2>2. y \notin rows' /\ \A x \in rows' : x.id # c
      BY <2>1 DEF RowsOf
    <2> QED
      BY <2>1, <2>2, RowSteps DEF Kept, Added, Written, Removed, Updated, Without
  <1>3. CASE ~(c < nextId)
    <2>1. c = nextId /\ \E x \in rows' : x.id = nextId
      BY <1>3, RowSteps DEF Kept, Added, Written, Removed, IInv, TypeOK, Ids
    <2> QED
      BY <2>1 DEF RowsOf
  <1> QED
    BY <1>1, <1>2, <1>3
LEMMA ProgressStep == IInv /\ [Next]_vars => Progress'
  <1> SUFFICES ASSUME IInv, [Next]_vars PROVE Progress'
    OBVIOUS
  <1>1. CASE UNCHANGED worker
    <2>1. \A i \in Instances : \A x \in change[i] : x.id \in Ids
      BY HeldRows
    <2> QED
      BY <1>1, <2>1, HistoryGrows DEF worker, IInv, Progress
  <1>2. ASSUME NEW i \in Instances, Work(i) \/ ApplicationFails(i) \/ Crash(i)
        PROVE  Progress'
    <2> DEFINE P(j) ==
          /\ \A x, y \in change[j] : x = y
          /\ pc[j] \in {"revert", "ensure"} => \A x \in change[j] : x.revertAt # Never
          /\ pc[j] = "save" =>
                \A x \in change[j] : x.revertAt # Never => x.id \in reverted
          /\ pc[j] \in {"record", "remove", "ensure"} =>
                \A x \in change[j] : applied[x.id] > 0
    <2>1. \A j \in Instances : P(j)
      BY DEF IInv, Progress
    <2>2. ASSUME NEW j \in Instances, j # i PROVE P(j)'
      <3>1. pc'[j] = pc[j] /\ change'[j] = change[j]
        BY <1>2, <2>2
        DEF IInv, TypeOK, Work, worker, GoTo, Done, ReadDueChanges, Claim, ClaimsMade,
            EvaluationEnds, ClearApplyAt, ClearFails, NothingToClear, Takes, LoadClient,
            ScheduleRevert, EnsureRevert, SaveValue, RecordSettingChanges, Remove,
            ApplicationFails, Crash
      <3>2. \A x \in change[j] : x.id \in Ids
        BY HeldRows
      <3> QED
        BY <2>1, <3>1, <3>2, HistoryGrows
    <2>3. P(i)'
      <3> USE DEF IInv, TypeOK, GoTo, Done
      <3>1. CASE pc'[i] \in {"idle", "claim", "next"} /\ change'[i] \in {{}, change[i]}
        BY <2>1, <3>1
      <3>2. CASE ReadDueChanges(i) \/ Claim(i) \/ ClaimsMade(i) \/ EvaluationEnds(i)
                 \/ Remove(i) \/ ApplicationFails(i) \/ Crash(i)
        BY <3>1, <3>2
        DEF ReadDueChanges, Claim, ClaimsMade, EvaluationEnds, Remove, ApplicationFails, Crash
      <3>3. ASSUME NEW x \in claimed[i],
                   ClearApplyAt(i, x) \/ NothingToClear(i, x) \/ ClearFails(i, x)
            PROVE  P(i)'
        <4>1. CASE ClearFails(i, x)
          BY <3>1, <4>1 DEF ClearFails, Takes
        <4>2. CASE ClearApplyAt(i, x) \/ NothingToClear(i, x)
          <5>1. pc'[i] = "load" /\ \E y : change'[i] = {y}
            BY <4>2 DEF ClearApplyAt, NothingToClear
          <5> QED
            BY <5>1
        <4> QED
          BY <3>3, <4>1, <4>2
      <3>4. CASE LoadClient(i)
        <4>1. PICK x \in change[i] :
                /\ pc'[i] = IF x.value # value THEN IF x.revertAt # Never THEN "revert" ELSE "save"
                            ELSE IF x.revertAt # Never THEN "ensure" ELSE "remove"
                /\ applied' = IF x.value # value THEN applied
                              ELSE [applied EXCEPT ![x.id] = @ + 1]
          BY <3>4 DEF LoadClient, RevertFirst
        <4>2. change' = change /\ change[i] = {x} /\ x.id \in Ids
          BY <2>1, <3>4, HeldRows DEF LoadClient
        <4> QED
          BY <2>1, <4>1, <4>2
      <3>5. CASE ScheduleRevert(i)
        <4>1. change' = change /\ pc'[i] = "save"
              /\ \E x \in change[i] : reverted' = reverted \cup {x.id}
          BY <3>5 DEF ScheduleRevert
        <4> QED
          BY <2>1, <4>1
      <3>6. CASE EnsureRevert(i)
        <4>1. change' = change /\ pc[i] = "ensure" /\ pc'[i] = "remove" /\ applied' = applied
          BY <3>6 DEF EnsureRevert
        <4> QED
          BY <2>1, <4>1
      <3>7. CASE SaveValue(i)
        <4>1. PICK x \in change[i] :
                /\ applied' = [applied EXCEPT ![x.id] = @ + 1]
                /\ change' = change /\ pc'[i] = "record"
          BY <3>7 DEF SaveValue
        <4>2. change[i] = {x} /\ x.id \in Ids
          BY <2>1, HeldRows
        <4> QED
          BY <4>1, <4>2
      <3>8. CASE RecordSettingChanges(i)
        <4>1. /\ change' = change /\ applied' = applied
              /\ pc[i] = "record" /\ pc'[i] = "remove"
          BY <3>8 DEF RecordSettingChanges, history
        <4> QED
          BY <2>1, <4>1
      <3> QED
        BY <1>2, <3>2, <3>3, <3>4, <3>5, <3>6, <3>7, <3>8 DEF Work
    <2> QED
      BY <2>2, <2>3 DEF Progress
  <1> QED
    BY <1>1, <1>2
    DEF Next, vars, worker, Administration, Tick, ScheduleChange, UpdateSettingValue,
        RescheduleChange, DeleteDeferredChange

LEMMA TemporaryStep == IInv /\ [Next]_vars => TemporaryHasRevert'
  <1> SUFFICES ASSUME IInv, [Next]_vars PROVE TemporaryHasRevert'
    OBVIOUS
  <1>1. CASE temporary' = temporary
    BY <1>1, HistoryGrows DEF IInv, TemporaryHasRevert
  <1>2. ASSUME NEW i \in Instances, SaveValue(i) PROVE TemporaryHasRevert'
    <2>1. PICK x \in change[i] :
            temporary' = IF x.revertAt = Never THEN temporary ELSE temporary \cup {x.id}
      BY <1>2 DEF SaveValue
    <2>2. x.revertAt # Never => x.id \in reverted
      BY <1>2 DEF SaveValue, IInv, Progress
    <2> QED
      BY <2>1, <2>2, HistoryGrows DEF IInv, TemporaryHasRevert
  <1> QED
    BY <1>1, <1>2
    DEF Next, vars, history, Administration, Work, Tick, ScheduleChange, UpdateSettingValue,
        RescheduleChange, DeleteDeferredChange, ReadDueChanges, Claim, ClaimsMade,
        EvaluationEnds, ClearApplyAt, ClearFails, NothingToClear, LoadClient, ScheduleRevert,
        EnsureRevert, RecordSettingChanges, Remove, ApplicationFails, Crash

LEMMA Invariance == Spec => []IInv
  <1>1. IInv /\ [Next]_vars => IInv'
    BY TypeStep, KnownStep, ProgressStep, NothingIsLostStep, DeletedStaysDeletedStep,
       TemporaryStep
    DEF IInv
  <1> QED
    BY Initially, <1>1, PTL DEF Spec

\* The variables keep their types.
THEOREM TypesOfDeferredChanges == Spec => []TypeOK
  BY Invariance, PTL DEF IInv

\* A scheduled change that is neither carried out nor deleted by an administrator keeps its
\* row, whatever the workers, their failures and their crashes do (SchedulingWorker).
THEOREM ScheduledChangesAreNotLost == Spec => []NothingIsLost
  BY Invariance, PTL DEF IInv

\* No worker brings back a change that was deleted, as an update inserts nothing.
THEOREM DeletedChangesStayDeleted == Spec => []DeletedStaysDeleted
  BY Invariance, PTL DEF IInv

\* A temporary value is only saved when its revert has been scheduled.
THEOREM TemporaryValuesHaveReverts == Spec => []TemporaryHasRevert
  BY Invariance, PTL DEF IInv
-----------------------------------------------------------------------------
(* How often a change is carried out.                                      *)

\* Instance i may carry change c out without another look at the database: it holds the
\* row, and has not saved its value yet.
MayApply(i, c) ==
    \/ \E x \in due[i] \cup claimed[i] : x.id = c
    \/ pc[i] \in {"load", "revert", "save"} /\ \E x \in change[i] : x.id = c

\* It has carried it out, and has not removed its row yet.
HasApplied(i, c) == pc[i] \in {"record", "ensure", "remove"} /\ \E x \in change[i] : x.id = c

Ahead(c) == {i \in Instances : MayApply(i, c)}
Behind(c) == {i \in Instances : HasApplied(i, c)}

\* A worker holds a change once: what it read it claims or drops, what it claimed it takes
\* or drops, and it reads again when it holds nothing.
HeldOnce ==
    /\ \A i \in Instances : \A x, y \in due[i] : x.id = y.id => x = y
    /\ \A i \in Instances : \A x, y \in claimed[i] : x.id = y.id => x = y
    /\ \A i \in Instances : \A x \in claimed[i] : \A y \in due[i] \cup change[i] : x.id # y.id
    /\ \A i \in Instances : pc[i] # "claim" => due[i] = {}
    /\ \A i \in Instances : pc[i] \in {"idle", "claim", "next"} => change[i] = {}
    /\ \A i \in Instances : pc[i] = "idle" => claimed[i] = {}

NotYetApplied == \A c \in Ids : c >= nextId => applied[c] = 0

\* As long as there is a row, whoever applied the change is about to remove it, or failed;
\* once it is gone, only those that hold it still may apply it.
Counted ==
    \A c \in Ids :
       IF RowsOf(c) # {} THEN applied[c] <= Cardinality(Behind(c)) + faults
       ELSE applied[c] + Cardinality(Ahead(c)) <= Cardinality(Instances) + faults

CInv == IInv /\ HeldOnce /\ NotYetApplied /\ Counted

LEMMA InitiallyCounted == Init => CInv
  <1> SUFFICES ASSUME Init PROVE CInv
    OBVIOUS
  <1>1. HeldOnce /\ NotYetApplied
    BY DEF Init, HeldOnce, NotYetApplied
  <1>2. ASSUME NEW c \in Ids PROVE RowsOf(c) = {} /\ Ahead(c) = {} /\ applied[c] = 0
    BY <1>2 DEF Init, RowsOf, Ahead, MayApply
  <1>3. Cardinality(Instances) \in Nat /\ Cardinality({}) = 0 /\ faults = 0
    BY InstancesAssumption, FS_CardinalityType, FS_EmptySet DEF Init
  <1>4. Counted
    <2> SUFFICES ASSUME NEW c \in Ids
                 PROVE  RowsOf(c) = {} /\
                        applied[c] + Cardinality(Ahead(c)) <= Cardinality(Instances) + faults
      BY DEF Counted
    <2>1. RowsOf(c) = {} /\ Ahead(c) = {} /\ applied[c] = 0
      BY <1>2
    <2> QED
      BY <1>3, <2>1
  <1> QED
    BY Initially, <1>1, <1>4 DEF CInv

LEMMA HeldOnceStep == IInv /\ HeldOnce /\ [Next]_vars => HeldOnce'
  <1> SUFFICES ASSUME IInv, HeldOnce, [Next]_vars PROVE HeldOnce'
    OBVIOUS
  <1>1. CASE UNCHANGED worker
    BY <1>1 DEF worker, HeldOnce
  <1>2. ASSUME NEW i \in Instances, Work(i) \/ ApplicationFails(i) \/ Crash(i)
        PROVE  HeldOnce'
    <2> DEFINE P(j) ==
          /\ \A x, y \in due[j] : x.id = y.id => x = y
          /\ \A x, y \in claimed[j] : x.id = y.id => x = y
          /\ \A x \in claimed[j] : \A y \in due[j] \cup change[j] : x.id # y.id
          /\ pc[j] # "claim" => due[j] = {}
          /\ pc[j] \in {"idle", "claim", "next"} => change[j] = {}
          /\ pc[j] = "idle" => claimed[j] = {}
    <2>1. \A j \in Instances : P(j)
      BY DEF HeldOnce
    <2>2. ASSUME NEW j \in Instances, j # i PROVE P(j)'
      <3>1. UNCHANGED <<pc[j], due[j], claimed[j], change[j]>>
        BY <1>2, <2>2
        DEF IInv, TypeOK, Work, worker, GoTo, Done, ReadDueChanges, Claim, ClaimsMade,
            EvaluationEnds, ClearApplyAt, ClearFails, NothingToClear, Takes, LoadClient,
            ScheduleRevert, EnsureRevert, SaveValue, RecordSettingChanges, Remove,
            ApplicationFails, Crash
      <3> QED
        BY <2>1, <3>1
    <2>3. P(i)'
      <3> USE DEF IInv, TypeOK, GoTo, Done
      <3>1. CASE ReadDueChanges(i)
        BY <2>1, <3>1 DEF ReadDueChanges
      <3>2. CASE Claim(i)
        <4>1. PICK x \in due[i] :
                /\ due' = [due EXCEPT ![i] = @ \ {x}]
                /\ claimed' \in {claimed, [claimed EXCEPT ![i] = @ \cup {x}]}
          BY <3>2 DEF Claim, Earliest
        <4>2. pc' = pc /\ change' = change /\ pc[i] = "claim"
          BY <3>2 DEF Claim
        <4>3. due'[i] = due[i] \ {x} /\ claimed'[i] \in {claimed[i], claimed[i] \cup {x}}
          BY <4>1
        <4> QED
          BY <2>1, <4>2, <4>3
      <3>3. CASE ClaimsMade(i) \/ EvaluationEnds(i)
        BY <2>1, <3>3 DEF ClaimsMade, EvaluationEnds
      <3>4. ASSUME NEW x \in claimed[i],
                   ClearApplyAt(i, x) \/ NothingToClear(i, x) \/ ClearFails(i, x)
            PROVE  P(i)'
        <4>1. x \in Row /\ [x EXCEPT !.applyAt = FALSE].id = x.id
          BY DEF Row
        <4>2. /\ pc[i] = "next" /\ due' = due
              /\ claimed'[i] = claimed[i] \ {x}
          BY <3>4 DEF ClearApplyAt, NothingToClear, ClearFails, Takes
        <4>3. \/ pc'[i] = "next" /\ change'[i] = change[i]
              \/ pc'[i] = "load" /\ \E y : y.id = x.id /\ change'[i] = {y}
          BY <3>4, <4>1 DEF ClearApplyAt, NothingToClear, ClearFails, Takes
        <4> QED
          BY <2>1, <4>2, <4>3
      <3>5. CASE LoadClient(i) \/ ScheduleRevert(i) \/ EnsureRevert(i) \/ SaveValue(i)
                 \/ RecordSettingChanges(i)
        <4>1. /\ UNCHANGED <<due, claimed, change>>
              /\ pc[i] \notin {"idle", "claim", "next"}
              /\ pc'[i] \notin {"idle", "claim", "next"}
          BY <3>5
          DEF LoadClient, RevertFirst, ScheduleRevert, EnsureRevert, SaveValue,
              RecordSettingChanges
        <4> QED
          BY <2>1, <4>1
      <3>6. CASE Remove(i) \/ ApplicationFails(i) \/ Crash(i)
        BY <2>1, <3>6 DEF Remove, ApplicationFails, Crash
      <3> QED
        BY <1>2, <3>1, <3>2, <3>3, <3>4, <3>5, <3>6 DEF Work
    <2> QED
      BY <2>2, <2>3 DEF HeldOnce
  <1> QED
    BY <1>1, <1>2
    DEF Next, vars, worker, Administration, Tick, ScheduleChange, UpdateSettingValue,
        RescheduleChange, DeleteDeferredChange

\* What a step means for a change: it is not carried out, though a worker may come to hold
\* a row that is there, and finish with one that is gone; or a worker fails; or one applies
\* it, that held it.
NotApplied(c) ==
    /\ applied'[c] = applied[c] /\ faults' = faults
    /\ \A i \in Instances : MayApply(i, c)' => MayApply(i, c) \/ RowsOf(c)' # {}
    /\ \A i \in Instances : HasApplied(i, c) => HasApplied(i, c)' \/ RowsOf(c)' = {}
Failing(c, i) ==
    /\ applied' = applied /\ faults' = faults + 1 /\ rows' = rows
    /\ \A j \in Instances : MayApply(j, c)' => MayApply(j, c)
    /\ \A j \in Instances \ {i} : HasApplied(j, c) => HasApplied(j, c)'
Applying(c, i) ==
    /\ applied'[c] = applied[c] + 1 /\ faults' = faults /\ rows' = rows
    /\ MayApply(i, c) /\ ~MayApply(i, c)' /\ ~HasApplied(i, c) /\ HasApplied(i, c)'
    /\ \A j \in Instances \ {i} : MayApply(j, c)' => MayApply(j, c)
    /\ \A j \in Instances \ {i} : HasApplied(j, c) => HasApplied(j, c)'

\* A worker touches what it holds itself.
LEMMA OthersKeep ==
  ASSUME IInv, NEW i \in Instances, Work(i) \/ ApplicationFails(i) \/ Crash(i),
         NEW j \in Instances, j # i, NEW c \in Ids
  PROVE  MayApply(j, c)' = MayApply(j, c) /\ HasApplied(j, c)' = HasApplied(j, c)
  <1>1. UNCHANGED <<pc[j], due[j], claimed[j], change[j]>>
    BY DEF IInv, TypeOK, Work, worker, GoTo, Done, ReadDueChanges, Claim, ClaimsMade,
           EvaluationEnds, ClearApplyAt, ClearFails, NothingToClear, Takes, LoadClient,
           ScheduleRevert, EnsureRevert, SaveValue, RecordSettingChanges, Remove,
           ApplicationFails, Crash
  <1> QED
    BY <1>1 DEF MayApply, HasApplied

LEMMA OneStepOfAChange ==
  ASSUME IInv, HeldOnce, [Next]_vars, NEW c \in Ids
  PROVE  NotApplied(c) \/ \E i \in Instances : Failing(c, i) \/ Applying(c, i)
  <1>1. CASE UNCHANGED <<worker, applied, faults>>
    BY <1>1 DEF worker, NotApplied, MayApply, HasApplied
  <1>2. ASSUME NEW i \in Instances, ApplicationFails(i) \/ Crash(i) PROVE Failing(c, i)
    <2>1. applied' = applied /\ faults' = faults + 1 /\ rows' = rows
      BY <1>2 DEF ApplicationFails, Crash, RowsKept, Fault, history, database
    <2>2. ~MayApply(i, c)' \/ (MayApply(i, c)' => MayApply(i, c))
      BY <1>2 DEF ApplicationFails, Crash, MayApply, IInv, TypeOK, GoTo, Done
    <2> QED
      BY <1>2, <2>1, <2>2, OthersKeep DEF Failing
  <1>3. ASSUME NEW i \in Instances, Work(i)
        PROVE  NotApplied(c) \/ Failing(c, i) \/ Applying(c, i)
    <2> USE DEF IInv, TypeOK, GoTo, Done
    <2>1. ASSUME applied'[c] = applied[c], faults' = faults,
                 MayApply(i, c)' => MayApply(i, c) \/ RowsOf(c)' # {},
                 HasApplied(i, c) => HasApplied(i, c)' \/ RowsOf(c)' = {}
          PROVE  NotApplied(c)
      BY <1>3, <2>1, OthersKeep DEF NotApplied
    <2>2. pc[i] \notin {"record", "ensure", "remove"} => ~HasApplied(i, c)
      BY DEF HasApplied
    <2>3. CASE ReadDueChanges(i)
      <3>1. MayApply(i, c)' => MayApply(i, c) \/ RowsOf(c)' # {}
        BY <2>3 DEF ReadDueChanges, MayApply, RowsOf, database
      <3> QED
        BY <2>1, <2>2, <2>3, <3>1 DEF ReadDueChanges, history
    <2>4. CASE Claim(i)
      <3>1. MayApply(i, c)' => MayApply(i, c)
        BY <2>4 DEF Claim, Earliest, MayApply
      <3> QED
        BY <2>1, <2>2, <2>4, <3>1 DEF Claim, history
    <2>5. CASE ClaimsMade(i) \/ EvaluationEnds(i)
      <3>1. MayApply(i, c)' => MayApply(i, c)
        BY <2>5 DEF ClaimsMade, EvaluationEnds, MayApply
      <3> QED
        BY <2>1, <2>2, <2>5, <3>1 DEF ClaimsMade, EvaluationEnds, history
    <2>6. ASSUME NEW x \in claimed[i], ClearApplyAt(i, x) \/ NothingToClear(i, x)
          PROVE  NotApplied(c)
      <3>1. x \in Row /\ [x EXCEPT !.applyAt = FALSE].id = x.id
        BY DEF Row
      <3>2. /\ pc[i] = "next" /\ UNCHANGED <<due, applied, faults>>
            /\ claimed'[i] \subseteq claimed[i]
            /\ \E y : y.id = x.id /\ change'[i] = {y}
        BY <2>6, <3>1 DEF ClearApplyAt, NothingToClear, Takes, history
      <3>3. MayApply(i, c)' => MayApply(i, c)
        BY <3>2 DEF MayApply
      <3> QED
        BY <2>1, <2>2, <3>2, <3>3
    <2>7. ASSUME NEW x \in claimed[i], ClearFails(i, x) PROVE NotApplied(c) \/ Failing(c, i)
      <3>1. /\ pc[i] = "next" /\ UNCHANGED <<pc, due, change, applied, rows>>
            /\ claimed'[i] \subseteq claimed[i]
            /\ faults' = faults \/ faults' = faults + 1
        BY <2>7 DEF ClearFails, Takes, Fault, history, database
      <3>2. MayApply(i, c)' => MayApply(i, c)
        BY <3>1 DEF MayApply
      <3> QED
        BY <1>3, <2>1, <2>2, <3>1, <3>2, OthersKeep DEF Failing
    <2>8. ASSUME NEW x \in change[i], applied' = [applied EXCEPT ![x.id] = @ + 1],
                 pc[i] \in {"load", "save"}, pc'[i] \in {"record", "ensure", "remove"},
                 UNCHANGED <<due, claimed, change, faults, rows>>
          PROVE  NotApplied(c) \/ Applying(c, i)
      <3>1. change[i] = {x} /\ due[i] = {} /\ \A y \in claimed[i] : y.id # x.id
        BY <2>8 DEF Progress, HeldOnce
      <3>2. x.id \in Ids /\ applied[c] \in Nat
        BY DEF Row
      <3>3. CASE c = x.id
        <4>1. MayApply(i, c) /\ ~HasApplied(i, c)
          BY <2>8, <3>3 DEF MayApply, HasApplied
        <4>2. ~MayApply(i, c)' /\ HasApplied(i, c)'
          BY <2>8, <3>1, <3>3 DEF MayApply, HasApplied
        <4>3. applied'[c] = applied[c] + 1
          BY <2>8, <3>3
        <4> QED
          BY <1>3, <2>8, <4>1, <4>2, <4>3, OthersKeep DEF Applying
      <3>4. CASE c # x.id
        <4>1. MayApply(i, c)' => MayApply(i, c)
          BY <2>8, <3>1, <3>4 DEF MayApply
        <4>2. applied'[c] = applied[c] /\ ~HasApplied(i, c)
          BY <2>8, <3>4 DEF HasApplied
        <4> QED
          BY <2>1, <2>8, <4>1, <4>2
      <3> QED
        BY <3>3, <3>4
    <2>9. CASE LoadClient(i)
      <3>1. PICK x \in change[i] :
              /\ pc'[i] = IF x.value # value THEN IF x.revertAt # Never THEN "revert" ELSE "save"
                          ELSE IF x.revertAt # Never THEN "ensure" ELSE "remove"
              /\ applied' = IF x.value # value THEN applied
                            ELSE [applied EXCEPT ![x.id] = @ + 1]
        BY <2>9 DEF LoadClient, RevertFirst
      <3>2. pc[i] = "load" /\ UNCHANGED <<due, claimed, change, faults, rows>>
        BY <2>9 DEF LoadClient, database
      <3>3. CASE x.value # value
        <4>1. MayApply(i, c)' => MayApply(i, c)
          BY <3>2 DEF MayApply
        <4> QED
          BY <2>1, <2>2, <3>1, <3>2, <3>3, <4>1
      <3>4. CASE x.value = value
        BY <2>8, <3>1, <3>2, <3>4
      <3> QED
        BY <3>3, <3>4
    <2>10. CASE SaveValue(i)
      BY <2>8, <2>10 DEF SaveValue
    <2>11. CASE ScheduleRevert(i) \/ EnsureRevert(i) \/ RecordSettingChanges(i)
      <3>1. /\ UNCHANGED <<due, claimed, change, faults, applied>>
            /\ \/ pc[i] = "revert" /\ pc'[i] = "save"
               \/ pc[i] = "ensure" /\ pc'[i] = "remove"
               \/ pc[i] = "record" /\ pc'[i] = "remove"
        BY <2>11 DEF ScheduleRevert, EnsureRevert, RecordSettingChanges, history
      <3>2. MayApply(i, c)' => MayApply(i, c)
        BY <3>1 DEF MayApply
      <3>3. HasApplied(i, c) => HasApplied(i, c)'
        BY <3>1 DEF HasApplied
      <3> QED
        BY <2>1, <3>1, <3>2, <3>3
    <2>12. CASE Remove(i)
      <3>1. /\ UNCHANGED <<due, claimed, faults, applied>>
            /\ pc[i] = "remove" /\ change'[i] = {}
        BY <2>12 DEF Remove, history
      <3>2. MayApply(i, c)' => MayApply(i, c)
        BY <3>1 DEF MayApply
      <3>3. HasApplied(i, c) => RowsOf(c)' = {}
        <4>1. PICK x \in change[i] : rows' = Without(x)
          BY <2>12 DEF Remove
        <4>2. \A y \in change[i] : y = x
          BY <4>1 DEF Progress
        <4> QED
          BY <4>1, <4>2 DEF HasApplied, RowsOf, Without
      <3> QED
        BY <2>1, <3>1, <3>2, <3>3
    <2> QED
      BY <1>3, <2>3, <2>4, <2>5, <2>6, <2>7, <2>9, <2>10, <2>11, <2>12 DEF Work
  <1> QED
    BY <1>1, <1>2, <1>3
    DEF Next, vars, worker, history, Administration, Tick, ScheduleChange, UpdateSettingValue,
        RescheduleChange, DeleteDeferredChange

\* A row that is gone stays so: ids are not given out again, and no update inserts one.
LEMMA GoneForGood ==
  ASSUME IInv, [Next]_vars, NEW c \in Ids, c < nextId, RowsOf(c) = {}
  PROVE  RowsOf(c)' = {}
  <1>1. c # nextId /\ \A x \in rows : x.id # c
    BY DEF RowsOf, IInv, TypeOK, Ids
  <1>2. \A x \in rows' : x.id # c
    BY <1>1, RowSteps DEF Kept, Added, Written, Removed, Updated, Without, StillThere, RowsOf
  <1> QED
    BY <1>2 DEF RowsOf

\* Sets of instances can be counted.
LEMMA InstancesCount ==
  ASSUME NEW S \in SUBSET Instances
  PROVE  /\ IsFiniteSet(S) /\ Cardinality(S) \in Nat
         /\ Cardinality(S) <= Cardinality(Instances) /\ Cardinality(Instances) \in Nat
         /\ \A T \in SUBSET S : Cardinality(T) <= Cardinality(S)
         /\ \A T \in SUBSET Instances :
               S \cap T = {} => Cardinality(S) + Cardinality(T) <= Cardinality(Instances)
  <1>1. IsFiniteSet(S) /\ Cardinality(S) <= Cardinality(Instances)
    BY InstancesAssumption, FS_Subset
  <1>2. Cardinality(S) \in Nat /\ Cardinality(Instances) \in Nat
    BY <1>1, InstancesAssumption, FS_CardinalityType
  <1>3. \A T \in SUBSET S : Cardinality(T) <= Cardinality(S)
    BY <1>1, FS_Subset
  <1>4. ASSUME NEW T \in SUBSET Instances, S \cap T = {}
        PROVE  Cardinality(S) + Cardinality(T) <= Cardinality(Instances)
    <2>1. Cardinality(T) \in Nat
      BY InstancesAssumption, FS_Subset, FS_CardinalityType
    <2> QED
      BY <1>2, <1>4, <2>1, InstancesAssumption, FS_MajoritiesIntersect
  <1> QED
    BY <1>1, <1>2, <1>3, <1>4

LEMMA CountedStep == CInv /\ [Next]_vars => NotYetApplied' /\ Counted'
  <1> SUFFICES ASSUME CInv, [Next]_vars, NEW c \in Ids
               PROVE  /\ c >= nextId' => applied'[c] = 0
                      /\ IF RowsOf(c)' # {}
                         THEN applied'[c] <= Cardinality(Behind(c)') + faults'
                         ELSE applied'[c] + Cardinality(Ahead(c)')
                                 <= Cardinality(Instances) + faults'
    BY DEF NotYetApplied, Counted
  <1> USE DEF CInv
  <1>1. /\ applied[c] \in Nat /\ faults \in Nat /\ faults' \in Nat
        /\ nextId \in Int /\ nextId' \in Int /\ nextId <= nextId' /\ c \in Int
    <2>1. IInv /\ TypeOK /\ TypeOK' /\ nextId <= nextId'
      BY TypeStep, HistoryGrows DEF IInv
    <2> QED
      BY <2>1, BoundsAssumption DEF TypeOK, Ids
  <1>2. /\ Ahead(c) \subseteq Instances /\ Behind(c) \subseteq Instances
        /\ Ahead(c)' \subseteq Instances /\ Behind(c)' \subseteq Instances
    BY DEF Ahead, Behind
  <1>3. Ahead(c) \cap Behind(c) = {}
    BY DEF Ahead, Behind, MayApply, HasApplied, HeldOnce
  <1>4. /\ Cardinality(Ahead(c)) \in Nat /\ Cardinality(Behind(c)) \in Nat
        /\ Cardinality(Ahead(c)') \in Nat /\ Cardinality(Behind(c)') \in Nat
        /\ Cardinality(Instances) \in Nat
        /\ Cardinality(Ahead(c)') <= Cardinality(Instances)
    BY <1>2, InstancesCount
  <1>5. CASE c >= nextId
    <2>1. applied[c] = 0
      BY <1>5 DEF NotYetApplied
    <2>2. \A i \in Instances : ~MayApply(i, c)
      <3>1. \A i \in Instances : \A x \in due[i] \cup claimed[i] \cup change[i] : x.id # c
        BY <1>1, <1>5, HeldRows DEF Ids
      <3> QED
        BY <3>1 DEF MayApply
    <2>3. applied'[c] = 0
      BY <2>1, <2>2, OneStepOfAChange DEF NotApplied, Failing, Applying
    <2> QED
      BY <1>1, <1>4, <2>3
  <1>6. CASE c < nextId /\ RowsOf(c) = {}
    <2>1. RowsOf(c)' = {}
      BY <1>6, GoneForGood
    <2>2. applied[c] + Cardinality(Ahead(c)) <= Cardinality(Instances) + faults
      BY <1>6 DEF Counted
    <2>3. CASE NotApplied(c)
      <3>1. Ahead(c)' \subseteq Ahead(c)
        BY <2>1, <2>3 DEF Ahead, NotApplied
      <3>2. Cardinality(Ahead(c)') <= Cardinality(Ahead(c))
        BY <1>2, <3>1, InstancesCount
      <3> QED
        BY <1>1, <1>4, <1>6, <2>1, <2>2, <2>3, <3>2 DEF NotApplied
    <2>4. ASSUME NEW i \in Instances, Failing(c, i)
          PROVE  applied'[c] + Cardinality(Ahead(c)') <= Cardinality(Instances) + faults'
      <3>1. Ahead(c)' \subseteq Ahead(c)
        BY <2>4 DEF Ahead, Failing
      <3>2. Cardinality(Ahead(c)') <= Cardinality(Ahead(c))
        BY <1>2, <3>1, InstancesCount
      <3> QED
        BY <1>1, <1>4, <2>2, <2>4, <3>2 DEF Failing
    <2>5. ASSUME NEW i \in Instances, Applying(c, i)
          PROVE  applied'[c] + Cardinality(Ahead(c)') <= Cardinality(Instances) + faults'
      <3>1. Ahead(c)' \subseteq Ahead(c) \ {i} /\ i \in Ahead(c)
        BY <2>5 DEF Ahead, Applying
      <3>2. Cardinality(Ahead(c) \ {i}) = Cardinality(Ahead(c)) - 1
        BY <1>2, <3>1, InstancesCount, FS_RemoveElement
      <3>3. Cardinality(Ahead(c)') <= Cardinality(Ahead(c) \ {i})
        BY <1>2, <3>1, InstancesCount
      <3> QED
        BY <1>1, <1>4, <2>2, <2>5, <3>2, <3>3 DEF Applying
    <2> QED
      BY <1>1, <1>6, <2>1, <2>3, <2>4, <2>5, OneStepOfAChange
  <1>7. CASE c < nextId /\ RowsOf(c) # {}
    <2>1. applied[c] <= Cardinality(Behind(c)) + faults
      BY <1>7 DEF Counted
    <2>2. CASE NotApplied(c) /\ RowsOf(c)' = {}
      <3>1. Ahead(c)' \subseteq Ahead(c)
        BY <2>2 DEF Ahead, NotApplied
      <3>2. Cardinality(Ahead(c)') <= Cardinality(Ahead(c))
        BY <1>2, <3>1, InstancesCount
      <3>3. Cardinality(Ahead(c)) + Cardinality(Behind(c)) <= Cardinality(Instances)
        BY <1>2, <1>3, InstancesCount
      <3> QED
        BY <1>1, <1>4, <1>7, <2>1, <2>2, <3>2, <3>3 DEF NotApplied
    <2>3. CASE NotApplied(c) /\ RowsOf(c)' # {}
      <3>1. Behind(c) \subseteq Behind(c)'
        BY <2>3 DEF Behind, NotApplied
      <3>2. Cardinality(Behind(c)) <= Cardinality(Behind(c)')
        BY <1>2, <3>1, InstancesCount
      <3> QED
        BY <1>1, <1>4, <1>7, <2>1, <2>3, <3>2 DEF NotApplied
    <2>4. ASSUME NEW i \in Instances, Failing(c, i)
          PROVE  RowsOf(c)' # {} /\ applied'[c] <= Cardinality(Behind(c)') + faults'
      <3>1. Behind(c) \ {i} \subseteq Behind(c)'
        BY <2>4 DEF Behind, Failing
      <3>2. Cardinality(Behind(c) \ {i}) \in {Cardinality(Behind(c)) - 1, Cardinality(Behind(c))}
        BY <1>2, InstancesCount, FS_RemoveElement
      <3>3. Cardinality(Behind(c) \ {i}) <= Cardinality(Behind(c)')
        BY <1>2, <3>1, InstancesCount
      <3>4. Cardinality(Behind(c) \ {i}) \in Nat
        BY <1>2, InstancesCount
      <3> QED
        BY <1>1, <1>4, <1>7, <2>1, <2>4, <3>2, <3>3, <3>4 DEF Failing, RowsOf
    <2>5. ASSUME NEW i \in Instances, Applying(c, i)
          PROVE  RowsOf(c)' # {} /\ applied'[c] <= Cardinality(Behind(c)') + faults'
      <3>1. Behind(c) \cup {i} \subseteq Behind(c)' /\ i \notin Behind(c)
        BY <2>5 DEF Behind, Applying
      <3>2. Cardinality(Behind(c) \cup {i}) = Cardinality(Behind(c)) + 1
        BY <1>2, <3>1, InstancesCount, FS_AddElement
      <3>3. Cardinality(Behind(c) \cup {i}) <= Cardinality(Behind(c)')
        BY <1>2, <3>1, InstancesCount
      <3> QED
        BY <1>1, <1>4, <1>7, <2>1, <2>5, <3>2, <3>3 DEF Applying, RowsOf
    <2> QED
      BY <1>1, <1>7, <2>2, <2>3, <2>4, <2>5, OneStepOfAChange
  <1> QED
    BY <1>1, <1>5, <1>6, <1>7

LEMMA CountInvariance == Spec => []CInv
  <1>1. CInv /\ [Next]_vars => CInv'
    <2>1. IInv /\ [Next]_vars => IInv'
      BY TypeStep, KnownStep, ProgressStep, NothingIsLostStep, DeletedStaysDeletedStep,
         TemporaryStep
      DEF IInv
    <2> QED
      BY <2>1, HeldOnceStep, CountedStep DEF CInv
  <1> QED
    BY InitiallyCounted, <1>1, PTL DEF Spec

\* A change is carried out at most once by each instance, and once more for each fault: an
\* instance that has its row may still apply it after another one did, but whoever reads
\* later does not find it (SchedulingWorker).
THEOREM ChangesAreAppliedOnce == Spec => []AppliedOncePerInstance
  <1>1. CInv => AppliedOncePerInstance
    <2> SUFFICES ASSUME CInv, NEW c \in Ids
                 PROVE  applied[c] <= Cardinality(Instances) + faults
      BY DEF AppliedOncePerInstance
    <2>1. Ahead(c) \subseteq Instances /\ Behind(c) \subseteq Instances
      BY DEF Ahead, Behind
    <2>2. /\ Cardinality(Ahead(c)) \in Nat
          /\ Cardinality(Behind(c)) \in Nat
          /\ Cardinality(Behind(c)) <= Cardinality(Instances)
          /\ Cardinality(Instances) \in Nat
      BY <2>1, InstancesCount
    <2>3. applied[c] \in Nat /\ faults \in Nat
      BY DEF CInv, IInv, TypeOK
    <2>4. IF RowsOf(c) # {} THEN applied[c] <= Cardinality(Behind(c)) + faults
          ELSE applied[c] + Cardinality(Ahead(c)) <= Cardinality(Instances) + faults
      BY DEF CInv, Counted
    <2> QED
      BY <2>2, <2>3, <2>4
  <1> QED
    BY CountInvariance, <1>1, PTL
=============================================================================
