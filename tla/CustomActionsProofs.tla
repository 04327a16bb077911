-------------------------- MODULE CustomActionsProofs --------------------------
(***************************************************************************)
(* Proofs about CustomActions, for any executions, sessions and lanes.     *)
(* What rows, answers and results in transit say is true (Truthful).  An   *)
(* execution that no overlap has touched is handed out by one poll at a    *)
(* time (ClaimedOnce), and once a process has it, no other poll can come   *)
(* by it: it is marked, or the poll that gave it away has it locked        *)
(* (Delivered).                                                            *)
(***************************************************************************)
EXTENDS CustomActions, TLAPS

IsTrue(e, r) ==
    /\ r.outcome = "ok" => <<e, r.by>> \in succeeded
    /\ r.outcome = "failed" => <<e, r.by>> \in failed

\* What is read, being reported or on its way is true.
Truthful ==
    /\ \A p \in Polls : \A e \in Given(p) : IsTrue(e, poll[p].rows[e])
    /\ \A s \in Sessions : running[s] # Idle =>
          /\ running[s].execution \in Executions
          /\ running[s].outcome # "none"
          /\ IsTrue(running[s].execution, ResultOf(s))
    /\ \A m \in sent : m.result # None /\ IsTrue(m.execution, m.result)

\* A poll's stage and its answer; a process awaits one answer, with nothing else to do.
Answers ==
    /\ \A p \in Polls : poll[p].stage = "free" <=> poll[p] = Free
    /\ \A p \in Polls : poll[p].stage # "free" => poll[p].answer # "none"
    /\ \A p \in Polls : poll[p].answer = "received" => poll[p].stage = "marked"
    /\ \A p \in Polls : poll[p].stage = "committed" => poll[p].answer = "awaited"
    /\ \A p \in Polls : poll[p].answer = "awaited" => batch[p[1]] = {} /\ running[p[1]] = Idle
    /\ \A p, q \in Polls : (/\ p[1] = q[1] /\ poll[p].answer = "awaited"
                            /\ poll[q].answer = "awaited") => p = q

\* What a poll that has committed handed out is marked; a poll that has still to mark or to
\* commit what another has marked is an overlap.
Marked ==
    /\ \A p \in Polls : poll[p].stage = "committed" => \A e \in Given(p) : handled[e]
    /\ \A p \in Polls : poll[p].stage \in {"read", "marked"} =>
          \A e \in Given(p) : handled[e] => e \in shared

\* Polls that hand out an execution.
Claiming(e) == {p \in Polls : poll[p].stage \in {"marked", "committed"} /\ e \in Given(p)}

\* One poll at a time hands out an execution.
ClaimedOnce ==
    \A e \in Executions \ shared : \A p, q \in Claiming(e) : p = q

\* An execution that a process has had is not handed out again.
Delivered ==
    \A e \in Executions \ shared :
        (runs[e] > 0 \/ \E s \in Sessions : e \in batch[s]) =>
            /\ \A p \in Claiming(e) : poll[p].answer = "received"
            /\ handled[e] \/ Claiming(e) # {}

\* It is in one batch, or has been taken from it.
InOneBatch ==
    \A e \in Executions \ shared :
        /\ \A s \in Sessions : e \in batch[s] => runs[e] = 0
        /\ \A s, t \in Sessions : e \in batch[s] \cap batch[t] => s = t

\* What a process received before the poll committed has not gone missing.
Present(e) ==
    \/ e \in lost \cup shared
    \/ \E s \in Sessions : e \in batch[s] \/ running[s].execution = e
    \/ \E m \in sent : m.execution = e

ReceivedIsPresent ==
    \A p \in Polls : poll[p].answer = "received" => \A e \in Given(p) : Present(e)

IInv ==
    /\ TypeOK /\ Truthful /\ Answers /\ Marked /\ ClaimedOnce /\ Delivered /\ InOneBatch
    /\ ReceivedIsPresent
    /\ ReportsAreTrue /\ HandedOutIsAccountedFor /\ RunsOnceWithoutOverlap
-----------------------------------------------------------------------------
LEMMA PollSession == ASSUME NEW p \in Polls PROVE p[1] \in Sessions /\ p \in PollsOf(p[1])
  BY DEF Polls, PollsOf

LEMMA InitialValues ==
  /\ None \in Results /\ DOMAIN NoRows = {}
  /\ Free \in PollStates /\ Idle \in Handlings
  <1>1. None \in Results
    BY DEF Results
  <1>2. NoRows \in [{} -> Results]
    BY DEF NoRows
  <1>3. NoRows \in RowSets
    BY <1>2 DEF RowSets
  <1> QED
    BY <1>1, <1>2, <1>3 DEF Free, Idle, PollStates, Handlings

LEMMA PollTypes ==
  ASSUME TypeOK, NEW p \in Polls
  PROVE  /\ poll[p].stage \in {"free", "read", "marked", "committed"}
         /\ poll[p].answer \in {"none", "awaited", "received", "gone"}
         /\ Given(p) \subseteq Executions
         /\ \A e \in Given(p) : poll[p].rows[e] \in Results
  <1>1. poll[p] \in PollStates
    BY DEF TypeOK
  <1>2. PICK E \in SUBSET Executions : poll[p].rows \in [E -> Results]
    BY <1>1 DEF PollStates, RowSets
  <1> QED
    BY <1>1, <1>2 DEF Given, PollStates

LEMMA Initially == Init => IInv
  <1> SUFFICES ASSUME Init PROVE IInv
    OBVIOUS
  <1> USE DEF Init
  <1>3. TypeOK
    BY InitialValues, FaultsAssumption DEF TypeOK
  <1>4. \A p \in Polls : poll[p].stage = "free" /\ Given(p) = {} /\ poll[p].answer = "none"
    BY InitialValues DEF Given, Free
  <1>5. \A e : Claiming(e) = {}
    BY <1>4 DEF Claiming
  <1>6. Truthful /\ Answers /\ Marked /\ ReceivedIsPresent
    BY <1>4 DEF Truthful, Answers, Marked, ReceivedIsPresent
  <1>7. ClaimedOnce /\ Delivered /\ InOneBatch
    BY <1>5 DEF ClaimedOnce, Delivered, InOneBatch
  <1>8. ReportsAreTrue /\ HandedOutIsAccountedFor /\ RunsOnceWithoutOverlap
    BY DEF ReportsAreTrue, HandedOutIsAccountedFor, RunsOnceWithoutOverlap, None
  <1> QED
    BY <1>3, <1>6, <1>7, <1>8 DEF IInv

LEMMA RunningTypes ==
  ASSUME IInv, NEW s \in Sessions, running[s] # Idle
  PROVE  running[s].execution \in Executions /\ ResultOf(s) \in Results /\ ResultOf(s) # None
  <1>1. running[s] \in Handlings /\ running[s].outcome # "none" /\ running[s].execution \in Executions
    BY DEF IInv, TypeOK, Truthful
  <1> QED
    BY <1>1 DEF Handlings, ResultOf, Outcome, Results, None

LEMMA TypeStep == IInv /\ [Next]_vars => TypeOK'
  <1> SUFFICES ASSUME IInv, [Next]_vars PROVE TypeOK'
    OBVIOUS
  <1> USE DEF row, worker, hist, Fault
  <1>t. TypeOK
    BY DEF IInv
  <1>g. \A s \in Sessions : \A p \in PollsOf(s) : p \in Polls
    BY DEF Polls
  <1>a. \A s \in Sessions : Abandoned(s) \in [Polls -> PollStates]
    BY <1>t, InitialValues DEF TypeOK, Abandoned, PollStates
  <1>u. \A s \in Sessions : Undelivered(s) \subseteq Executions
    BY <1>t, <1>g, PollTypes DEF Undelivered
  <1>1. CASE UNCHANGED vars
    BY <1>t, <1>1 DEF vars, TypeOK
  <1>2. ASSUME NEW e \in Executions, RequestExecution(e) PROVE TypeOK'
    BY <1>t, <1>2, MayAskAssumption DEF RequestExecution, TypeOK
  <1>3. ASSUME NEW s \in Sessions, Poll(s) PROVE TypeOK'
    <2> DEFINE reads == [e \in ForSession(s, GetAllPending) |-> result[e]]
    <2>1. PICK p \in PollsOf(s) :
            poll' = [poll EXCEPT ![p] = [stage |-> "read", answer |-> "awaited", rows |-> reads]]
      BY <1>3 DEF Poll
    <2>2. ForSession(s, GetAllPending) \subseteq Executions
      BY DEF ForSession, GetAllPending
    <2>3. reads \in RowSets
      BY <1>t, <2>2 DEF RowSets, TypeOK
    <2> HIDE DEF reads
    <2>4. poll' \in [Polls -> PollStates]
      BY <1>t, <1>g, <2>1, <2>3 DEF PollStates, TypeOK
    <2> QED
      BY <1>t, <1>3, <2>4 DEF Poll, TypeOK
  <1>4. ASSUME NEW p \in Polls, MarkHandled(p) \/ Rollback(p) PROVE TypeOK'
    <2>1. poll' \in [Polls -> PollStates]
      <3>1. [poll[p] EXCEPT !.stage = "marked"] \in PollStates
        BY <1>t DEF TypeOK, PollStates
      <3> QED
        BY <1>t, <1>4, <3>1, InitialValues DEF MarkHandled, Rollback, TypeOK
    <2>2. shared' \subseteq Executions /\ faults' \in 0..MaxFaults
      BY <1>t, <1>4, PollTypes, FaultsAssumption DEF MarkHandled, Rollback, TypeOK
    <2> QED
      BY <1>t, <1>4, <2>1, <2>2 DEF MarkHandled, Rollback, TypeOK
  <1>5. ASSUME NEW p \in Polls, Commit(p) PROVE TypeOK'
    <2>1. poll' \in [Polls -> PollStates]
      BY <1>t, <1>5, InitialValues DEF Commit, PollStates, TypeOK
    <2>2. result' \in [Executions -> Results]
      BY <1>t, <1>5, PollTypes DEF Commit, TypeOK
    <2>3. lost' \subseteq Executions /\ shared' \subseteq Executions
      BY <1>t, <1>5, PollTypes DEF Commit, Overlapping, TypeOK
    <2>4. handled' \in [Executions -> BOOLEAN]
      BY <1>t, <1>5 DEF Commit, TypeOK
    <2> QED
      BY <1>t, <1>5, <2>1, <2>2, <2>3, <2>4 DEF Commit, TypeOK
  <1>6. ASSUME NEW p \in Polls, ReceiveAnswer(p) PROVE TypeOK'
    <2>1. poll' \in [Polls -> PollStates]
      BY <1>t, <1>6, InitialValues DEF ReceiveAnswer, PollStates, TypeOK
    <2>2. batch' \in [Sessions -> SUBSET Executions]
      BY <1>t, <1>6, PollTypes, PollSession DEF ReceiveAnswer, Received, TypeOK
    <2> QED
      BY <1>t, <1>6, <2>1, <2>2 DEF ReceiveAnswer, TypeOK
  <1>7. ASSUME NEW m \in sent, SubmitExecutionResults(m) \/ LoseResults(m) PROVE TypeOK'
    <2>1. m.execution \in Executions /\ m.result \in Results
      BY <1>t DEF TypeOK, Messages
    <2> QED
      BY <1>t, <1>7, <2>1, FaultsAssumption DEF SubmitExecutionResults, LoseResults, TypeOK
  <1>8. ASSUME NEW s \in Sessions, Timeout(s) PROVE TypeOK'
    BY <1>8, <1>t, <1>a, <1>u, FaultsAssumption DEF Timeout, TypeOK
  <1>9. ASSUME NEW s \in Sessions, SendResults(s) PROVE TypeOK'
    <2>1. [execution |-> running[s].execution, result |-> ResultOf(s)] \in Messages
      BY <1>9, RunningTypes DEF SendResults, Messages
    <2> QED
      BY <1>t, <1>9, <2>1, InitialValues DEF SendResults, TypeOK
  <1>10. ASSUME NEW s \in Sessions, NEW e \in Executions, Execute(s, e) \/ NoMatchingAction(s, e)
         PROVE  TypeOK'
    <2>1. \A o \in {"ok", "failed"}, c \in BOOLEAN :
            [execution |-> e, outcome |-> o, caught |-> c] \in Handlings
      BY DEF Handlings
    <2>2. running' \in [Sessions -> Handlings]
      <3>1. running' = running \/ \E o \in {"ok", "failed"}, c \in BOOLEAN :
              running' = [running EXCEPT ![s] = [execution |-> e, outcome |-> o, caught |-> c]]
        BY <1>10 DEF Execute, NoMatchingAction
      <3>2. running \in [Sessions -> Handlings]
        BY <1>t DEF TypeOK
      <3> QED
        BY <2>1, <3>1, <3>2
    <2>3. succeeded' \subseteq Executions \X Sessions /\ failed' \subseteq Executions \X Sessions
      BY <1>t, <1>10 DEF Execute, NoMatchingAction, TypeOK
    <2> QED
      BY <1>t, <1>10, <2>2, <2>3 DEF Execute, NoMatchingAction, TypeOK
  <1>11. ASSUME NEW s \in Sessions, SecretFails(s) PROVE TypeOK'
    <2>1. running[s].execution \in Executions
      BY <1>11, RunningTypes DEF SecretFails
    <2>2. [running[s] EXCEPT !.outcome = "failed", !.caught = TRUE] \in Handlings
      BY <1>t DEF TypeOK, Handlings
    <2>3. running' \in [Sessions -> Handlings]
      BY <1>t, <1>11, <2>2, InitialValues DEF SecretFails, TypeOK
    <2>4. failed' \subseteq Executions \X Sessions /\ lost' \subseteq Executions
      BY <1>t, <1>11, <2>1 DEF SecretFails, TypeOK
    <2> QED
      BY <1>t, <1>11, <2>3, <2>4, FaultsAssumption DEF SecretFails, TypeOK
  <1>12. ASSUME NEW s \in Sessions, Die(s) PROVE TypeOK'
    <2>1. running[s].execution \in Executions \cup {Nobody}
      BY <1>t DEF TypeOK, Handlings
    <2> QED
      BY <1>12, <1>t, <1>a, <1>u, <2>1, InitialValues, FaultsAssumption DEF Die, TypeOK
  <1> QED
    BY <1>1, <1>2, <1>3, <1>4, <1>5, <1>6, <1>7, <1>8, <1>9, <1>10, <1>11, <1>12
    DEF Next, ApiStep, Handle
-----------------------------------------------------------------------------
\* What has happened stays so.
LEMMA HistoryGrows ==
  ASSUME IInv, [Next]_vars
  PROVE  /\ succeeded \subseteq succeeded' /\ failed \subseteq failed'
         /\ lost \subseteq lost' /\ shared \subseteq shared'
         /\ \A e \in Executions : handled[e] => handled'[e]
  <1> USE DEF row, worker, hist, IInv, TypeOK
  <1>1. succeeded \subseteq succeeded' /\ failed \subseteq failed'
    BY DEF Next, ApiStep, Handle, vars, RequestExecution, Poll, MarkHandled, Commit, Rollback,
           SubmitExecutionResults, LoseResults, ReceiveAnswer, Timeout, NoMatchingAction, Execute,
           SendResults, SecretFails, Die
  <1>2. lost \subseteq lost' /\ shared \subseteq shared'
    BY DEF Next, ApiStep, Handle, vars, RequestExecution, Poll, MarkHandled, Commit, Rollback,
           SubmitExecutionResults, LoseResults, ReceiveAnswer, Timeout, NoMatchingAction, Execute,
           SendResults, SecretFails, Die
  <1>3. \A e \in Executions : handled[e] => handled'[e]
    BY DEF Next, ApiStep, Handle, vars, RequestExecution, Poll, MarkHandled, Commit, Rollback,
           SubmitExecutionResults, LoseResults, ReceiveAnswer, Timeout, NoMatchingAction, Execute,
           SendResults, SecretFails, Die
  <1> QED
    BY <1>1, <1>2, <1>3

\* A poll begins: it reads rows that are not handled, for a process with nothing to do.
Begins(p) ==
    /\ poll[p] = Free /\ ~Awaits(p[1])
    /\ batch[p[1]] = {} /\ running[p[1]] = Idle
    /\ poll'[p].stage = "read" /\ poll'[p].answer = "awaited"
    /\ \A e \in Given(p)' : e \in Executions /\ ~handled[e] /\ poll'[p].rows[e] = result[e]
\* It marks rows that nobody has locked.
Marks(p) ==
    /\ poll[p].stage = "read" /\ poll'[p].stage = "marked"
    /\ poll'[p].answer = poll[p].answer /\ poll'[p].rows = poll[p].rows
    /\ \A e \in Given(p) : ~Locked(e)
\* It commits, and stays only for its answer.
Commits(p) ==
    /\ poll[p].stage = "marked"
    /\ \A e \in Given(p) : handled'[e]
    /\ Overlapping(p) \subseteq shared'
    /\ IF poll[p].answer = "awaited"
       THEN /\ poll'[p].stage = "committed"
            /\ poll'[p].answer = poll[p].answer /\ poll'[p].rows = poll[p].rows
       ELSE poll'[p] = Free /\ (poll[p].answer = "gone" => Given(p) \subseteq lost')
\* It is undone.
Undone(p) ==
    /\ poll[p].stage \in {"read", "marked"} /\ poll'[p] = Free
    /\ poll[p].answer = "received" => Given(p) \subseteq shared'
\* Its answer is received.
Receives(p) ==
    /\ poll[p].answer = "awaited" /\ batch' = [batch EXCEPT ![p[1]] = Given(p)]
    /\ \/ poll[p].stage = "committed" /\ poll'[p] = Free
       \/ /\ poll[p].stage = "marked" /\ poll'[p].stage = "marked"
          /\ poll'[p].answer = "received" /\ poll'[p].rows = poll[p].rows
\* Nobody waits for it any more.
Abandoning(s, p) ==
    IF p[1] = s /\ poll[p].answer = "awaited"
    THEN \/ poll[p].stage = "committed" /\ poll'[p] = Free /\ Given(p) \subseteq lost'
         \/ /\ poll[p].stage # "committed" /\ poll'[p].stage = poll[p].stage
            /\ poll'[p].answer = "gone" /\ poll'[p].rows = poll[p].rows
    ELSE poll'[p] = poll[p]

Moves(p) == Begins(p) \/ Marks(p) \/ Commits(p) \/ Undone(p) \/ Receives(p)

\* What a step does to the polls.
LEMMA PollSteps ==
  ASSUME IInv, [Next]_vars
  PROVE  \/ poll' = poll /\ handled' = handled
            /\ \A s \in Sessions : batch'[s] \subseteq batch[s]
         \/ \E p \in Polls :
               /\ \A q \in Polls \ {p} : poll'[q] = poll[q]
               /\ Moves(p) /\ running' = running /\ (batch' = batch \/ Receives(p))
               /\ Commits(p) \/ handled' = handled
               /\ \A e \in Executions : handled'[e] => handled[e] \/ e \in Given(p)
         \/ \E s \in Sessions : handled' = handled /\ \A p \in Polls : Abandoning(s, p)
  <1> USE DEF IInv, TypeOK
  <1>1. \A q \in Polls : poll[q] \in PollStates
    OBVIOUS
  <1>3. ASSUME NEW s \in Sessions, Poll(s)
        PROVE  \E p \in Polls :
                 /\ \A q \in Polls \ {p} : poll'[q] = poll[q]
                 /\ Begins(p) /\ running' = running /\ batch' = batch /\ handled' = handled
    <2> DEFINE reads == [e \in ForSession(s, GetAllPending) |-> result[e]]
    <2>1. PICK q \in PollsOf(s) :
            /\ poll[q] = Free
            /\ poll' = [poll EXCEPT ![q] = [stage |-> "read", answer |-> "awaited", rows |-> reads]]
      BY <1>3 DEF Poll
    <2>2. q \in Polls /\ q[1] = s
      BY <2>1 DEF Polls, PollsOf
    <2>3. \A e \in DOMAIN reads : e \in Executions /\ ~handled[e] /\ reads[e] = result[e]
      BY DEF ForSession, GetAllPending
    <2>4. /\ ~Awaits(s) /\ batch[s] = {} /\ running[s] = Idle
          /\ running' = running /\ batch' = batch /\ handled' = handled
      BY <1>3 DEF Poll, worker, row
    <2> HIDE DEF reads
    <2> QED
      BY <2>1, <2>2, <2>3, <2>4 DEF Begins, Given
  <1>4. ASSUME NEW p \in Polls, MarkHandled(p) \/ Commit(p) \/ Rollback(p) \/ ReceiveAnswer(p)
        PROVE  /\ \A q \in Polls \ {p} : poll'[q] = poll[q]
               /\ Moves(p) /\ running' = running /\ (batch' = batch \/ Receives(p))
               /\ Commits(p) \/ handled' = handled
               /\ \A e \in Executions : handled'[e] => handled[e] \/ e \in Given(p)
    <2>1. CASE MarkHandled(p)
      BY <1>1, <2>1 DEF MarkHandled, Marks, Moves, PollStates, worker, row
    <2>2. CASE Commit(p)
      <3>1. \A e \in Given(p) : handled'[e]
        BY <2>2, PollTypes DEF Commit
      <3> QED
        BY <1>1, <2>2, <3>1 DEF Commit, Commits, Moves, PollStates, worker
    <2>3. CASE Rollback(p)
      BY <1>1, <2>3 DEF Rollback, Undone, Moves, PollStates, worker, row, hist
    <2>4. CASE ReceiveAnswer(p)
      BY <1>1, <2>4 DEF ReceiveAnswer, Received, Receives, Moves, PollStates, worker, row
    <2> QED
      BY <1>4, <2>1, <2>2, <2>3, <2>4
  <1>5. ASSUME NEW s \in Sessions, Timeout(s) \/ Die(s), NEW p \in Polls
        PROVE  handled' = handled /\ Abandoning(s, p)
    <2>1. poll' = Abandoned(s) /\ Undelivered(s) \subseteq lost'
      BY <1>5 DEF Timeout, Die
    <2>2. (p[1] = s /\ poll[p].answer = "awaited" /\ poll[p].stage = "committed")
             => Given(p) \subseteq lost'
      BY <2>1, PollSession DEF Undelivered
    <2>3. handled' = handled
      BY <1>5 DEF Timeout, Die, row
    <2> QED
      BY <1>1, <2>1, <2>2, <2>3 DEF Abandoned, Abandoning, PollStates
  <1>6. ASSUME NEW s \in Sessions, Handle(s) \/ SecretFails(s)
        PROVE  /\ poll' = poll /\ handled' = handled
               /\ \A t \in Sessions : batch'[t] \subseteq batch[t]
    BY <1>6 DEF Handle, Execute, NoMatchingAction, SendResults, SecretFails, row
  <1> DEFINE Quiet == \/ UNCHANGED vars
                      \/ \E e \in Executions : RequestExecution(e)
                      \/ \E m \in sent : SubmitExecutionResults(m) \/ LoseResults(m)
             Polling == \E s \in Sessions : Poll(s)
             Serving == \E p \in Polls :
                           MarkHandled(p) \/ Commit(p) \/ Rollback(p) \/ ReceiveAnswer(p)
             Leaving == \E s \in Sessions : Timeout(s) \/ Die(s)
             Works == \E s \in Sessions : Handle(s) \/ SecretFails(s)
  <1>7. CASE Quiet
    BY <1>7 DEF vars, worker, row, RequestExecution, SubmitExecutionResults, LoseResults
  <1>8. CASE Polling
    BY <1>3, <1>8 DEF Moves
  <1>9. CASE Serving
    <2>1. PICK p \in Polls : MarkHandled(p) \/ Commit(p) \/ Rollback(p) \/ ReceiveAnswer(p)
      BY <1>9
    <2>2. /\ \A q \in Polls \ {p} : poll'[q] = poll[q]
          /\ Moves(p) /\ running' = running /\ (batch' = batch \/ Receives(p))
          /\ Commits(p) \/ handled' = handled
          /\ \A e \in Executions : handled'[e] => handled[e] \/ e \in Given(p)
      BY <1>4, <2>1
    <2> QED
      BY <2>2
  <1>10. CASE Leaving
    <2>1. PICK s \in Sessions : Timeout(s) \/ Die(s)
      BY <1>10
    <2>2. \A p \in Polls : Abandoning(s, p)
      BY <1>5, <2>1
    <2>3. handled' = handled
      BY <2>1 DEF Timeout, Die, row
    <2> QED
      BY <2>2, <2>3
  <1>11. CASE Works
    BY <1>6, <1>11
  <1>12. Quiet \/ Polling \/ Serving \/ Leaving \/ Works
    BY DEF Next, ApiStep
  <1> HIDE DEF Quiet, Polling, Serving, Leaving, Works
  <1> QED
    BY <1>7, <1>8, <1>9, <1>10, <1>11, <1>12

LEMMA TruthfulStep == IInv /\ [Next]_vars => Truthful' /\ ReportsAreTrue'
  <1> SUFFICES ASSUME IInv, [Next]_vars PROVE Truthful' /\ ReportsAreTrue'
    OBVIOUS
  <1>1. \A e, r : IsTrue(e, r) => IsTrue(e, r)'
    BY HistoryGrows DEF IsTrue
  <1>2. \A e \in Executions : IsTrue(e, result[e])
    BY DEF IInv, ReportsAreTrue, IsTrue
  <1>3. ASSUME NEW p \in Polls, NEW e \in Given(p)' PROVE IsTrue(e, poll[p].rows[e])'
    <2>1. \A x \in Given(p) : \A r : r = poll[p].rows[x] => IsTrue(x, r)'
      BY <1>1 DEF IInv, Truthful
    <2>2. CASE poll'[p].rows = poll[p].rows
      BY <2>1, <2>2 DEF Given
    <2>3. CASE poll'[p] = Free
      BY <2>3, InitialValues DEF Given, Free
    <2>4. CASE Begins(p)
      <3>1. e \in Executions /\ poll'[p].rows[e] = result[e]
        BY <2>4 DEF Begins
      <3>2. \A r : r = result[e] => IsTrue(e, r)'
        BY <1>1, <1>2, <3>1
      <3> QED
        BY <3>1, <3>2
    <2> QED
      BY <2>2, <2>3, <2>4, PollSteps
      DEF Moves, Marks, Commits, Undone, Receives, Abandoning
  <1>4. ASSUME NEW s \in Sessions, running'[s] # Idle
        PROVE  /\ running'[s].execution \in Executions /\ running'[s].outcome # "none"
               /\ IsTrue(running[s].execution, ResultOf(s))'
    <2> USE DEF IInv, TypeOK, ResultOf, Outcome
    <2>1. CASE running'[s] = running[s]
      BY <1>1, <1>4, <2>1 DEF Truthful
    <2>2. ASSUME NEW e \in Executions, Execute(s, e)
          PROVE  /\ running'[s].execution \in Executions /\ running'[s].outcome # "none"
                 /\ IsTrue(running[s].execution, ResultOf(s))'
      BY <2>2 DEF Execute, IsTrue
    <2>3. CASE SecretFails(s)
      <3>1. /\ running[s] \in Handlings /\ running[s] # Idle
            /\ running'[s] = [running[s] EXCEPT !.outcome = "failed", !.caught = TRUE]
            /\ failed' = failed \cup {<<running[s].execution, s>>}
        BY <1>4, <2>3 DEF SecretFails
      <3>2. running[s].execution \in Executions
        BY <3>1 DEF Truthful
      <3> QED
        BY <3>1, <3>2 DEF IsTrue, Handlings
    <2>4. ASSUME NEW t \in Sessions, Handle(t) \/ SecretFails(t) \/ Die(t)
          PROVE  running'[s] = running[s] \/ SecretFails(s) \/ \E e \in Executions : Execute(s, e)
      <3>1. running' = running \/ \E r : running' = [running EXCEPT ![t] = r]
        BY <2>4 DEF Handle, Execute, NoMatchingAction, SendResults, SecretFails, Die
      <3>2. s # t => running'[s] = running[s]
        BY <3>1
      <3>3. SendResults(s) \/ Die(s) => running'[s] = Idle
        BY DEF SendResults, Die
      <3>4. \A e \in Executions : NoMatchingAction(s, e) => running'[s] = running[s]
        BY DEF NoMatchingAction
      <3> QED
        BY <1>4, <2>4, <3>2, <3>3, <3>4 DEF Handle
    <2>5. \/ running' = running
          \/ \E t \in Sessions : Handle(t) \/ SecretFails(t) \/ Die(t)
      BY DEF Next, ApiStep, vars, worker, RequestExecution, Poll, MarkHandled, Commit, Rollback,
             SubmitExecutionResults, LoseResults, ReceiveAnswer, Timeout
    <2> QED
      BY <2>1, <2>2, <2>3, <2>4, <2>5
  <1>5. ASSUME NEW m \in sent' PROVE m.result # None /\ IsTrue(m.execution, m.result)'
    <2>1. m \in sent \/ \E s \in Sessions :
            /\ running[s] # Idle
            /\ m = [execution |-> running[s].execution, result |-> ResultOf(s)]
      BY DEF Next, ApiStep, Handle, vars, RequestExecution, Poll, MarkHandled, Commit, Rollback,
          SubmitExecutionResults, LoseResults, ReceiveAnswer, Timeout, NoMatchingAction, Execute,
          SendResults, SecretFails, Die
    <2> QED
      BY <1>1, <2>1, RunningTypes DEF IInv, Truthful
  <1>6. ASSUME NEW e \in Executions PROVE IsTrue(e, result[e])'
    <2>1. \/ result'[e] = result[e]
          \/ \E p \in Polls : e \in Given(p) /\ result'[e] = poll[p].rows[e]
          \/ \E m \in sent : m.execution = e /\ result'[e] = m.result
      BY DEF Next, ApiStep, Handle, vars, row, RequestExecution, Poll, MarkHandled, Commit, Rollback,
          SubmitExecutionResults, LoseResults, ReceiveAnswer, Timeout, NoMatchingAction, Execute,
          SendResults, SecretFails, Die, IInv, TypeOK
    <2> QED
      BY <1>1, <1>2, <2>1 DEF IInv, Truthful
  <1> QED
    BY <1>3, <1>4, <1>5, <1>6 DEF Truthful, ReportsAreTrue, IsTrue
-----------------------------------------------------------------------------
\* An execution is taken from a batch: its action is run, or there is none.
Takes(s, e) ==
    /\ e \in batch[s] /\ running[s] = Idle /\ batch'[s] = batch[s] \ {e}
    /\ \/ running'[s].execution = e /\ runs' = [runs EXCEPT ![e] = @ + 1]
       \/ running'[s] = Idle /\ e \in lost' /\ runs' = runs
\* The results of one are sent, or are to be others.
Reports(s) ==
    /\ running[s] # Idle /\ batch'[s] = batch[s] /\ runs' = runs
    /\ \/ running'[s] = Idle /\ \E m \in sent' : m.execution = running[s].execution
       \/ running'[s].execution = running[s].execution
\* All that is left is dropped.
Drops(s) ==
    /\ batch'[s] = {} /\ running'[s] = Idle /\ runs' = runs
    /\ batch[s] \subseteq lost'
    /\ running[s].execution \in lost' \cup {Nobody}

\* What a step does to the work of the processes.
LEMMA WorkSteps ==
  ASSUME IInv, [Next]_vars
  PROVE  \/ batch' = batch /\ running' = running /\ runs' = runs
         \/ /\ running' = running /\ runs' = runs
            /\ \E p \in Polls :
                  Receives(p) /\ \A q \in Polls \ {p} : poll'[q] = poll[q]
         \/ \E s \in Sessions :
               /\ \A t \in Sessions \ {s} : batch'[t] = batch[t] /\ running'[t] = running[t]
               /\ \/ (Reports(s) \/ \E e \in Executions : Takes(s, e)) /\ poll' = poll
                  \/ Drops(s)
  <1> USE DEF IInv, TypeOK
  <1>1. ASSUME NEW p \in Polls, ReceiveAnswer(p)
        PROVE  /\ running' = running /\ runs' = runs
               /\ Receives(p) /\ \A q \in Polls \ {p} : poll'[q] = poll[q]
    <2>1. poll[p] \in PollStates
      OBVIOUS
    <2> QED
      BY <1>1, <2>1 DEF ReceiveAnswer, Received, Receives, PollStates, hist
  <1>2. ASSUME NEW s \in Sessions, NEW e \in Executions, Execute(s, e) \/ NoMatchingAction(s, e)
        PROVE  /\ \A t \in Sessions \ {s} : batch'[t] = batch[t] /\ running'[t] = running[t]
               /\ Takes(s, e) /\ poll' = poll
    BY <1>2 DEF Execute, NoMatchingAction, Takes
  <1>3. ASSUME NEW s \in Sessions, SendResults(s)
        PROVE  /\ \A t \in Sessions \ {s} : batch'[t] = batch[t] /\ running'[t] = running[t]
               /\ Reports(s) /\ poll' = poll
    <2> DEFINE m == [execution |-> running[s].execution, result |-> ResultOf(s)]
    <2>1. m \in sent' /\ m.execution = running[s].execution
      BY <1>3 DEF SendResults
    <2> HIDE DEF m
    <2> QED
      BY <1>3, <2>1 DEF SendResults, Reports, hist
  <1>4. ASSUME NEW s \in Sessions, SecretFails(s)
        PROVE  /\ \A t \in Sessions \ {s} : batch'[t] = batch[t] /\ running'[t] = running[t]
               /\ (Reports(s) /\ poll' = poll) \/ Drops(s)
    <2>1. running[s] \in Handlings
      OBVIOUS
    <2> QED
      BY <1>4, <2>1 DEF SecretFails, Reports, Drops, Handlings
  <1>5. ASSUME NEW s \in Sessions, Die(s)
        PROVE  /\ \A t \in Sessions \ {s} : batch'[t] = batch[t] /\ running'[t] = running[t]
               /\ Drops(s)
    BY <1>5 DEF Die, Drops
  <1> DEFINE Quiet == \/ UNCHANGED vars
                      \/ \E e \in Executions : RequestExecution(e)
                      \/ \E p \in Polls : MarkHandled(p) \/ Commit(p) \/ Rollback(p)
                      \/ \E m \in sent : SubmitExecutionResults(m) \/ LoseResults(m)
                      \/ \E s \in Sessions : Poll(s) \/ Timeout(s)
             Works == \E s \in Sessions : Handle(s) \/ SecretFails(s) \/ Die(s)
             Receiving == \E p \in Polls : ReceiveAnswer(p)
  <1>6. CASE Quiet
    <2>1. batch' = batch /\ running' = running /\ runs' = runs
      BY <1>6
      DEF vars, worker, hist, RequestExecution, Poll, MarkHandled, Commit, Rollback,
          SubmitExecutionResults, LoseResults, Timeout
    <2> QED
      BY <2>1
  <1>7. CASE Works
    BY <1>2, <1>3, <1>4, <1>5, <1>7 DEF Handle
  <1>8. CASE Receiving
    BY <1>1, <1>8
  <1>9. Quiet \/ Works \/ Receiving
    BY DEF Next, ApiStep
  <1> HIDE DEF Quiet, Works, Receiving
  <1> QED
    BY <1>6, <1>7, <1>8, <1>9

LEMMA AnswersStep == IInv /\ [Next]_vars => Answers'
  <1> SUFFICES ASSUME IInv, [Next]_vars PROVE Answers'
    OBVIOUS
  <1> USE DEF Moves, Begins, Marks, Commits, Undone, Receives, Abandoning
  <1>0. Free.stage = "free" /\ Free.answer = "none"
    BY DEF Free
  <1>1. ASSUME NEW p \in Polls
        PROVE  /\ poll'[p].stage = "free" <=> poll'[p] = Free
               /\ poll'[p].stage # "free" => poll'[p].answer # "none"
               /\ poll'[p].answer = "received" => poll'[p].stage = "marked"
               /\ poll'[p].stage = "committed" => poll'[p].answer = "awaited"
    <2>1. /\ poll[p].stage \in {"free", "read", "marked", "committed"}
          /\ poll[p].answer \in {"none", "awaited", "received", "gone"}
          /\ poll[p].stage = "free" <=> poll[p] = Free
          /\ poll[p].stage # "free" => poll[p].answer # "none"
          /\ poll[p].answer = "received" => poll[p].stage = "marked"
          /\ poll[p].stage = "committed" => poll[p].answer = "awaited"
      BY PollTypes DEF IInv, Answers
    <2> QED
      BY <1>0, <2>1, PollSteps
  <1>2. ASSUME NEW p \in Polls, poll'[p].answer = "awaited"
        PROVE  batch'[p[1]] = {} /\ running'[p[1]] = Idle
    <2>1. batch[p[1]] = {} /\ running[p[1]] = Idle /\ p[1] \in Sessions
      BY <1>0, <1>2, PollSteps, PollSession DEF IInv, Answers
    <2>2. \A q \in Polls : Receives(q) /\ (\A r \in Polls \ {q} : poll'[r] = poll[r]) => q[1] # p[1]
      BY <1>0, <1>2 DEF IInv, Answers
    <2> QED
      BY <2>1, <2>2, WorkSteps DEF Takes, Reports, Drops, IInv, TypeOK
  <1>3. ASSUME NEW p \in Polls, NEW q \in Polls, p[1] = q[1], poll'[p].answer = "awaited",
               poll'[q].answer = "awaited"
        PROVE  p = q
    <2>1. \A r \in Polls : poll'[r] = poll[r] /\ poll'[r].answer = "awaited" /\ r[1] = p[1] => Awaits(p[1])
      BY PollSession DEF Awaits
    <2> QED
      BY <1>0, <1>3, <2>1, PollSteps DEF IInv, Answers
  <1> QED
    BY <1>1, <1>2, <1>3 DEF Answers
-----------------------------------------------------------------------------
LEMMA MarkedStep == IInv /\ [Next]_vars => Marked'
  <1> SUFFICES ASSUME IInv, [Next]_vars PROVE Marked'
    OBVIOUS
  <1> USE DEF Moves, Begins, Marks, Commits, Undone, Receives, Abandoning, Given
  <1>0. Free.stage = "free"
    BY DEF Free
  <1>1. \A p \in Polls : Given(p) \subseteq Executions
    BY PollTypes DEF IInv
  <1>2. ASSUME NEW p \in Polls, poll'[p].stage = "committed", NEW e \in Given(p)'
        PROVE  handled'[e]
    BY <1>0, <1>1, <1>2, PollSteps, HistoryGrows DEF IInv, Marked
  <1>3. ASSUME NEW p \in Polls, poll'[p].stage \in {"read", "marked"}, NEW e \in Given(p)',
               handled'[e]
        PROVE  e \in shared'
    <2>1. CASE handled' = handled
      BY <1>0, <1>3, <2>1, PollSteps, HistoryGrows DEF IInv, Marked
    <2>2. ASSUME NEW q \in Polls, Commits(q), \A r \in Polls \ {q} : poll'[r] = poll[r],
                 \A x \in Executions : handled'[x] => handled[x] \/ x \in Given(q)
          PROVE  e \in shared'
      <3>1. q # p \/ poll'[p] = Free \/ poll'[p].stage = "committed"
        BY <2>2
      <3>2. q # p /\ poll'[p] = poll[p] /\ e \in Given(p) /\ e \in Executions
        BY <1>0, <1>1, <1>3, <2>2, <3>1
      <3>3. CASE handled[e]
        BY <1>3, <3>2, <3>3, HistoryGrows DEF IInv, Marked
      <3>4. CASE ~handled[e]
        BY <1>3, <2>2, <3>2, <3>4 DEF Overlapping
      <3> QED
        BY <3>3, <3>4
    <2> QED
      BY <2>1, <2>2, PollSteps
  <1> QED
    BY <1>2, <1>3 DEF Marked

\* An execution that no overlap has touched is claimed by a poll that claimed it before, or
\* marks it now, when nobody has claimed it, marked it or had it.
LEMMA ClaimSteps ==
  ASSUME IInv, [Next]_vars, NEW e \in Executions \ shared', NEW p \in Claiming(e)'
  PROVE  \/ p \in Claiming(e) /\ poll'[p].answer \in {poll[p].answer, "received", "gone"}
            /\ (poll[p].answer = "received" => poll'[p].answer = "received")
         \/ /\ Claiming(e) = {} /\ ~handled[e]
            /\ \A q \in Polls \ {p} : poll'[q] = poll[q]
  <1> USE DEF Moves, Begins, Marks, Commits, Undone, Receives, Abandoning
  <1>0. Free.stage = "free"
    BY DEF Free
  <1>1. e \notin shared
    BY HistoryGrows
  <1>2. p \in Polls /\ poll'[p].stage \in {"marked", "committed"} /\ e \in Given(p)'
    BY DEF Claiming
  <1>3. CASE Marks(p) /\ \A q \in Polls \ {p} : poll'[q] = poll[q]
    <2>1. e \in Given(p) /\ ~Locked(e) /\ poll[p].stage = "read"
      BY <1>2, <1>3 DEF Given
    <2>2. ~handled[e]
      BY <1>1, <1>2, <2>1 DEF IInv, Marked
    <2>3. Claiming(e) = {}
      BY <1>2, <2>1, <2>2 DEF Claiming, Locked, IInv, Marked
    <2> QED
      BY <1>3, <2>2, <2>3
  <1>4. CASE ~Marks(p)
    <2>1. p \in Claiming(e) /\ poll'[p].answer \in {poll[p].answer, "received", "gone"}
      BY <1>0, <1>2, <1>4, PollSteps DEF Claiming, Given
    <2>2. poll[p].answer = "received" => poll'[p].answer = "received"
      BY <1>0, <1>2, <1>4, PollSteps DEF Claiming, Given
    <2> QED
      BY <2>1, <2>2
  <1>5. Marks(p) => \A q \in Polls \ {p} : poll'[q] = poll[q]
    BY <1>0, <1>2, PollSteps
  <1> QED
    BY <1>3, <1>4, <1>5

LEMMA ClaimedOnceStep == IInv /\ [Next]_vars => ClaimedOnce'
  <1> SUFFICES ASSUME IInv, [Next]_vars, NEW e \in Executions \ shared',
                      NEW p \in Claiming(e)', NEW q \in Claiming(e)'
               PROVE  p = q
    BY DEF ClaimedOnce
  <1>1. e \notin shared
    BY HistoryGrows
  <1>2. CASE p \in Claiming(e) /\ q \in Claiming(e)
    BY <1>1, <1>2 DEF IInv, ClaimedOnce
  <1>3. CASE Claiming(e) = {} /\ \A r \in Polls \ {p} : poll'[r] = poll[r]
    BY <1>3 DEF Claiming, Given
  <1>4. CASE Claiming(e) = {} /\ \A r \in Polls \ {q} : poll'[r] = poll[r]
    BY <1>4 DEF Claiming, Given
  <1> QED
    BY <1>2, <1>3, <1>4, ClaimSteps

Had(e) == runs[e] > 0 \/ \E s \in Sessions : e \in batch[s]

\* A process comes to have an execution by the answer of a poll, as the only one.
LEMMA HadSteps ==
  ASSUME IInv, [Next]_vars, NEW e \in Executions
  PROVE  \/ batch' = batch /\ runs'[e] = runs[e]
         \/ \E s \in Sessions :
               /\ e \in batch[s] /\ batch'[s] = batch[s] \ {e}
               /\ \A t \in Sessions \ {s} : batch'[t] = batch[t]
               /\ runs'[e] \in {runs[e], runs[e] + 1}
         \/ /\ \A s \in Sessions : e \in batch'[s] => e \in batch[s]
            /\ runs'[e] = runs[e]
         \/ \E p \in Polls :
               /\ Receives(p) /\ runs'[e] = runs[e]
               /\ \A q \in Polls \ {p} : poll'[q] = poll[q]
  <1> USE DEF Takes, Reports, Drops, IInv, TypeOK
  <1> QED
    BY WorkSteps

LEMMA DeliveredStep == IInv /\ [Next]_vars => Delivered'
  <1> SUFFICES ASSUME IInv, [Next]_vars, NEW e \in Executions \ shared', Had(e)'
               PROVE  /\ \A p \in Claiming(e)' : poll'[p].answer = "received"
                      /\ handled'[e] \/ Claiming(e)' # {}
    BY DEF Delivered, Had
  <1>1. e \notin shared
    BY HistoryGrows
  <1>2. CASE Had(e)
    <2>1. /\ \A p \in Claiming(e) : poll[p].answer = "received"
          /\ handled[e] \/ Claiming(e) # {}
      BY <1>1, <1>2 DEF Had, IInv, Delivered
    <2>2. \A p \in Claiming(e)' : poll'[p].answer = "received"
      BY <2>1, ClaimSteps
    <2>3. handled[e] => handled'[e]
      BY HistoryGrows
    <2>4. ASSUME NEW p \in Claiming(e) PROVE handled'[e] \/ p \in Claiming(e)'
      <3>1. /\ p \in Polls /\ e \in Given(p) /\ poll[p].answer = "received"
            /\ poll[p].stage = "marked"
        BY <2>1 DEF Claiming, IInv, Answers
      <3> QED
        BY <3>1, PollSteps
        DEF Moves, Begins, Marks, Commits, Undone, Receives, Abandoning, Claiming, Given, Free
    <2> QED
      BY <2>1, <2>2, <2>3, <2>4
  <1>3. ASSUME NEW p \in Polls, Receives(p), \A q \in Polls \ {p} : poll'[q] = poll[q],
               e \in Given(p)
        PROVE  /\ \A q \in Claiming(e)' : poll'[q].answer = "received"
               /\ handled'[e] \/ Claiming(e)' # {}
    <2>1. p \in Claiming(e) /\ \A q \in Claiming(e) : q = p
      BY <1>1, <1>3 DEF Receives, Claiming, IInv, ClaimedOnce
    <2>2. \A q \in Claiming(e)' : q = p
      BY <1>3, <2>1 DEF Claiming, Given
    <2>3. CASE poll[p].stage = "committed"
      <3>1. Claiming(e)' = {}
        BY <1>3, <2>2, <2>3 DEF Receives, Claiming, Free
      <3>2. handled[e]
        BY <1>3, <2>3 DEF IInv, Marked
      <3> QED
        BY <3>1, <3>2, HistoryGrows
    <2>4. CASE poll[p].stage = "marked"
      BY <1>3, <2>2, <2>4 DEF Receives, Claiming, Given
    <2> QED
      BY <1>3, <2>3, <2>4 DEF Receives
  <1>4. CASE ~Had(e)
    <2>1. \E p \in Polls : /\ Receives(p) /\ \A q \in Polls \ {p} : poll'[q] = poll[q]
                          /\ e \in Given(p)
      BY <1>4, HadSteps, PollSession DEF Had, Receives, IInv, TypeOK
    <2> QED
      BY <1>3, <2>1
  <1> QED
    BY <1>2, <1>4

LEMMA RunsStep == IInv /\ [Next]_vars => InOneBatch' /\ RunsOnceWithoutOverlap'
  <1> SUFFICES ASSUME IInv, [Next]_vars, NEW e \in Executions \ shared'
               PROVE  /\ \A s \in Sessions : e \in batch'[s] => runs'[e] = 0
                      /\ \A s, t \in Sessions : e \in batch'[s] \cap batch'[t] => s = t
                      /\ ~(runs'[e] > 1)
    BY DEF InOneBatch, RunsOnceWithoutOverlap
  <1>1. /\ e \in Executions /\ e \notin shared /\ runs[e] \in Nat /\ ~(runs[e] > 1)
        /\ \A s \in Sessions : e \in batch[s] => runs[e] = 0
        /\ \A s, t \in Sessions : e \in batch[s] \cap batch[t] => s = t
    BY HistoryGrows DEF IInv, TypeOK, InOneBatch, RunsOnceWithoutOverlap
  <1>2. ASSUME NEW p \in Polls, Receives(p), runs'[e] = runs[e]
        PROVE  /\ \A s \in Sessions : e \in batch'[s] => runs'[e] = 0
               /\ \A s, t \in Sessions : e \in batch'[s] \cap batch'[t] => s = t
    <2>1. CASE e \in Given(p)
      <3>1. p \in Claiming(e) /\ poll[p].answer # "received"
        BY <1>2, <2>1 DEF Receives, Claiming
      <3>2. ~Had(e)
        BY <1>1, <3>1 DEF IInv, Delivered, Had
      <3> QED
        BY <1>1, <1>2, <3>2 DEF Had, Receives, IInv, TypeOK
    <2>2. CASE e \notin Given(p)
      BY <1>1, <1>2, <2>2 DEF Receives, IInv, TypeOK
    <2> QED
      BY <2>1, <2>2
  <1> QED
    BY <1>1, <1>2, HadSteps
-----------------------------------------------------------------------------
\* Results arrive or go missing.
LEMMA SentSteps ==
  ASSUME IInv, [Next]_vars, NEW m \in sent
  PROVE  m \in sent' \/ m.execution \in lost' \/ SubmitExecutionResults(m)
  BY DEF Next, ApiStep, Handle, vars, RequestExecution, Poll, MarkHandled, Commit, Rollback,
         SubmitExecutionResults, LoseResults, ReceiveAnswer, Timeout, NoMatchingAction, Execute,
         SendResults, SecretFails, Die

\* What a process has does not go missing silently.
LEMMA PresentSteps ==
  ASSUME IInv, [Next]_vars, NEW e \in Executions, Present(e)
  PROVE  Present(e)' \/ \E m \in sent : m.execution = e /\ SubmitExecutionResults(m)
  <1>1. e # Nobody /\ Idle.execution = Nobody
    BY SessionsAssumption DEF Idle
  <1>2. CASE e \in lost \cup shared
    BY <1>2, HistoryGrows DEF Present
  <1>3. CASE \E m \in sent : m.execution = e
    BY <1>3, SentSteps DEF Present
  <1>4. ASSUME NEW s \in Sessions, e \in batch[s] \/ running[s].execution = e PROVE Present(e)'
    <2> SUFFICES ASSUME ~(\E t \in Sessions : e \in batch'[t] \/ running'[t].execution = e)
                 PROVE  e \in lost' \/ \E m \in sent' : m.execution = e
      BY DEF Present
    <2>1. ~(e \in batch'[s] \/ running'[s].execution = e)
      OBVIOUS
    <2>2. \A p \in Polls : Receives(p) => p[1] # s \/ (batch[s] = {} /\ running[s] = Idle)
      BY DEF Receives, IInv, Answers
    <2>3. \A p \in Polls : Receives(p) /\ p[1] # s => batch'[s] = batch[s]
      BY DEF Receives, IInv, TypeOK
    <2> QED
      BY <1>1, <1>4, <2>1, <2>2, <2>3, WorkSteps DEF Takes, Reports, Drops
  <1> QED
    BY <1>2, <1>3, <1>4 DEF Present

LEMMA ReceivedStep == IInv /\ [Next]_vars => ReceivedIsPresent'
  <1> SUFFICES ASSUME IInv, [Next]_vars, NEW p \in Polls, poll'[p].answer = "received",
                      NEW e \in Given(p)'
               PROVE  Present(e)'
    BY DEF ReceivedIsPresent
  <1>0. Free.answer = "none"
    BY DEF Free
  <1>1. CASE poll[p].answer = "received"
    <2>1. poll[p].stage = "marked" /\ e \in Given(p) /\ e \in Executions
      <3>1. Given(p) = Given(p)'
        BY <1>0, <1>1, PollSteps
        DEF Moves, Begins, Marks, Commits, Undone, Receives, Abandoning, Given
      <3> QED
        BY <1>1, <3>1, PollTypes DEF IInv, Answers
    <2>2. Present(e) /\ Locked(e)
      BY <1>1, <2>1 DEF IInv, ReceivedIsPresent, Locked
    <2> QED
      BY <2>1, <2>2, PresentSteps DEF SubmitExecutionResults
  <1>2. CASE poll[p].answer # "received"
    <2>1. Receives(p) /\ e \in Given(p)
      BY <1>0, <1>2, PollSteps
      DEF Moves, Begins, Marks, Commits, Undone, Receives, Abandoning, Given
    <2>2. e \in batch'[p[1]] /\ p[1] \in Sessions
      BY <2>1, PollSession DEF Receives, IInv, TypeOK
    <2> QED
      BY <2>2 DEF Present
  <1> QED
    BY <1>1, <1>2

LEMMA ResultSteps ==
  ASSUME IInv, [Next]_vars, NEW e \in Executions
  PROVE  \/ result'[e] = result[e]
         \/ \E p \in Polls : Commits(p) /\ e \in Given(p) /\ handled'[e]
         \/ \E m \in sent : m.execution = e /\ result'[e] = m.result
  <1> USE DEF IInv, TypeOK
  <1>1. ASSUME NEW p \in Polls, Commit(p), e \in Given(p) PROVE Commits(p) /\ handled'[e]
    <2>1. poll[p] \in PollStates
      OBVIOUS
    <2>2. \A x \in Given(p) : handled'[x]
      BY <1>1, PollTypes DEF Commit
    <2> QED
      BY <1>1, <2>1, <2>2 DEF Commit, Commits, PollStates
  <1>2. ASSUME NEW p \in Polls, Commit(p), e \notin Given(p) PROVE result'[e] = result[e]
    BY <1>2 DEF Commit
  <1>3. result' = result \/ (\E p \in Polls : Commit(p)) \/ \E m \in sent : SubmitExecutionResults(m)
    BY DEF Next, ApiStep, Handle, vars, row, RequestExecution, Poll, MarkHandled, Rollback,
           LoseResults, ReceiveAnswer, Timeout, NoMatchingAction, Execute, SendResults, SecretFails,
           Die
  <1>4. ASSUME NEW m \in sent, SubmitExecutionResults(m)
        PROVE  result'[e] = result[e] \/ (m.execution = e /\ result'[e] = m.result)
    BY <1>4 DEF SubmitExecutionResults
  <1> QED
    BY <1>1, <1>2, <1>3, <1>4

LEMMA HandedOutStep == IInv /\ [Next]_vars => HandedOutIsAccountedFor'
  <1> SUFFICES ASSUME IInv, [Next]_vars, NEW e \in Executions, handled'[e], result'[e] = None
               PROVE  Present(e)' \/ Claiming(e)' # {}
    BY DEF HandedOutIsAccountedFor, Present, Claiming, Given
  <1> DEFINE Goal == Present(e)' \/ Claiming(e)' # {}
  <1>1. ~(\E m \in sent : m.execution = e /\ SubmitExecutionResults(m))
    BY DEF SubmitExecutionResults, IInv, Truthful, TypeOK
  <1>2. CASE Present(e)
    BY <1>1, <1>2, PresentSteps
  <1>3. ASSUME NEW p \in Polls, Commits(p), e \in Given(p) PROVE Goal
    <2>1. CASE poll[p].answer = "awaited"
      BY <1>3, <2>1 DEF Commits, Claiming, Given
    <2>2. CASE poll[p].answer = "received"
      BY <1>2, <1>3, <2>2 DEF IInv, ReceivedIsPresent
    <2>3. CASE poll[p].answer = "gone"
      BY <1>3, <2>3 DEF Commits, Present
    <2> QED
      BY <1>3, <2>1, <2>2, <2>3, PollTypes DEF Commits, IInv, Answers
  <1>4. CASE handled[e] /\ result[e] = None /\ ~Present(e)
    <2>1. PICK p \in Claiming(e) : TRUE
      BY <1>4 DEF IInv, HandedOutIsAccountedFor, Present, Claiming, Given
    <2>2. p \in Polls /\ e \in Given(p) /\ poll[p].stage \in {"marked", "committed"}
      BY <2>1 DEF Claiming
    <2>3. CASE Undone(p)
      BY <1>4, <2>2, <2>3 DEF Undone, Present, IInv, Marked
    <2>4. CASE Receives(p)
      <3>1. e \in batch'[p[1]] /\ p[1] \in Sessions
        BY <2>2, <2>4, PollSession DEF Receives, IInv, TypeOK
      <3> QED
        BY <3>1 DEF Present
    <2>5. CASE ~Undone(p) /\ ~Receives(p) /\ ~Commits(p)
      <3>1. \/ p \in Claiming(e)'
            \/ Given(p) \subseteq lost'
        BY <2>2, <2>5, PollSteps DEF Moves, Begins, Marks, Abandoning, Claiming, Given, Free
      <3> QED
        BY <2>2, <3>1 DEF Present
    <2> QED
      BY <1>3, <2>2, <2>3, <2>4, <2>5
  <1>5. handled[e] \/ \E p \in Polls : Commits(p) /\ e \in Given(p)
    BY PollSteps
  <1>6. result[e] = None \/ \E p \in Polls : Commits(p) /\ e \in Given(p)
    BY ResultSteps DEF IInv, Truthful
  <1> QED
    BY <1>2, <1>3, <1>4, <1>5, <1>6

LEMMA Invariance == Init /\ [][Next]_vars => []IInv
  <1>1. IInv /\ [Next]_vars => IInv'
    BY TypeStep, TruthfulStep, AnswersStep, MarkedStep, ClaimedOnceStep, DeliveredStep, RunsStep,
       ReceivedStep, HandedOutStep
    DEF IInv
  <1> QED
    BY Initially, <1>1, PTL

\* Every variable holds values of its kind.
THEOREM TypesOfCustomActions == Spec => []TypeOK
  BY Invariance, PTL DEF Spec, IInv

\* However polls overlap, and whatever is lost, undone or ends, an action is run a second time
\* only after two polls had the execution at once, or one was undone after its answer.
THEOREM RunsOnce == Spec => []RunsOnceWithoutOverlap
  BY Invariance, PTL DEF Spec, IInv

\* The result of an execution is one that the session it names had cause to report.
THEOREM ResultsAreTrue == Spec => []ReportsAreTrue
  BY Invariance, PTL DEF Spec, IInv

\* An execution that was handed out and has no result is with a process, on its way, or known
\* to have gone missing.
THEOREM NothingDroppedSilently == Spec => []HandedOutIsAccountedFor
  BY Invariance, PTL DEF Spec, IInv
=============================================================================
