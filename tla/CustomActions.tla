---------------------------- MODULE CustomActions ----------------------------
(***************************************************************************)
(* Custom actions: an administrator asks for an execution, of one run      *)
(* session or of any; the processes poll for executions; the API hands     *)
(* those that nobody has yet to the session that polls and marks them; the *)
(* worker of the process runs them one after the other and sends the       *)
(* results back (CustomActionService, FigCustomActionWorker).              *)
(*                                                                         *)
(* A request to the API is one transaction that commits after its answer   *)
(* is written, so that the process may have the answer first.  Reads see   *)
(* committed rows and do not wait; an update locks its row to the end of   *)
(* the transaction and writes all columns, as they were read.              *)
(***************************************************************************)
EXTENDS Naturals, FiniteSets

CONSTANTS
    Executions,     \* rows of CustomActionExecution that may be asked for
    Sessions,       \* run sessions, one of each process
    Lanes,          \* [Sessions -> Nat]: bound on the polls of a session that the API works on
    MayAsk,         \* [Executions -> SUBSET of Sessions and AnySession]: whom each may be asked of
    Knows,          \* [Sessions -> SUBSET Executions]: those whose action the process has
    AnySession,     \* the absence of a RunSessionId: any session will do
    Nobody,         \* no session, no execution
    MaxFaults       \* bound: lost answers and results, deaths, failures

ASSUME SessionsAssumption ==
    AnySession \notin Sessions /\ Nobody \notin Sessions \cup Executions \cup {AnySession}
ASSUME LanesAssumption == Lanes \in [Sessions -> Nat]
ASSUME KnowsAssumption == Knows \in [Sessions -> SUBSET Executions]
ASSUME MayAskAssumption == MayAsk \in [Executions -> SUBSET (Sessions \cup {AnySession})]
ASSUME FaultsAssumption == MaxFaults \in Nat

VARIABLES
    to,         \* [Executions -> Sessions, AnySession, or Nobody before the request]
    handled,    \* [Executions -> BOOLEAN]: HandlingInstance is set
    result,     \* [Executions -> Results]: ExecutedAt, Succeeded, ExecutedByRunSessionId
    poll,       \* [Polls -> the stage of the request, the rows it read, its answer]
    alive,      \* sessions whose process runs
    batch,      \* [Sessions -> executions received that the worker has yet to handle]
    running,    \* [Sessions -> the execution being handled, its outcome, in the catch block or not]
    sent,       \* results on their way to the API
    faults,     \* number of faults so far
    runs,       \* history: [Executions -> how often an action was run for it]
    succeeded,  \* history: <<execution, session>> whose action succeeded
    failed,     \* history: <<execution, session>> with a cause to report a failure
    lost,       \* history: executions handed out to nobody, or whose result went missing
    shared      \* history: executions that overlapping polls handed out, or whose poll was undone

row    == <<to, handled, result>>
worker == <<alive, batch, running>>
hist   == <<runs, succeeded, failed, lost, shared>>
vars   == <<row, poll, worker, sent, faults, hist>>

None    == [outcome |-> "none", by |-> Nobody]
Results == {None} \cup [outcome : {"ok", "failed"}, by : Sessions]
NoRows  == [e \in {} |-> None]
Free    == [stage |-> "free", rows |-> NoRows, answer |-> "none"]
Idle    == [execution |-> Nobody, outcome |-> "none", caught |-> FALSE]

PollsOf(s) == {s} \X (1..Lanes[s])
Polls     == UNION {PollsOf(s) : s \in Sessions}
Given(p)  == DOMAIN poll[p].rows
Awaits(s) == \E p \in PollsOf(s) : poll[p].answer = "awaited"

RowSets    == UNION {[E -> Results] : E \in SUBSET Executions}
PollStates == [stage : {"free", "read", "marked", "committed"}, rows : RowSets,
               answer : {"none", "awaited", "received", "gone"}]
Handlings  == [execution : Executions \cup {Nobody}, outcome : {"none", "ok", "failed"},
               caught : BOOLEAN]
Messages   == [execution : Executions, result : Results]

\* Every variable holds values of its kind.
TypeOK ==
    /\ to \in [Executions -> Sessions \cup {AnySession, Nobody}]
    /\ handled \in [Executions -> BOOLEAN]
    /\ result \in [Executions -> Results]
    /\ poll \in [Polls -> PollStates]
    /\ alive \subseteq Sessions
    /\ batch \in [Sessions -> SUBSET Executions]
    /\ running \in [Sessions -> Handlings]
    /\ sent \subseteq Messages
    /\ faults \in 0..MaxFaults
    /\ runs \in [Executions -> Nat]
    /\ succeeded \subseteq Executions \X Sessions
    /\ failed \subseteq Executions \X Sessions
    /\ lost \subseteq Executions
    /\ shared \subseteq Executions

Init ==
    /\ to = [e \in Executions |-> Nobody]
    /\ handled = [e \in Executions |-> FALSE]
    /\ result = [e \in Executions |-> None]
    /\ poll = [p \in Polls |-> Free]
    /\ alive = Sessions
    /\ batch = [s \in Sessions |-> {}]
    /\ running = [s \in Sessions |-> Idle]
    /\ sent = {}
    /\ faults = 0
    /\ runs = [e \in Executions |-> 0]
    /\ succeeded = {}
    /\ failed = {}
    /\ lost = {}
    /\ shared = {}

Fault == faults < MaxFaults /\ faults' = faults + 1

(***************************************************************************)
(* The API.                                                                *)
(***************************************************************************)

\* RequestExecution: a new row, for one session or for any.
RequestExecution(e) ==
    /\ to[e] = Nobody
    /\ \E s \in MayAsk[e] : to' = [to EXCEPT ![e] = s]
    /\ UNCHANGED <<handled, result, poll, worker, sent, faults, hist>>

\* Mutant: rows that have been handed out are pending until they have a result.
PendingWithoutResult == {e \in Executions : to[e] # Nobody /\ result[e] = None}

\* GetAllPending: the rows without a HandlingInstance.
GetAllPending == {e \in Executions : to[e] # Nobody /\ ~handled[e]}

\* Mutant: rows for a session that is named are left out.
ForAutoOnly(s, E) == {e \in E : to[e] = AnySession}

\* The rows for the session that polls, and those for any.
ForSession(s, E) == {e \in E : to[e] \in {s, AnySession}}

\* The worker polls, with every execution of the last batch dealt with, and
\* PollForExecutionRequests reads the pending rows, without locking them.  A poll that finds
\* nothing changes nothing.
Poll(s) ==
    LET mine == ForSession(s, GetAllPending) IN
    /\ s \in alive
    /\ ~Awaits(s)
    /\ batch[s] = {}
    /\ running[s] = Idle
    /\ mine # {}
    /\ \E p \in PollsOf(s) :
          /\ poll[p] = Free
          /\ \A q \in PollsOf(s) : poll[q] = Free => p[2] <= q[2]
          /\ poll' = [poll EXCEPT ![p] = [stage |-> "read", answer |-> "awaited",
                                          rows |-> [e \in mine |-> result[e]]]]
    /\ UNCHANGED <<row, worker, sent, faults, hist>>

\* A row that a poll has updated stays locked until the poll's transaction ends.
Locked(e) == \E p \in Polls : poll[p].stage = "marked" /\ e \in Given(p)

\* It updates every row it hands out, behind those that updated it before, and answers.
MarkHandled(p) ==
    /\ poll[p].stage = "read"
    /\ \A e \in Given(p) : ~Locked(e)
    /\ poll' = [poll EXCEPT ![p].stage = "marked"]
    /\ UNCHANGED <<row, worker, sent, faults, hist>>

\* Executions of the poll that another poll has read and will hand out too.
Overlapping(p) == {e \in Given(p) : \E q \in Polls \ {p} :
                                       poll[q].stage \in {"read", "marked"} /\ e \in Given(q)}

\* The transaction commits: HandlingInstance is set, the other columns are what they were when
\* they were read.  If the process has stopped waiting, the executions are handed out to nobody.
Commit(p) ==
    /\ poll[p].stage = "marked"
    /\ handled' = [e \in Executions |-> handled[e] \/ e \in Given(p)]
    /\ result' = [e \in Executions |-> IF e \in Given(p) THEN poll[p].rows[e] ELSE result[e]]
    /\ poll' = [poll EXCEPT ![p] = IF poll[p].answer = "awaited" THEN [@ EXCEPT !.stage = "committed"]
                                                                 ELSE Free]
    /\ lost' = IF poll[p].answer = "gone" THEN lost \cup Given(p) ELSE lost
    /\ shared' = shared \cup Overlapping(p)
    /\ UNCHANGED <<to, worker, sent, faults, runs, succeeded, failed>>

\* The request fails, if need be when it commits: nothing is marked, although the process may
\* have the answer already.
Rollback(p) ==
    /\ Fault
    /\ poll[p].stage \in {"read", "marked"}
    /\ poll' = [poll EXCEPT ![p] = Free]
    /\ shared' = IF poll[p].answer = "received" THEN shared \cup Given(p) ELSE shared
    /\ UNCHANGED <<row, worker, sent, runs, succeeded, failed, lost>>

\* SubmitExecutionResults reads the row with a lock, and sets what the process sent.
SubmitExecutionResults(m) ==
    /\ ~Locked(m.execution)
    /\ result' = [result EXCEPT ![m.execution] = m.result]
    /\ sent' = sent \ {m}
    /\ UNCHANGED <<to, handled, poll, worker, faults, hist>>

\* The results do not arrive, or the API refuses them: SendCustomActionResults only logs it.
LoseResults(m) ==
    /\ Fault
    /\ sent' = sent \ {m}
    /\ lost' = lost \cup {m.execution}
    /\ UNCHANGED <<row, poll, worker, runs, succeeded, failed, shared>>

(***************************************************************************)
(* The worker of a process.                                                *)
(***************************************************************************)

\* Mutant: the process takes the first execution of the answer.
FirstReceived(p) == {CHOOSE e \in Given(p) : TRUE}

\* The executions in the answer.
Received(p) == Given(p)

\* The answer arrives, before or after the transaction of the poll has committed.
ReceiveAnswer(p) ==
    /\ poll[p].stage \in {"marked", "committed"}
    /\ poll[p].answer = "awaited"
    /\ batch' = [batch EXCEPT ![p[1]] = Received(p)]
    /\ poll' = [poll EXCEPT ![p] = IF poll[p].stage = "committed" THEN Free
                                                                  ELSE [@ EXCEPT !.answer = "received"]]
    /\ UNCHANGED <<row, alive, running, sent, faults, hist>>

\* What becomes of the polls the process no longer waits for: the API goes on with them.
Abandoned(s) ==
    [p \in Polls |-> IF p[1] = s /\ poll[p].answer = "awaited"
                     THEN IF poll[p].stage = "committed" THEN Free ELSE [poll[p] EXCEPT !.answer = "gone"]
                     ELSE poll[p]]

\* Executions that were handed out to the process in an answer it will not receive.
Undelivered(s) == UNION {Given(p) : p \in {q \in PollsOf(s) : /\ poll[q].answer = "awaited"
                                                             /\ poll[q].stage = "committed"}}

\* The poll times out or its answer is lost; the worker polls again.
Timeout(s) ==
    /\ Fault
    /\ Awaits(s)
    /\ poll' = Abandoned(s)
    /\ lost' = lost \cup Undelivered(s)
    /\ UNCHANGED <<row, worker, sent, runs, succeeded, failed, shared>>

\* HandleRequest without an action of that name: only a warning is written.
NoMatchingAction(s, e) ==
    /\ e \in batch[s]
    /\ e \notin Knows[s]
    /\ running[s] = Idle
    /\ batch' = [batch EXCEPT ![s] = @ \ {e}]
    /\ lost' = lost \cup {e}
    /\ UNCHANGED <<row, poll, alive, running, sent, faults, runs, succeeded, failed, shared>>

\* HandleRequest runs the action: it succeeds, it reports a failure, or it throws.
Execute(s, e) ==
    /\ e \in batch[s]
    /\ e \in Knows[s]
    /\ running[s] = Idle
    /\ batch' = [batch EXCEPT ![s] = @ \ {e}]
    /\ runs' = [runs EXCEPT ![e] = @ + 1]
    /\ \/ /\ running' = [running EXCEPT ![s] = [execution |-> e, outcome |-> "ok", caught |-> FALSE]]
          /\ succeeded' = succeeded \cup {<<e, s>>}
          /\ failed' = failed
       \/ /\ \E c \in BOOLEAN :
                running' = [running EXCEPT ![s] = [execution |-> e, outcome |-> "failed", caught |-> c]]
          /\ failed' = failed \cup {<<e, s>>}
          /\ succeeded' = succeeded
    /\ UNCHANGED <<row, poll, alive, sent, faults, lost, shared>>

\* Mutant: the results are those of a success, whatever the action said.
AlwaysOk(s) == "ok"

\* results.All(a => a.Succeeded), or false from the catch block.
Outcome(s) == running[s].outcome

\* What the worker reports, with its session.
ResultOf(s) == [outcome |-> Outcome(s), by |-> s]

\* SendCustomActionResults: the results are on their way.
SendResults(s) ==
    /\ running[s] # Idle
    /\ sent' = sent \cup {[execution |-> running[s].execution,
                           result |-> ResultOf(s)]}
    /\ running' = [running EXCEPT ![s] = Idle]
    /\ UNCHANGED <<row, poll, alive, batch, faults, hist>>

\* The provider of the client secret throws, before anything is sent: the catch block sends a
\* failure instead; when it throws there, the rest of the batch is dropped.
SecretFails(s) ==
    /\ Fault
    /\ running[s] # Idle
    /\ IF running[s].caught
       THEN /\ running' = [running EXCEPT ![s] = Idle]
            /\ batch' = [batch EXCEPT ![s] = {}]
            /\ lost' = lost \cup {running[s].execution} \cup batch[s]
            /\ failed' = failed
       ELSE /\ running' = [running EXCEPT ![s].outcome = "failed", ![s].caught = TRUE]
            /\ failed' = failed \cup {<<running[s].execution, s>>}
            /\ UNCHANGED <<batch, lost>>
    /\ UNCHANGED <<row, poll, alive, sent, runs, succeeded, shared>>

\* The process ends, with what it had received.
Die(s) ==
    /\ Fault
    /\ s \in alive
    /\ alive' = alive \ {s}
    /\ poll' = Abandoned(s)
    /\ batch' = [batch EXCEPT ![s] = {}]
    /\ running' = [running EXCEPT ![s] = Idle]
    /\ lost' = lost \cup Undelivered(s) \cup batch[s] \cup ({running[s].execution} \ {Nobody})
    /\ UNCHANGED <<row, sent, runs, succeeded, failed, shared>>

ApiStep(p) == MarkHandled(p) \/ Commit(p)
Handle(s) == SendResults(s) \/ \E e \in Executions : Execute(s, e) \/ NoMatchingAction(s, e)

Next ==
    \/ \E e \in Executions : RequestExecution(e)
    \/ \E p \in Polls : ApiStep(p) \/ Rollback(p) \/ ReceiveAnswer(p)
    \/ \E m \in sent : SubmitExecutionResults(m) \/ LoseResults(m)
    \/ \E s \in Sessions : Poll(s) \/ Handle(s) \/ Timeout(s) \/ SecretFails(s) \/ Die(s)

\* Requests and answers arrive unless they are lost, the API works on every request, and the
\* loop of a process that runs goes on.
Fairness ==
    /\ \A p \in Polls : WF_vars(ApiStep(p)) /\ WF_vars(ReceiveAnswer(p))
    /\ \A s \in Sessions : WF_vars(Poll(s)) /\ WF_vars(Handle(s))
    /\ WF_vars(\E m \in sent : SubmitExecutionResults(m))

Spec == Init /\ [][Next]_vars /\ Fairness

-----------------------------------------------------------------------------

\* An action is run once for a request, unless two polls overlapped, each reading the execution
\* before the other had marked it, or a poll was undone after the process had its answer
\* (PollForExecutionRequests).
RunsOnceWithoutOverlap ==
    \A e \in Executions : runs[e] > 1 => e \in shared

\* What the row of an execution says is true of the session it names: a success was one, and a
\* failure had a cause there (SubmitExecutionResults, HandleRequest).
ReportsAreTrue ==
    \A e \in Executions :
        /\ result[e].outcome = "ok" => <<e, result[e].by>> \in succeeded
        /\ result[e].outcome = "failed" => <<e, result[e].by>> \in failed

\* An execution that is handed out and nobody still has is completed, unless its answer, its
\* results or the process went missing: nothing is dropped silently (GetStatus: SentToClient).
HandedOutIsAccountedFor ==
    \A e \in Executions :
        handled[e] /\ result[e] = None
            => \/ e \in lost \cup shared
               \/ \E s \in Sessions : e \in batch[s] \/ running[s].execution = e
               \/ \E m \in sent : m.execution = e
               \/ \E p \in Polls : poll[p].stage \in {"marked", "committed"} /\ e \in Given(p)

\* What is asked of a session that goes on, or of any while one goes on, is completed in the
\* end, unless it was handed out and went missing.
RequestsEnd ==
    \A e \in Executions :
        to[e] # Nobody ~> \/ result[e] # None
                          \/ e \in lost
                          \/ to[e] \in Sessions \ alive
                          \/ alive = {}
=============================================================================
