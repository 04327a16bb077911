----------------------------- MODULE RunSessions -----------------------------
(***************************************************************************)
(* The rows of run sessions, and who writes them: the polls of the         *)
(* processes (SyncStatus), operators who switch live reload or ask for a   *)
(* restart, updates of settings that need a restart to take effect, and    *)
(* the cleanup of expired sessions of every API instance; then the way of  *)
(* a restart request through the configuration provider of the process.    *)
(*                                                                         *)
(* On SQL Server a read with LockMode.Upgrade keeps its lock on the row to *)
(* the end of the transaction; other reads take no lock and see committed  *)
(* rows, but wait for a row that was written.  A poll and an update lock   *)
(* the client's row and read its sessions without a lock; an operator      *)
(* locks the row of the session.  A dirty row is written with all columns  *)
(* as they were read.  Flush and commit are one step where nothing that    *)
(* waits lies between them.                                                *)
(***************************************************************************)
EXTENDS Naturals, FiniteSets

CONSTANTS
    Sessions,       \* run sessions, one of each process
    Polls,          \* PUT /statuses requests, by the timer or by SyncStatus after a load
    Operators,      \* requests of SetLiveReload and RequestRestart
    Updates,        \* updates of settings that do not support live reload
    Cleanups,       \* SessionCleanupWorker of each API instance
    NoRow,
    MaxCleared,     \* bound: reloads that clear the entry of a restart before it is read
    MaxFaults       \* bound: rollbacks, lost answers, crashed processes, polls that come too late

ASSUME RequestsAssumption == Polls \cap Operators = {} /\ Polls \cap Updates = {} /\ Operators \cap Updates = {}
ASSUME BoundsAssumption == {MaxCleared, MaxFaults} \subseteq Nat

Clients  == {"base", "instance"}
Requests == Polls \cup Operators \cup Updates
Changes  == {"restart", "liveReload"}

VARIABLES
    rows,       \* [Clients -> [Sessions -> Rows]]
    override,   \* the client has a registration for the instance the processes name
    request,    \* [Requests -> stage, client, session, the rows as read, the operator's change]
    cleanup,    \* [Cleanups -> rows found expired, those gone since, whether its session fails]
    alive,      \* sessions whose process runs
    asked,      \* bound: operators and updates that have made their one request
    count       \* entries cleared and faults so far

api    == <<rows, override, request, cleanup>>
vars   == <<api, alive, asked, count>>

Row  == [live : BOOLEAN, restart : BOOLEAN, required : BOOLEAN, expired : BOOLEAN, copies : 1..2]
Rows == Row \cup {NoRow}
ASSUME NoRowAssumption == NoRow \notin Row \cup Sessions

None == [x \in Sessions |-> NoRow]
Free == [stage |-> "free", client |-> "base", session |-> NoRow, read |-> None, change |-> "restart"]
Done == [found |-> {}, gone |-> {}, failing |-> FALSE]

Transactions == [stage   : {"free", "read", "updated"},
                 client  : Clients,
                 session : Sessions \cup {NoRow},
                 read    : [Sessions -> Rows],
                 change  : Changes]
Rounds       == [found   : SUBSET (Clients \X Sessions),
                 gone    : SUBSET (Clients \X Sessions),
                 failing : BOOLEAN]

\* Every variable holds values of its kind; what a cleanup found is there still, or the
\* cleanup of another instance has removed it.
TypeOK ==
    /\ rows \in [Clients -> [Sessions -> Rows]]
    /\ override \in BOOLEAN
    /\ request \in [Requests -> Transactions]
    /\ cleanup \in [Cleanups -> Rounds]
    /\ \A w \in Cleanups : \A f \in cleanup[w].found \ cleanup[w].gone : rows[f[1]][f[2]] # NoRow
    /\ alive \subseteq Sessions
    /\ asked \subseteq Operators \cup Updates
    /\ count \in [cleared : 0..MaxCleared, faults : 0..MaxFaults]

Init ==
    /\ rows = [c \in Clients |-> None]
    /\ override = FALSE
    /\ request = [t \in Requests |-> Free]
    /\ cleanup = [w \in Cleanups |-> Done]
    /\ alive = Sessions
    /\ asked = {}
    /\ count = [cleared |-> 0, faults |-> 0]

Counted(what, max) == count[what] < max /\ count' = [count EXCEPT ![what] = @ + 1]
Fault == Counted("faults", MaxFaults)

Stage(t, stage) == request[t].stage = stage
Frees(t)        == request' = [request EXCEPT ![t] = Free]
Current         == IF override THEN "instance" ELSE "base"

(***************************************************************************)
(* Locks.                                                                  *)
(***************************************************************************)

\* Mutant: GetClient without LockMode.Upgrade.
ClientIsOpen(c) == TRUE

\* GetClient waits for the transaction that has locked the client's row.
ClientIsFree(c) ==
    \A t \in Polls \cup Updates : request[t].client = c => request[t].stage \notin {"read", "updated"}

\* Mutant: GetRunSession without LockMode.Upgrade.
SessionIsOpen(c, s) == TRUE

\* The row of a session is not one that an operator has locked.
SessionIsFree(c, s) ==
    \A o \in Operators : ~(Stage(o, "read") /\ request[o].client = c /\ request[o].session = s)

\* An update has written the client's row, which nobody can read until it ends.
ClientIsWritten(c) ==
    \E u \in Updates : request[u].client = c /\ request[u].stage \in {"updated", "read"}

(***************************************************************************)
(* Polls.                                                                  *)
(***************************************************************************)

\* The process sends its status; GetClient locks the client's row, then its sessions are read.
SyncStatus(p, s) ==
    /\ Stage(p, "free") /\ s \in alive
    /\ ClientIsFree(Current)
    /\ request' = [request EXCEPT ![p] = [Free EXCEPT !.stage = "read", !.client = Current, !.session = s,
                                                     !.read = rows[Current]]]
    /\ UNCHANGED <<rows, override, cleanup, alive, count, asked>>

Fresh == [live |-> TRUE, restart |-> FALSE, required |-> FALSE, expired |-> FALSE, copies |-> 1]

\* The row of an existing session, all columns of it, with a new LastSeen.
Updated(read) == [read EXCEPT !.expired = FALSE]

\* Mutant: the new session is not added to those of the client.
NotInserted(row) == row

\* What is in the table once a session that was not found is inserted.
Inserted(row) == IF row = NoRow THEN Fresh ELSE [row EXCEPT !.copies = 2]

\* The session that was found has been removed in between: no row is updated, and the
\* poll fails.
IsStale(p) ==
    LET q == request[p] IN q.read[q.session] # NoRow /\ rows[q.client][q.session] = NoRow

\* Mutant: a restart is heeded only if settings wait for it.
HandledIfRequired(p) ==
    LET read == request[p].read[request[p].session] IN
    IF request[p].session \in alive /\ read # NoRow /\ read.restart /\ read.required
    THEN alive' = alive \ {request[p].session} /\ UNCHANGED count
    ELSE UNCHANGED <<alive, count>>

\* What the answer does in the process.  OnRestartRequested sets the entry RestartRequested
\* behind the reload gate and calls OnReload, where FigRestartWorker finds it and stops the
\* application, unless a reload has entered the gate between and cleared the data.
Handled(p) ==
    LET q == request[p] IN
    IF q.session \in alive /\ q.read[q.session] # NoRow /\ q.read[q.session].restart
    THEN \/ alive' = alive \ {q.session} /\ UNCHANGED count
         \/ UNCHANGED alive /\ Counted("cleared", MaxCleared)
    ELSE UNCHANGED <<alive, count>>

\* SyncStatus writes the session and the request commits.
PollCommits(p) ==
    LET q == request[p] IN
    /\ Stage(p, "read")
    /\ ~IsStale(p)
    /\ IF q.read[q.session] = NoRow
       THEN rows' = [rows EXCEPT ![q.client][q.session] = Inserted(@)]
       ELSE /\ SessionIsFree(q.client, q.session)
            /\ rows' = [rows EXCEPT ![q.client][q.session] = Updated(q.read[q.session])]
    /\ \/ Handled(p)
       \/ Fault /\ UNCHANGED alive
    /\ Frees(p)
    /\ UNCHANGED <<override, cleanup, asked>>

PollIsStale(p) ==
    /\ Stage(p, "read") /\ IsStale(p)
    /\ Frees(p)
    /\ UNCHANGED <<rows, override, cleanup, alive, count, asked>>

\* The commit fails after the answer was written.
PollUndone(p) ==
    LET q == request[p] IN
    /\ Stage(p, "read") /\ ~IsStale(p) /\ Fault
    /\ alive' \in {alive, IF q.read[q.session] # NoRow /\ q.read[q.session].restart THEN alive \ {q.session} ELSE alive}
    /\ Frees(p)
    /\ UNCHANGED <<rows, override, cleanup, asked>>

(***************************************************************************)
(* Operators and updates.                                                  *)
(***************************************************************************)

\* GetRunSession locks the row of the session, of whatever client, which has to be unique:
\* SetLiveReload and RequestRestart fail if it is not.
RowsOf(s) == {c \in Clients : rows[c][s] # NoRow}

GetRunSession(o, s, change) ==
    /\ Stage(o, "free") /\ o \notin asked /\ asked' = asked \cup {o}
    /\ \E c \in Clients :
        /\ RowsOf(s) = {c} /\ rows[c][s].copies = 1 /\ SessionIsFree(c, s)
        /\ request' = [request EXCEPT ![o] = [stage |-> "read", client |-> c, session |-> s,
                                             read |-> [None EXCEPT ![s] = rows[c][s]], change |-> change]]
    /\ UNCHANGED <<rows, override, cleanup, alive, count>>

\* An operator asks for a restart, or switches live reload off or on.
Changed(row, change) ==
    IF change = "restart" THEN [row EXCEPT !.restart = TRUE]
    ELSE [row EXCEPT !.live = ~@]

\* FindClientForRunSession reads all clients, then the row is written and the request commits.
OperatorCommits(o) ==
    LET q == request[o] IN
    /\ Stage(o, "read")
    /\ \A c \in Clients : ~ClientIsWritten(c)
    /\ rows' = [rows EXCEPT ![q.client][q.session] = Changed(q.read[q.session], q.change)]
    /\ Frees(o)
    /\ UNCHANGED <<override, cleanup, alive, count, asked>>

\* UpdateSettingValues has written the client's row and comes to MarkRestartRequired.
UpdateClient(u, c) ==
    /\ Stage(u, "free") /\ (c = "instance" => override) /\ ClientIsFree(c)
    /\ u \notin asked /\ asked' = asked \cup {u}
    /\ request' = [request EXCEPT ![u] = [Free EXCEPT !.stage = "updated", !.client = c]]
    /\ UNCHANGED <<rows, override, cleanup, alive, count>>

MarkRestartRequired(u) ==
    /\ Stage(u, "updated")
    /\ request' = [request EXCEPT ![u] = [@ EXCEPT !.stage = "read", !.read = rows[request[u].client]]]
    /\ UNCHANGED <<rows, override, cleanup, alive, count, asked>>

\* The rows that are changed, and so written.
Dirty(u) == {s \in Sessions : request[u].read[s] # NoRow /\ ~request[u].read[s].required}

\* Mutant: the rows have to be those that were read, and are waited for.
MayWriteFound(u) ==
    \A s \in Dirty(u) : SessionIsFree(request[u].client, s) /\ rows[request[u].client][s] # NoRow

\* No operator has locked a row that is to be written.
MayWrite(u) == \A s \in Dirty(u) : SessionIsFree(request[u].client, s)

\* The rows are written and the request commits, or fails when one has been removed.
UpdateCommits(u) ==
    LET q == request[u]
        c == q.client
    IN
    /\ Stage(u, "read")
    /\ MayWrite(u)
    /\ IF \E s \in Dirty(u) : rows[c][s] = NoRow THEN UNCHANGED rows
       ELSE rows' = [rows EXCEPT ![c] = [s \in Sessions |->
                        IF s \in Dirty(u) THEN [q.read[s] EXCEPT !.required = TRUE] ELSE rows[c][s]]]
    /\ Frees(u)
    /\ UNCHANGED <<override, cleanup, alive, count, asked>>

Rollback(t) ==
    /\ request[t].stage \in {"read", "updated"}
    /\ Frees(t) /\ Fault
    /\ UNCHANGED <<rows, override, cleanup, alive, asked>>

\* An operator's request waits for a client's row that an update has written, and the
\* update for the session's row that the operator's request has locked.
Deadlocked(o, u) ==
    /\ Stage(o, "read") /\ Stage(u, "read")
    /\ request[o].client = request[u].client /\ request[o].session \in Dirty(u)

\* The database ends one of two transactions that wait for each other.
EndDeadlock(o, u) ==
    /\ Deadlocked(o, u)
    /\ Frees(o) \/ Frees(u)
    /\ UNCHANGED <<rows, override, cleanup, alive, count, asked>>

\* Settings of the instance are set for the first time: polls find that client from now on.
CreateOverride ==
    /\ ~override /\ override' = TRUE
    /\ UNCHANGED <<rows, request, cleanup, alive, count, asked>>

(***************************************************************************)
(* Time, and the cleanup.                                                  *)
(***************************************************************************)

\* A session is expired once it has not been seen for twice its interval: the process is
\* gone, polls another client's row now, or is late.
Expire(c, s) ==
    /\ rows[c][s] # NoRow /\ ~rows[c][s].expired
    /\ rows' = [rows EXCEPT ![c][s].expired = TRUE]
    /\ IF s \in alive /\ c = Current THEN Fault ELSE UNCHANGED count
    /\ UNCHANGED <<override, request, cleanup, alive, asked>>

\* Mutant: the last session of a client is kept, to know the machine it ran on.
ExpiredButLast(c) ==
    {s \in Sessions : rows[c][s] # NoRow /\ rows[c][s].expired /\ \E x \in Sessions \ {s} : rows[c][x] # NoRow}

Expired(c) == {s \in Sessions : rows[c][s] # NoRow /\ rows[c][s].expired}

\* RemoveExpiredSessionsAsync reads the clients and their sessions, without a lock.
CleanupReads(w) ==
    LET found == UNION {{c} \X Expired(c) : c \in Clients} IN
    /\ cleanup[w].found = {} /\ found # {}
    /\ \A c \in Clients : ~ClientIsWritten(c)
    /\ cleanup' = [cleanup EXCEPT ![w] = [Done EXCEPT !.found = found]]
    /\ UNCHANGED <<rows, override, request, alive, count, asked>>

\* A session is removed and its event committed.  If another instance has removed the row,
\* that fails, and so does every later write of this NHibernate session.
CleanupRemoves(w, c, s) ==
    LET fails == cleanup[w].failing \/ <<c, s>> \in cleanup[w].gone
        rest  == cleanup[w].found \ {<<c, s>>}
    IN
    /\ <<c, s>> \in cleanup[w].found
    /\ SessionIsFree(c, s)
    /\ rows' = IF fails THEN rows ELSE [rows EXCEPT ![c][s] = NoRow]
    /\ cleanup' = [x \in Cleanups |->
           IF x = w THEN IF rest = {} THEN Done ELSE [cleanup[w] EXCEPT !.found = rest, !.failing = fails]
           ELSE IF ~fails /\ <<c, s>> \in cleanup[x].found THEN [cleanup[x] EXCEPT !.gone = @ \cup {<<c, s>>}]
           ELSE cleanup[x]]
    /\ UNCHANGED <<override, request, alive, count, asked>>

Crash(s) ==
    /\ s \in alive /\ Fault
    /\ alive' = alive \ {s}
    /\ UNCHANGED <<api, asked>>

Next ==
    \/ \E p \in Polls :
        \/ \E s \in Sessions : SyncStatus(p, s)
        \/ PollCommits(p) \/ PollIsStale(p) \/ PollUndone(p)
    \/ \E o \in Operators :
        \/ \E s \in Sessions, change \in Changes : GetRunSession(o, s, change)
        \/ OperatorCommits(o)
        \/ \E u \in Updates : EndDeadlock(o, u)
    \/ \E u \in Updates :
        \/ \E c \in Clients : UpdateClient(u, c)
        \/ MarkRestartRequired(u) \/ UpdateCommits(u)
    \/ \E t \in Requests : Rollback(t)
    \/ CreateOverride
    \/ \E c \in Clients, s \in Sessions :
        \/ Expire(c, s)
        \/ \E w \in Cleanups : CleanupRemoves(w, c, s)
    \/ \E w \in Cleanups : CleanupReads(w)
    \/ \E s \in Sessions : Crash(s)

\* The timer of a process elapses again and again; the API, the handlers of a process and
\* the cleanup go on; a lock is granted to those who wait in the order they came, so that
\* nobody is passed over for ever; a process that does not poll a row is late in the end.
Fairness ==
    /\ \A s \in Sessions : SF_vars(\E p \in Polls : SyncStatus(p, s))
    /\ \A p \in Polls :
        /\ WF_vars((PollCommits(p) /\ count'.faults = count.faults) \/ PollIsStale(p))
    /\ \A o \in Operators :
        /\ WF_vars(OperatorCommits(o))
        /\ \A u \in Updates : WF_vars(EndDeadlock(o, u))
    /\ \A u \in Updates : WF_vars(MarkRestartRequired(u)) /\ WF_vars(UpdateCommits(u))
    /\ \A c \in Clients, s \in Sessions :
        /\ WF_vars(Expire(c, s) /\ ~(s \in alive /\ c = Current))
        /\ \A w \in Cleanups : WF_vars(CleanupRemoves(w, c, s))
    /\ \A w \in Cleanups : WF_vars(CleanupReads(w))

Spec == Init /\ [][Next]_vars /\ Fairness

(***************************************************************************)
(* Properties.                                                             *)
(***************************************************************************)

\* Two polls of one process, before its session has a row, do not both insert one: the
\* second waits for the client's row and finds the session.
OneRowPerClient ==
    \A c \in Clients, s \in Sessions : rows[c][s] # NoRow => rows[c][s].copies = 1

\* As long as a row exists, that it needs a restart is never forgotten, and what an
\* operator has set is undone only by an operator who asks for that, or by a poll or an
\* update that read the row before the operator's request committed.
OverwritesStale(c, s) ==
    \E t \in Polls \cup Updates :
        /\ Stage(t, "read") /\ ~Stage(t, "read")' /\ request[t].client = c
        /\ rows'[c][s].live = request[t].read[s].live /\ rows'[c][s].restart = request[t].read[s].restart

ChangesStand ==
    [][\A c \in Clients, s \in Sessions : (rows[c][s] # NoRow /\ rows'[c][s] # NoRow) =>
        /\ rows[c][s].required => rows'[c][s].required
        /\ rows[c][s].restart => rows'[c][s].restart \/ OverwritesStale(c, s)
        /\ rows[c][s].live # rows'[c][s].live =>
            \/ OverwritesStale(c, s)
            \/ \E o \in Operators : /\ Stage(o, "read") /\ Stage(o, "free")' /\ request[o].session = s
                                    /\ request[o].change # "restart"]_vars

\* A row that asks for a restart is acted upon: the process stops, or the request is
\* overwritten, or the row is no longer the one the process polls.
AsksForRestart(s) == s \in alive /\ rows[Current][s] # NoRow /\ rows[Current][s].restart
RestartsHappen == \A s \in Sessions : AsksForRestart(s) ~> ~AsksForRestart(s)

\* A process that runs is among the connected clients again and again, also after the
\* cleanup has removed the row it was late to write.
LiveProcessesAreShown == \A s \in Sessions : []<>(s \in alive => rows[Current][s] # NoRow)

\* When a process has moved to the registration of its instance it has two rows, and no
\* operator can reach it; the old one goes in the end.
OperatorsReachAgain == \A s \in Sessions : Cardinality(RowsOf(s)) = 2 ~> Cardinality(RowsOf(s)) < 2

\* The requests of operators and the updates end: who locks a session's row and then reads
\* all clients, and who writes a client and then its sessions, may wait for each other,
\* which the database ends, and nobody else does.
WritersEnd == []<>(\A t \in Operators \cup Updates : Stage(t, "free"))
=============================================================================
