-------------------------- MODULE ClientRegistration --------------------------
(***************************************************************************)
(* The registration of one client name (and instance) by concurrent        *)
(* requests: the lock of the name that every API process keeps in memory   *)
(* (ClientRegistrationLockService), the registration under that lock       *)
(* (SettingsService.RegisterSettings), the transaction of the request,     *)
(* which is committed after the lock is released (TransactionMiddleware),  *)
(* and the worker that clears away the locks nobody used for half an hour. *)
(*                                                                         *)
(* SemaphoreSlim promises no order among those who wait for it.            *)
(***************************************************************************)
EXTENDS Integers

CONSTANTS
    Requests,    \* the requests that register the client, again and again
    Apis,        \* the API processes over one database
    At,          \* the process a request is sent to
    Entries,     \* lock entries a process can allocate: a bound
    ReadsWait    \* whether reading waits for rows that are not committed yet
                 \* (READ COMMITTED of SQL Server, SQLite), or not (snapshots)

None == "none"

ASSUME AtAssumption == At \in [Requests -> Apis]
ASSUME EntriesAssumption == None \notin Entries
ASSUME ReadsWaitAssumption == ReadsWait \in BOOLEAN

VARIABLES
    \* One process's _clientLocks, and its entries.
    lockOf,       \* the entry of the name, in each process
    semaphore,    \* "new", "free", "taken" or "disposed"
    activeCount,
    expired,      \* LastAccessTime is half an hour ago
    \* The requests.
    pc, entry,
    found,        \* whether the client was registered, as the request read it
    inserted,     \* whether it has inserted a row that is not committed
    \* The worker of each process.
    cleaner, candidate,
    \* The database.
    rows          \* the committed rows of the client

locks == <<lockOf, semaphore, activeCount, expired>>
requests == <<pc, entry, found, inserted>>
cleaners == <<cleaner, candidate>>
vars == <<locks, requests, cleaners, rows>>

Places == {"idle", "got", "stamped", "waiting", "entered", "holding", "read", "written",
           "released", "failed"}
Inside(r) == pc[r] \in {"entered", "holding", "read", "written"}
CleanerInside(a) == cleaner[a] \in {"check", "remove", "dispose"}

Init ==
    /\ lockOf = [a \in Apis |-> None]
    /\ semaphore = [e \in Entries |-> "new"]
    /\ activeCount = [e \in Entries |-> 0]
    /\ expired = [e \in Entries |-> FALSE]
    /\ pc = [r \in Requests |-> "idle"]
    /\ entry = [r \in Requests |-> None]
    /\ found = [r \in Requests |-> FALSE]
    /\ inserted = [r \in Requests |-> FALSE]
    /\ cleaner = [a \in Apis |-> "idle"]
    /\ candidate = [a \in Apis |-> None]
    /\ rows = 0

-----------------------------------------------------------------------------
(* AcquireLockAsync.                                                       *)

GoTo(r, place) == pc' = [pc EXCEPT ![r] = place]

\* An entry nobody refers to.
Fresh(e) ==
    /\ \A a \in Apis : lockOf[a] # e /\ candidate[a] # e
    /\ \A r \in Requests : entry[r] # e

\* GetOrAdd finds the entry of the name ...
GetEntry(r) ==
    /\ pc[r] = "idle" /\ lockOf[At[r]] # None
    /\ GoTo(r, "got")
    /\ entry' = [entry EXCEPT ![r] = lockOf[At[r]]]
    /\ UNCHANGED <<locks, found, inserted, cleaners, rows>>

\* ... or adds one.
AddEntry(r) ==
    /\ pc[r] = "idle" /\ lockOf[At[r]] = None
    /\ \E e \in Entries :
          /\ Fresh(e)
          /\ lockOf' = [lockOf EXCEPT ![At[r]] = e]
          /\ semaphore' = [semaphore EXCEPT ![e] = "free"]
          /\ activeCount' = [activeCount EXCEPT ![e] = 0]
          /\ expired' = [expired EXCEPT ![e] = FALSE]
          /\ entry' = [entry EXCEPT ![r] = e]
    /\ GoTo(r, "got")
    /\ UNCHANGED <<found, inserted, cleaners, rows>>

UpdateLastAccessTime(r) ==
    /\ pc[r] = "got"
    /\ expired' = [expired EXCEPT ![entry[r]] = FALSE]
    /\ GoTo(r, "stamped")
    /\ UNCHANGED <<lockOf, semaphore, activeCount, entry, found, inserted, cleaners, rows>>

\* WaitAsync, on a semaphore that is free, taken, or disposed (it throws).
Enter(r) ==
    /\ pc[r] = "stamped" /\ semaphore[entry[r]] = "free"
    /\ semaphore' = [semaphore EXCEPT ![entry[r]] = "taken"]
    /\ GoTo(r, "entered")
    /\ UNCHANGED <<lockOf, activeCount, expired, entry, found, inserted, cleaners, rows>>

Wait(r) ==
    /\ pc[r] = "stamped" /\ semaphore[entry[r]] = "taken"
    /\ GoTo(r, "waiting")
    /\ UNCHANGED <<locks, entry, found, inserted, cleaners, rows>>

EnterDisposed(r) ==
    /\ pc[r] = "stamped" /\ semaphore[entry[r]] = "disposed"
    /\ GoTo(r, "idle")
    /\ entry' = [entry EXCEPT ![r] = None]
    /\ UNCHANGED <<locks, found, inserted, cleaners, rows>>

IncrementActiveCount(r) ==
    /\ pc[r] = "entered"
    /\ activeCount' = [activeCount EXCEPT ![entry[r]] = @ + 1]
    /\ GoTo(r, "holding")
    /\ UNCHANGED <<lockOf, semaphore, expired, entry, found, inserted, cleaners, rows>>

-----------------------------------------------------------------------------
(* RegisterSettingsInternal, in the transaction of the request.            *)

\* Mutant: the registrations are read before the lock is held.
MayReadEarly(r) == pc[r] \in {"waiting", "holding"}
\* The lock is held.
MayRead(r) == pc[r] = "holding"

\* GetAllInstancesOfClient.
ReadRegistrations(r) ==
    /\ MayRead(r)
    /\ ReadsWait => \A q \in Requests : ~inserted[q]
    /\ found' = [found EXCEPT ![r] = rows > 0]
    /\ GoTo(r, "read")
    /\ UNCHANGED <<locks, entry, inserted, cleaners, rows>>

\* HandleInitialRegistration inserts the client; an identical or an updated
\* registration leaves the number of rows as it is.
Register(r) ==
    /\ pc[r] = "read"
    /\ inserted' = [inserted EXCEPT ![r] = ~found[r]]
    /\ GoTo(r, "written")
    /\ UNCHANGED <<locks, entry, found, cleaners, rows>>

\* Release of a semaphore: one of those who wait is let in, if there are any.
Release(e, places) ==
    LET queue == {r \in Requests : places[r] = "waiting" /\ entry[r] = e}
    IN  \/ /\ queue = {}
           /\ semaphore' = [semaphore EXCEPT ![e] = "free"]
           /\ pc' = places
        \/ \E waiter \in queue :
              /\ pc' = [places EXCEPT ![waiter] = "entered"]
              /\ UNCHANGED semaphore

\* DecrementActiveCount.
Decremented(e) == activeCount[e] - 1

\* LockReleaser.Dispose: an exception leaves RegisterSettings too.
Dispose(r, place) ==
    /\ activeCount' = [activeCount EXCEPT ![entry[r]] = Decremented(entry[r])]
    /\ expired' = [expired EXCEPT ![entry[r]] = FALSE]
    /\ Release(entry[r], [pc EXCEPT ![r] = place])
    /\ UNCHANGED <<lockOf, found, inserted, cleaners, rows>>
    /\ entry' = [entry EXCEPT ![r] = None]

Return(r) == pc[r] = "written" /\ Dispose(r, "released")
Throw(r) == pc[r] \in {"holding", "read", "written"} /\ Dispose(r, "failed")

Commit(r) ==
    /\ pc[r] = "released"
    /\ rows' = IF inserted[r] THEN rows + 1 ELSE rows
    /\ inserted' = [inserted EXCEPT ![r] = FALSE]
    /\ GoTo(r, "idle")
    /\ UNCHANGED <<locks, entry, found, cleaners>>

Rollback(r) ==
    /\ pc[r] \in {"released", "failed"}
    /\ inserted' = [inserted EXCEPT ![r] = FALSE]
    /\ GoTo(r, "idle")
    /\ UNCHANGED <<locks, entry, found, cleaners, rows>>

-----------------------------------------------------------------------------
(* CleanupUnusedLocks, every ten minutes.                                  *)

Clean(a, place) == cleaner' = [cleaner EXCEPT ![a] = place]

\* Half an hour passes, while no request and no worker is between two statements.
Expire(a) ==
    /\ lockOf[a] # None /\ cleaner[a] = "idle"
    /\ \A r \in Requests : entry[r] = lockOf[a] => pc[r] \in {"waiting", "holding"}
    /\ expired' = [expired EXCEPT ![lockOf[a]] = TRUE]
    /\ UNCHANGED <<lockOf, semaphore, activeCount, requests, cleaners, rows>>

Snapshot(a) ==
    /\ cleaner[a] = "idle" /\ lockOf[a] # None
    /\ Clean(a, "try")
    /\ candidate' = [candidate EXCEPT ![a] = lockOf[a]]
    /\ UNCHANGED <<locks, requests, rows>>

\* Mutant: the semaphore is not tried.
TakenAnyway(e) == semaphore
\* Wait(0) takes the semaphore.
Taken(e) == [semaphore EXCEPT ![e] = "taken"]

TryWait(a) ==
    /\ cleaner[a] = "try" /\ semaphore[candidate[a]] = "free"
    /\ semaphore' = Taken(candidate[a])
    /\ Clean(a, "check")
    /\ UNCHANGED <<lockOf, activeCount, expired, requests, candidate, rows>>

\* Someone is using it.
TryWaitFails(a) ==
    /\ cleaner[a] = "try" /\ semaphore[candidate[a]] # "free"
    /\ Clean(a, "idle")
    /\ candidate' = [candidate EXCEPT ![a] = None]
    /\ UNCHANGED <<locks, requests, rows>>

\* "Revalidate under the semaphore".
Removable(a) ==
    /\ activeCount[candidate[a]] = 0 /\ expired[candidate[a]]
    /\ lockOf[a] = candidate[a]

Revalidate(a) ==
    /\ cleaner[a] = "check" /\ Removable(a)
    /\ Clean(a, "remove")
    /\ UNCHANGED <<locks, requests, candidate, rows>>

\* Mutant: the entry that stays is not released.
KeptBy(a) == UNCHANGED <<semaphore, pc>>
\* "If we couldn't remove or validation failed, release the semaphore".
ReleasedBy(a) == Release(candidate[a], pc)

KeepEntry(a) ==
    /\ cleaner[a] = "check" /\ ~Removable(a)
    /\ ReleasedBy(a)
    /\ Clean(a, "idle")
    /\ candidate' = [candidate EXCEPT ![a] = None]
    /\ UNCHANGED <<lockOf, activeCount, expired, entry, found, inserted, rows>>

TryRemove(a) ==
    /\ cleaner[a] = "remove"
    /\ lockOf' = [lockOf EXCEPT ![a] = None]
    /\ Clean(a, "dispose")
    /\ UNCHANGED <<semaphore, activeCount, expired, requests, candidate, rows>>

\* Those who wait for a disposed semaphore wait for ever.
DisposeSemaphore(a) ==
    /\ cleaner[a] = "dispose"
    /\ semaphore' = [semaphore EXCEPT ![candidate[a]] = "disposed"]
    /\ Clean(a, "idle")
    /\ candidate' = [candidate EXCEPT ![a] = None]
    /\ UNCHANGED <<lockOf, activeCount, expired, requests, rows>>

RequestStep(r) ==
    \/ GetEntry(r) \/ AddEntry(r) \/ UpdateLastAccessTime(r)
    \/ Enter(r) \/ Wait(r) \/ EnterDisposed(r) \/ IncrementActiveCount(r)
    \/ ReadRegistrations(r) \/ Register(r) \/ Return(r) \/ Throw(r) \/ Commit(r) \/ Rollback(r)

CleanerStep(a) ==
    \/ Expire(a) \/ Snapshot(a) \/ TryWait(a) \/ TryWaitFails(a)
    \/ Revalidate(a) \/ KeepEntry(a) \/ TryRemove(a) \/ DisposeSemaphore(a)

Next ==
    \/ \E r \in Requests : RequestStep(r)
    \/ \E a \in Apis : CleanerStep(a)

Spec == Init /\ [][Next]_vars

-----------------------------------------------------------------------------
(* Correctness.                                                            *)

TypeOK ==
    /\ lockOf \in [Apis -> Entries \cup {None}]
    /\ semaphore \in [Entries -> {"new", "free", "taken", "disposed"}]
    /\ activeCount \in [Entries -> 0..1]
    /\ expired \in [Entries -> BOOLEAN]
    /\ pc \in [Requests -> Places]
    /\ entry \in [Requests -> Entries \cup {None}]
    /\ found \in [Requests -> BOOLEAN]
    /\ inserted \in [Requests -> BOOLEAN]
    /\ cleaner \in [Apis -> {"idle", "try", "check", "remove", "dispose"}]
    /\ candidate \in [Apis -> Entries \cup {None}]
    /\ rows \in Nat

\* The requests of one process are in RegisterSettingsInternal one at a time, although
\* the entry that guards it is thrown away and made again while they come and go.
OneRegistrationAtATime ==
    \A r, q \in Requests : (At[r] = At[q] /\ Inside(r) /\ Inside(q)) => r = q

\* A request that waits waits for somebody: no release is lost, unless the worker
\* has disposed of the semaphore.
WaitersWaitForSomeone ==
    \A r \in Requests :
        (pc[r] = "waiting" /\ semaphore[entry[r]] # "disposed") =>
            \/ \E q \in Requests : Inside(q) /\ entry[q] = entry[r]
            \/ \E a \in Apis : CleanerInside(a) /\ candidate[a] = entry[r]

\* A client is registered once: one row, though the lock is released before the commit.
OneClientRow == rows <= 1
=============================================================================
