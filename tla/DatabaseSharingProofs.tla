------------------------ MODULE DatabaseSharingProofs ------------------------
(***************************************************************************)
(* Proofs about the two ways in which API processes that share a database  *)
(* keep out of each other's way: the lock of a client name, which one      *)
(* process keeps in memory (ClientRegistration), and the application lock  *)
(* and the rows of the migrations, in the database (DatabaseMigrations).   *)
(*                                                                         *)
(* ClientRegistration, for any requests, processes and entries.  One       *)
(* registration at a time rests on three facts: an entry belongs to one    *)
(* process (Homes), who holds its semaphore is alone (Exclusion), and who  *)
(* holds it as a request finds the entry still in the dictionary           *)
(* (Current), so that the other requests come to the same one.             *)
(*                                                                         *)
(* DatabaseMigrations, for any instances, migrations and bounds.  What the *)
(* run checks is not inductive: it rests on who holds the lock where       *)
(* (InGate), on the pending row that keeps the others away from a          *)
(* migration that is being carried out (RunnersRow), and on what an        *)
(* instance leaves behind as it goes on (Passed).                          *)
(***************************************************************************)
EXTENDS ClientRegistration, DatabaseMigrations, TLAPS

InRegister(r) == pc[r] \in {"holding", "read", "written"}

\* A request has an entry from GetOrAdd until it disposes of the lock.
HasEntry ==
    \A r \in Requests :
        pc[r] \notin {"idle", "released", "failed"} => entry[r] \in Entries

\* All who refer to an entry belong to one process.
Homes ==
    /\ \A r, q \in Requests : (entry[r] # None /\ entry[r] = entry[q]) => At[r] = At[q]
    /\ \A r \in Requests : \A a \in Apis :
          (entry[r] # None /\ entry[r] \in {lockOf[a], candidate[a]}) => At[r] = a
    /\ \A a, b \in Apis :
          (lockOf[a] # None /\ lockOf[a] \in {lockOf[b], candidate[b]}) => a = b
    /\ \A a, b \in Apis : (candidate[a] # None /\ candidate[a] = candidate[b]) => a = b

\* Who is inside has taken the semaphore, alone.
Exclusion ==
    /\ \A r \in Requests : Inside(r) => semaphore[entry[r]] = "taken"
    /\ \A a \in Apis : CleanerInside(a) => semaphore[candidate[a]] = "taken"
    /\ \A r, q \in Requests : (Inside(r) /\ Inside(q) /\ entry[r] = entry[q]) => r = q
    /\ \A r \in Requests : \A a \in Apis :
          (Inside(r) /\ CleanerInside(a)) => entry[r] # candidate[a]

\* The entry of who is inside, or may come in, is the one in the dictionary.
Current ==
    /\ \A r \in Requests : Inside(r) => lockOf[At[r]] = entry[r]
    /\ \A r \in Requests :
          (entry[r] \in Entries /\ semaphore[entry[r]] = "free") => lockOf[At[r]] = entry[r]
    /\ \A a \in Apis :
          cleaner[a] \in {"try", "check", "remove"} =>
              (candidate[a] \in Entries /\ lockOf[a] = candidate[a])
    /\ \A a \in Apis : cleaner[a] = "dispose" => candidate[a] \in Entries

\* A semaphore that is taken is held, and who waits finds it taken, or disposed.
Held ==
    /\ \A e \in Entries :
          semaphore[e] = "taken" =>
              \/ \E q \in Requests : Inside(q) /\ entry[q] = e
              \/ \E a \in Apis : CleanerInside(a) /\ candidate[a] = e
    /\ \A r \in Requests : pc[r] = "waiting" => semaphore[entry[r]] \in {"taken", "disposed"}

\* The active count counts the request in RegisterSettings.
Counted ==
    /\ \A r \in Requests : InRegister(r) => activeCount[entry[r]] = 1
    /\ \A e \in Entries :
          activeCount[e] # 0 => \E r \in Requests : InRegister(r) /\ entry[r] = e

IInv == TypeOK /\ HasEntry /\ Homes /\ Exclusion /\ Current /\ Held /\ Counted

-----------------------------------------------------------------------------
LEMMA Initially == Init => IInv
  BY EntriesAssumption
  DEF Init, IInv, TypeOK, Places, HasEntry, Homes, Exclusion, Current, Held, Counted, InRegister,
      Inside, CleanerInside

\* A release lets somebody in who waited for the entry, or frees it.
LEMMA ReleaseCases ==
  ASSUME NEW e \in Entries, NEW places, Release(e, places)
  PROVE  \/ /\ \A r \in Requests : ~(places[r] = "waiting" /\ entry[r] = e)
            /\ semaphore' = [semaphore EXCEPT ![e] = "free"]
            /\ pc' = places
         \/ \E waiter \in Requests :
              /\ places[waiter] = "waiting" /\ entry[waiter] = e
              /\ semaphore' = semaphore
              /\ pc' = [places EXCEPT ![waiter] = "entered"]
  BY DEF Release

LEMMA TypeStep == IInv /\ [Next]_vars => TypeOK'
  <1> SUFFICES ASSUME IInv, [Next]_vars PROVE TypeOK'
    OBVIOUS
  <1> USE AtAssumption DEF IInv, TypeOK, Places, GoTo, Clean, locks, requests, cleaners
  <1>1. CASE UNCHANGED vars
    BY <1>1 DEF vars
  <1>2. ASSUME NEW r \in Requests, RequestStep(r) PROVE TypeOK'
    <2>1. CASE GetEntry(r)
      BY <2>1 DEF GetEntry
    <2>2. CASE AddEntry(r)
      BY <2>2 DEF AddEntry
    <2>3. CASE UpdateLastAccessTime(r)
      BY <2>3 DEF UpdateLastAccessTime
    <2>4. CASE Enter(r) \/ Wait(r) \/ EnterDisposed(r)
      BY <2>4 DEF Enter, Wait, EnterDisposed
    <2>5. CASE IncrementActiveCount(r)
      <3>1. entry[r] \in Entries /\ activeCount[entry[r]] = 0
        BY <2>5 DEF IncrementActiveCount, HasEntry, Counted, Exclusion, InRegister, Inside
      <3> QED
        BY <2>5, <3>1 DEF IncrementActiveCount
    <2>6. CASE ReadRegistrations(r)
      BY <2>6 DEF ReadRegistrations
    <2>7. CASE Register(r)
      BY <2>7 DEF Register
    <2>8. ASSUME NEW place \in {"released", "failed"}, InRegister(r), Dispose(r, place)
          PROVE  TypeOK'
      <3>1. entry[r] \in Entries /\ activeCount[entry[r]] = 1
        BY <2>8 DEF InRegister, HasEntry, Counted
      <3>2. activeCount' \in [Entries -> 0..1]
        BY <2>8, <3>1 DEF Dispose, Decremented
      <3>3. expired' \in [Entries -> BOOLEAN]
        BY <2>8, <3>1 DEF Dispose
      <3>4. Release(entry[r], [pc EXCEPT ![r] = place])
        BY <2>8 DEF Dispose
      <3>p. [pc EXCEPT ![r] = place] \in [Requests -> Places]
        BY <2>8
      <3>5. /\ semaphore' \in [Entries -> {"new", "free", "taken", "disposed"}]
            /\ pc' \in [Requests -> Places]
        BY <3>4, <3>p, <3>1 DEF Release
      <3> QED
        BY <2>8, <3>2, <3>3, <3>5 DEF Dispose
    <2>9. CASE Commit(r)
      BY <2>9 DEF Commit
    <2>10. CASE Rollback(r)
      BY <2>10 DEF Rollback
    <2> QED
      BY <1>2, <2>1, <2>2, <2>3, <2>4, <2>5, <2>6, <2>7, <2>8, <2>9, <2>10
      DEF RequestStep, Return, Throw, InRegister
  <1>3. ASSUME NEW a \in Apis, CleanerStep(a) PROVE TypeOK'
    <2>1. CASE Expire(a)
      BY <2>1 DEF Expire
    <2>2. CASE Snapshot(a)
      BY <2>2 DEF Snapshot
    <2>3. CASE TryWait(a) \/ TryWaitFails(a)
      BY <2>3 DEF TryWait, TryWaitFails, Taken
    <2>4. CASE Revalidate(a) \/ TryRemove(a)
      BY <2>4 DEF Revalidate, TryRemove
    <2>5. CASE KeepEntry(a)
      <3>1. candidate[a] \in Entries /\ Release(candidate[a], pc)
        BY <2>5 DEF KeepEntry, ReleasedBy, Current
      <3>2. CASE semaphore' = [semaphore EXCEPT ![candidate[a]] = "free"] /\ pc' = pc
        BY <2>5, <3>1, <3>2 DEF KeepEntry
      <3>3. ASSUME NEW waiter \in Requests,
                   semaphore' = semaphore, pc' = [pc EXCEPT ![waiter] = "entered"]
            PROVE  TypeOK'
        BY <2>5, <3>3 DEF KeepEntry
      <3> QED
        BY <3>1, <3>2, <3>3 DEF Release
    <2>6. CASE DisposeSemaphore(a)
      BY <2>6 DEF DisposeSemaphore
    <2> QED
      BY <1>3, <2>1, <2>2, <2>3, <2>4, <2>5, <2>6 DEF CleanerStep
  <1> QED
    BY <1>1, <1>2, <1>3 DEF Next

\* A request keeps its entry until it disposes of the lock.
LEMMA HasEntryStep == IInv /\ [Next]_vars => HasEntry'
  <1> SUFFICES ASSUME IInv, [Next]_vars PROVE HasEntry'
    OBVIOUS
  <1> USE AtAssumption, EntriesAssumption
      DEF IInv, TypeOK, GoTo, Clean, locks, requests, cleaners, Inside, CleanerInside, InRegister,
          HasEntry, Current
  <1>1. CASE UNCHANGED vars
    BY <1>1 DEF vars
  <1>2. ASSUME NEW r \in Requests, RequestStep(r) PROVE HasEntry'
    <2>1. CASE GetEntry(r)
      BY <2>1 DEF GetEntry
    <2>2. CASE AddEntry(r)
      BY <2>2 DEF AddEntry, Fresh
    <2>3. CASE UpdateLastAccessTime(r)
      BY <2>3 DEF UpdateLastAccessTime
    <2>4. CASE Enter(r)
      BY <2>4 DEF Enter
    <2>5. CASE Wait(r)
      BY <2>5 DEF Wait
    <2>6. CASE EnterDisposed(r)
      BY <2>6 DEF EnterDisposed
    <2>7. CASE IncrementActiveCount(r)
      BY <2>7 DEF IncrementActiveCount
    <2>8. CASE ReadRegistrations(r)
      BY <2>8 DEF ReadRegistrations, MayRead
    <2>9. CASE Register(r)
      BY <2>9 DEF Register
    <2>10. ASSUME NEW place \in {"released", "failed"}, InRegister(r), Dispose(r, place)
          PROVE  HasEntry'
      <3> DEFINE gone == [pc EXCEPT ![r] = place]
      <3>1. entry[r] \in Entries /\ Release(entry[r], gone)
        BY <2>10 DEF Dispose
      <3>2. CASE /\ semaphore' = [semaphore EXCEPT ![entry[r]] = "free"]
                 /\ pc' = gone
                 /\ \A q \in Requests : ~(gone[q] = "waiting" /\ entry[q] = entry[r])
        BY <2>10, <3>1, <3>2 DEF Dispose, Decremented
      <3>3. ASSUME NEW waiter \in Requests, gone[waiter] = "waiting", entry[waiter] = entry[r],
                   semaphore' = semaphore, pc' = [gone EXCEPT ![waiter] = "entered"]
            PROVE  HasEntry'
        BY <2>10, <3>1, <3>3 DEF Dispose, Decremented
      <3> QED
        BY <3>1, <3>2, <3>3 DEF Release
    <2>11. CASE Commit(r) \/ Rollback(r)
      BY <2>11 DEF Commit, Rollback
    <2> QED
      BY <1>2, <2>1, <2>2, <2>3, <2>4, <2>5, <2>6, <2>7, <2>8, <2>9, <2>10, <2>11
      DEF RequestStep, Return, Throw
  <1>3. ASSUME NEW a \in Apis, CleanerStep(a) PROVE HasEntry'
    <2>1. CASE Expire(a)
      BY <2>1 DEF Expire
    <2>2. CASE Snapshot(a)
      BY <2>2 DEF Snapshot
    <2>3. CASE TryWait(a)
      BY <2>3 DEF TryWait, Taken
    <2>4. CASE TryWaitFails(a)
      BY <2>4 DEF TryWaitFails
    <2>5. CASE Revalidate(a)
      BY <2>5 DEF Revalidate, Removable
    <2>6. CASE KeepEntry(a)
      <3>1. candidate[a] \in Entries /\ Release(candidate[a], pc)
        BY <2>6 DEF KeepEntry, ReleasedBy, Current
      <3>2. CASE /\ semaphore' = [semaphore EXCEPT ![candidate[a]] = "free"]
                 /\ pc' = pc
                 /\ \A q \in Requests : ~(pc[q] = "waiting" /\ entry[q] = candidate[a])
        BY <2>6, <3>1, <3>2 DEF KeepEntry
      <3>3. ASSUME NEW waiter \in Requests, pc[waiter] = "waiting", entry[waiter] = candidate[a],
                   semaphore' = semaphore, pc' = [pc EXCEPT ![waiter] = "entered"]
            PROVE  HasEntry'
        BY <2>6, <3>1, <3>3 DEF KeepEntry
      <3> QED
        BY <3>1, <3>2, <3>3, ReleaseCases
    <2>7. CASE TryRemove(a)
      BY <2>7 DEF TryRemove
    <2>8. CASE DisposeSemaphore(a)
      BY <2>8 DEF DisposeSemaphore
    <2> QED
      BY <1>3, <2>1, <2>2, <2>3, <2>4, <2>5, <2>6, <2>7, <2>8 DEF CleanerStep
  <1> QED
    BY <1>1, <1>2, <1>3 DEF Next

\* Nobody comes to refer to an entry of another process.
LEMMA HomesStep == IInv /\ [Next]_vars => Homes'
  <1> SUFFICES ASSUME IInv, [Next]_vars PROVE Homes'
    OBVIOUS
  <1> USE AtAssumption, EntriesAssumption
      DEF IInv, TypeOK, GoTo, Clean, locks, requests, cleaners, Inside, CleanerInside, InRegister,
          HasEntry, Homes, Current
  <1>1. CASE UNCHANGED vars
    BY <1>1 DEF vars
  <1>2. ASSUME NEW r \in Requests, RequestStep(r) PROVE Homes'
    <2>1. CASE GetEntry(r)
      BY <2>1 DEF GetEntry
    <2>2. CASE AddEntry(r)
      BY <2>2 DEF AddEntry, Fresh
    <2>3. CASE UpdateLastAccessTime(r)
      BY <2>3 DEF UpdateLastAccessTime
    <2>4. CASE Enter(r)
      BY <2>4 DEF Enter
    <2>5. CASE Wait(r)
      BY <2>5 DEF Wait
    <2>6. CASE EnterDisposed(r)
      BY <2>6 DEF EnterDisposed
    <2>7. CASE IncrementActiveCount(r)
      BY <2>7 DEF IncrementActiveCount
    <2>8. CASE ReadRegistrations(r)
      BY <2>8 DEF ReadRegistrations, MayRead
    <2>9. CASE Register(r)
      BY <2>9 DEF Register
    <2>10. ASSUME NEW place \in {"released", "failed"}, InRegister(r), Dispose(r, place)
          PROVE  Homes'
      <3> DEFINE gone == [pc EXCEPT ![r] = place]
      <3>1. entry[r] \in Entries /\ Release(entry[r], gone)
        BY <2>10 DEF Dispose
      <3>2. CASE /\ semaphore' = [semaphore EXCEPT ![entry[r]] = "free"]
                 /\ pc' = gone
                 /\ \A q \in Requests : ~(gone[q] = "waiting" /\ entry[q] = entry[r])
        BY <2>10, <3>1, <3>2 DEF Dispose, Decremented
      <3>3. ASSUME NEW waiter \in Requests, gone[waiter] = "waiting", entry[waiter] = entry[r],
                   semaphore' = semaphore, pc' = [gone EXCEPT ![waiter] = "entered"]
            PROVE  Homes'
        BY <2>10, <3>1, <3>3 DEF Dispose, Decremented
      <3> QED
        BY <3>1, <3>2, <3>3 DEF Release
    <2>11. CASE Commit(r) \/ Rollback(r)
      BY <2>11 DEF Commit, Rollback
    <2> QED
      BY <1>2, <2>1, <2>2, <2>3, <2>4, <2>5, <2>6, <2>7, <2>8, <2>9, <2>10, <2>11
      DEF RequestStep, Return, Throw
  <1>3. ASSUME NEW a \in Apis, CleanerStep(a) PROVE Homes'
    <2>1. CASE Expire(a)
      BY <2>1 DEF Expire
    <2>2. CASE Snapshot(a)
      BY <2>2 DEF Snapshot
    <2>3. CASE TryWait(a)
      BY <2>3 DEF TryWait, Taken
    <2>4. CASE TryWaitFails(a)
      BY <2>4 DEF TryWaitFails
    <2>5. CASE Revalidate(a)
      BY <2>5 DEF Revalidate, Removable
    <2>6. CASE KeepEntry(a)
      <3>1. candidate[a] \in Entries /\ Release(candidate[a], pc)
        BY <2>6 DEF KeepEntry, ReleasedBy, Current
      <3>2. CASE /\ semaphore' = [semaphore EXCEPT ![candidate[a]] = "free"]
                 /\ pc' = pc
                 /\ \A q \in Requests : ~(pc[q] = "waiting" /\ entry[q] = candidate[a])
        BY <2>6, <3>1, <3>2 DEF KeepEntry
      <3>3. ASSUME NEW waiter \in Requests, pc[waiter] = "waiting", entry[waiter] = candidate[a],
                   semaphore' = semaphore, pc' = [pc EXCEPT ![waiter] = "entered"]
            PROVE  Homes'
        BY <2>6, <3>1, <3>3 DEF KeepEntry
      <3> QED
        BY <3>1, <3>2, <3>3, ReleaseCases
    <2>7. CASE TryRemove(a)
      BY <2>7 DEF TryRemove
    <2>8. CASE DisposeSemaphore(a)
      BY <2>8 DEF DisposeSemaphore
    <2> QED
      BY <1>3, <2>1, <2>2, <2>3, <2>4, <2>5, <2>6, <2>7, <2>8 DEF CleanerStep
  <1> QED
    BY <1>1, <1>2, <1>3 DEF Next

\* A semaphore is taken by one, and handed on to one.
LEMMA ExclusionStep == IInv /\ [Next]_vars => Exclusion'
  <1> SUFFICES ASSUME IInv, [Next]_vars PROVE Exclusion'
    OBVIOUS
  <1> USE AtAssumption, EntriesAssumption
      DEF IInv, TypeOK, GoTo, Clean, locks, requests, cleaners, Inside, CleanerInside, InRegister,
          HasEntry, Homes, Exclusion, Current
  <1>1. CASE UNCHANGED vars
    BY <1>1 DEF vars
  <1>2. ASSUME NEW r \in Requests, RequestStep(r) PROVE Exclusion'
    <2>1. CASE GetEntry(r)
      BY <2>1 DEF GetEntry
    <2>2. CASE AddEntry(r)
      BY <2>2 DEF AddEntry, Fresh
    <2>3. CASE UpdateLastAccessTime(r)
      BY <2>3 DEF UpdateLastAccessTime
    <2>4. CASE Enter(r)
      BY <2>4 DEF Enter
    <2>5. CASE Wait(r)
      BY <2>5 DEF Wait
    <2>6. CASE EnterDisposed(r)
      BY <2>6 DEF EnterDisposed
    <2>7. CASE IncrementActiveCount(r)
      BY <2>7 DEF IncrementActiveCount
    <2>8. CASE ReadRegistrations(r)
      BY <2>8 DEF ReadRegistrations, MayRead
    <2>9. CASE Register(r)
      BY <2>9 DEF Register
    <2>10. ASSUME NEW place \in {"released", "failed"}, InRegister(r), Dispose(r, place)
          PROVE  Exclusion'
      <3> DEFINE gone == [pc EXCEPT ![r] = place]
      <3>1. entry[r] \in Entries /\ Release(entry[r], gone)
        BY <2>10 DEF Dispose
      <3>2. CASE /\ semaphore' = [semaphore EXCEPT ![entry[r]] = "free"]
                 /\ pc' = gone
                 /\ \A q \in Requests : ~(gone[q] = "waiting" /\ entry[q] = entry[r])
        BY <2>10, <3>1, <3>2 DEF Dispose, Decremented
      <3>3. ASSUME NEW waiter \in Requests, gone[waiter] = "waiting", entry[waiter] = entry[r],
                   semaphore' = semaphore, pc' = [gone EXCEPT ![waiter] = "entered"]
            PROVE  Exclusion'
        BY <2>10, <3>1, <3>3 DEF Dispose, Decremented
      <3> QED
        BY <3>1, <3>2, <3>3 DEF Release
    <2>11. CASE Commit(r) \/ Rollback(r)
      <3>1. /\ \A q \in Requests : Inside(q)' <=> Inside(q)
            /\ UNCHANGED <<semaphore, entry, cleaner, candidate>>
        BY <2>11 DEF Commit, Rollback
      <3> QED
        BY <3>1
    <2> QED
      BY <1>2, <2>1, <2>2, <2>3, <2>4, <2>5, <2>6, <2>7, <2>8, <2>9, <2>10, <2>11
      DEF RequestStep, Return, Throw
  <1>3. ASSUME NEW a \in Apis, CleanerStep(a) PROVE Exclusion'
    <2>1. CASE Expire(a)
      BY <2>1 DEF Expire
    <2>2. CASE Snapshot(a)
      BY <2>2 DEF Snapshot
    <2>3. CASE TryWait(a)
      BY <2>3 DEF TryWait, Taken
    <2>4. CASE TryWaitFails(a)
      BY <2>4 DEF TryWaitFails
    <2>5. CASE Revalidate(a)
      BY <2>5 DEF Revalidate, Removable
    <2>6. CASE KeepEntry(a)
      <3>1. candidate[a] \in Entries /\ Release(candidate[a], pc)
        BY <2>6 DEF KeepEntry, ReleasedBy, Current
      <3>2. CASE /\ semaphore' = [semaphore EXCEPT ![candidate[a]] = "free"]
                 /\ pc' = pc
                 /\ \A q \in Requests : ~(pc[q] = "waiting" /\ entry[q] = candidate[a])
        BY <2>6, <3>1, <3>2 DEF KeepEntry
      <3>3. ASSUME NEW waiter \in Requests, pc[waiter] = "waiting", entry[waiter] = candidate[a],
                   semaphore' = semaphore, pc' = [pc EXCEPT ![waiter] = "entered"]
            PROVE  Exclusion'
        BY <2>6, <3>1, <3>3 DEF KeepEntry
      <3> QED
        BY <3>1, <3>2, <3>3, ReleaseCases
    <2>7. CASE TryRemove(a)
      BY <2>7 DEF TryRemove
    <2>8. CASE DisposeSemaphore(a)
      BY <2>8 DEF DisposeSemaphore
    <2> QED
      BY <1>3, <2>1, <2>2, <2>3, <2>4, <2>5, <2>6, <2>7, <2>8 DEF CleanerStep
  <1> QED
    BY <1>1, <1>2, <1>3 DEF Next

\* An entry leaves the dictionary when its semaphore is taken by the worker.
LEMMA CurrentStep == IInv /\ [Next]_vars => Current'
  <1> SUFFICES ASSUME IInv, [Next]_vars PROVE Current'
    OBVIOUS
  <1> USE AtAssumption, EntriesAssumption
      DEF IInv, TypeOK, GoTo, Clean, locks, requests, cleaners, Inside, CleanerInside, InRegister,
          HasEntry, Homes, Exclusion, Current
  <1>1. CASE UNCHANGED vars
    BY <1>1 DEF vars
  <1>2. ASSUME NEW r \in Requests, RequestStep(r) PROVE Current'
    <2>1. CASE GetEntry(r)
      BY <2>1 DEF GetEntry
    <2>2. CASE AddEntry(r)
      <3>1. PICK e \in Entries :
               /\ Fresh(e)
               /\ lockOf' = [lockOf EXCEPT ![At[r]] = e]
               /\ semaphore' = [semaphore EXCEPT ![e] = "free"]
               /\ entry' = [entry EXCEPT ![r] = e]
        BY <2>2 DEF AddEntry
      <3>2. pc' = [pc EXCEPT ![r] = "got"] /\ cleaner' = cleaner /\ candidate' = candidate
        BY <2>2 DEF AddEntry
      <3>3. \A q \in Requests : Inside(q)' => lockOf'[At[q]] = entry'[q]
        BY <2>2, <3>1, <3>2 DEF AddEntry, Fresh
      <3>4. \A q \in Requests :
               (entry'[q] \in Entries /\ semaphore'[entry'[q]] = "free")
                   => lockOf'[At[q]] = entry'[q]
        BY <2>2, <3>1, <3>2 DEF AddEntry, Fresh
      <3>5. \A a \in Apis :
               /\ cleaner'[a] \in {"try", "check", "remove"} =>
                     (candidate'[a] \in Entries /\ lockOf'[a] = candidate'[a])
               /\ cleaner'[a] = "dispose" => candidate'[a] \in Entries
        BY <2>2, <3>1, <3>2 DEF AddEntry, Fresh
      <3> QED
        BY <3>3, <3>4, <3>5
    <2>3. CASE UpdateLastAccessTime(r)
      BY <2>3 DEF UpdateLastAccessTime
    <2>4. CASE Enter(r)
      BY <2>4 DEF Enter
    <2>5. CASE Wait(r)
      BY <2>5 DEF Wait
    <2>6. CASE EnterDisposed(r)
      BY <2>6 DEF EnterDisposed
    <2>7. CASE IncrementActiveCount(r)
      BY <2>7 DEF IncrementActiveCount
    <2>8. CASE ReadRegistrations(r)
      BY <2>8 DEF ReadRegistrations, MayRead
    <2>9. CASE Register(r)
      BY <2>9 DEF Register
    <2>10. ASSUME NEW place \in {"released", "failed"}, InRegister(r), Dispose(r, place)
          PROVE  Current'
      <3> DEFINE gone == [pc EXCEPT ![r] = place]
      <3>1. entry[r] \in Entries /\ Release(entry[r], gone)
        BY <2>10 DEF Dispose
      <3>2. CASE /\ semaphore' = [semaphore EXCEPT ![entry[r]] = "free"]
                 /\ pc' = gone
                 /\ \A q \in Requests : ~(gone[q] = "waiting" /\ entry[q] = entry[r])
        BY <2>10, <3>1, <3>2 DEF Dispose, Decremented
      <3>3. ASSUME NEW waiter \in Requests, gone[waiter] = "waiting", entry[waiter] = entry[r],
                   semaphore' = semaphore, pc' = [gone EXCEPT ![waiter] = "entered"]
            PROVE  Current'
        BY <2>10, <3>1, <3>3 DEF Dispose, Decremented
      <3> QED
        BY <3>1, <3>2, <3>3 DEF Release
    <2>11. CASE Commit(r) \/ Rollback(r)
      BY <2>11 DEF Commit, Rollback
    <2> QED
      BY <1>2, <2>1, <2>2, <2>3, <2>4, <2>5, <2>6, <2>7, <2>8, <2>9, <2>10, <2>11
      DEF RequestStep, Return, Throw
  <1>3. ASSUME NEW a \in Apis, CleanerStep(a) PROVE Current'
    <2>1. CASE Expire(a)
      BY <2>1 DEF Expire
    <2>2. CASE Snapshot(a)
      BY <2>2 DEF Snapshot
    <2>3. CASE TryWait(a)
      BY <2>3 DEF TryWait, Taken
    <2>4. CASE TryWaitFails(a)
      BY <2>4 DEF TryWaitFails
    <2>5. CASE Revalidate(a)
      BY <2>5 DEF Revalidate, Removable
    <2>6. CASE KeepEntry(a)
      <3>1. candidate[a] \in Entries /\ Release(candidate[a], pc)
        BY <2>6 DEF KeepEntry, ReleasedBy, Current
      <3>2. CASE /\ semaphore' = [semaphore EXCEPT ![candidate[a]] = "free"]
                 /\ pc' = pc
                 /\ \A q \in Requests : ~(pc[q] = "waiting" /\ entry[q] = candidate[a])
        BY <2>6, <3>1, <3>2 DEF KeepEntry
      <3>3. ASSUME NEW waiter \in Requests, pc[waiter] = "waiting", entry[waiter] = candidate[a],
                   semaphore' = semaphore, pc' = [pc EXCEPT ![waiter] = "entered"]
            PROVE  Current'
        BY <2>6, <3>1, <3>3 DEF KeepEntry
      <3> QED
        BY <3>1, <3>2, <3>3, ReleaseCases
    <2>7. CASE TryRemove(a)
      BY <2>7 DEF TryRemove
    <2>8. CASE DisposeSemaphore(a)
      BY <2>8 DEF DisposeSemaphore
    <2> QED
      BY <1>3, <2>1, <2>2, <2>3, <2>4, <2>5, <2>6, <2>7, <2>8 DEF CleanerStep
  <1> QED
    BY <1>1, <1>2, <1>3 DEF Next

\* A semaphore is freed when nobody waits for it.
LEMMA HeldStep == IInv /\ [Next]_vars => Held'
  <1> SUFFICES ASSUME IInv, [Next]_vars PROVE Held'
    OBVIOUS
  <1> USE AtAssumption, EntriesAssumption
      DEF IInv, TypeOK, GoTo, Clean, locks, requests, cleaners, Inside, CleanerInside, InRegister,
          HasEntry, Exclusion, Current, Held
  <1>1. CASE UNCHANGED vars
    BY <1>1 DEF vars
  <1>2. ASSUME NEW r \in Requests, RequestStep(r) PROVE Held'
    <2>1. CASE GetEntry(r)
      BY <2>1 DEF GetEntry
    <2>2. CASE AddEntry(r)
      BY <2>2 DEF AddEntry, Fresh
    <2>3. CASE UpdateLastAccessTime(r)
      BY <2>3 DEF UpdateLastAccessTime
    <2>4. CASE Enter(r)
      BY <2>4 DEF Enter
    <2>5. CASE Wait(r)
      BY <2>5 DEF Wait
    <2>6. CASE EnterDisposed(r)
      BY <2>6 DEF EnterDisposed
    <2>7. CASE IncrementActiveCount(r)
      BY <2>7 DEF IncrementActiveCount
    <2>8. CASE ReadRegistrations(r)
      BY <2>8 DEF ReadRegistrations, MayRead
    <2>9. CASE Register(r)
      BY <2>9 DEF Register
    <2>10. ASSUME NEW place \in {"released", "failed"}, InRegister(r), Dispose(r, place)
          PROVE  Held'
      <3> DEFINE gone == [pc EXCEPT ![r] = place]
      <3>1. entry[r] \in Entries /\ Release(entry[r], gone)
        BY <2>10 DEF Dispose
      <3>2. CASE /\ semaphore' = [semaphore EXCEPT ![entry[r]] = "free"]
                 /\ pc' = gone
                 /\ \A q \in Requests : ~(gone[q] = "waiting" /\ entry[q] = entry[r])
        <4>1. entry' = [entry EXCEPT ![r] = None] /\ cleaner' = cleaner /\ candidate' = candidate
          BY <2>10 DEF Dispose
        <4>2. ASSUME NEW e \in Entries, semaphore'[e] = "taken"
              PROVE  \/ \E q \in Requests : Inside(q)' /\ entry'[q] = e
                     \/ \E b \in Apis : CleanerInside(b)' /\ candidate'[b] = e
          BY <3>1, <3>2, <4>1, <4>2
        <4>3. ASSUME NEW q \in Requests, pc'[q] = "waiting"
              PROVE  semaphore'[entry'[q]] \in {"taken", "disposed"}
          BY <3>1, <3>2, <4>1, <4>3
        <4> QED
          BY <4>2, <4>3
      <3>3. ASSUME NEW waiter \in Requests, gone[waiter] = "waiting", entry[waiter] = entry[r],
                   semaphore' = semaphore, pc' = [gone EXCEPT ![waiter] = "entered"]
            PROVE  Held'
        <4>1. /\ entry' = [entry EXCEPT ![r] = None] /\ cleaner' = cleaner /\ candidate' = candidate
              /\ waiter # r
          BY <2>10, <3>3 DEF Dispose
        <4>2. ASSUME NEW e \in Entries, semaphore'[e] = "taken"
              PROVE  \/ \E q \in Requests : Inside(q)' /\ entry'[q] = e
                     \/ \E b \in Apis : CleanerInside(b)' /\ candidate'[b] = e
          <5>1. CASE e = entry[r]
            BY <3>3, <4>1, <5>1
          <5>2. CASE e # entry[r]
            BY <3>1, <3>3, <4>1, <4>2, <5>2
          <5> QED
            BY <5>1, <5>2
        <4>3. ASSUME NEW q \in Requests, pc'[q] = "waiting"
              PROVE  semaphore'[entry'[q]] \in {"taken", "disposed"}
          BY <2>10, <3>3, <4>1, <4>3
        <4> QED
          BY <4>2, <4>3
      <3> QED
        BY <3>1, <3>2, <3>3 DEF Release
    <2>11. CASE Commit(r) \/ Rollback(r)
      BY <2>11 DEF Commit, Rollback
    <2> QED
      BY <1>2, <2>1, <2>2, <2>3, <2>4, <2>5, <2>6, <2>7, <2>8, <2>9, <2>10, <2>11
      DEF RequestStep, Return, Throw
  <1>3. ASSUME NEW a \in Apis, CleanerStep(a) PROVE Held'
    <2>1. CASE Expire(a)
      BY <2>1 DEF Expire
    <2>2. CASE Snapshot(a)
      BY <2>2 DEF Snapshot
    <2>3. CASE TryWait(a)
      BY <2>3 DEF TryWait, Taken
    <2>4. CASE TryWaitFails(a)
      BY <2>4 DEF TryWaitFails
    <2>5. CASE Revalidate(a)
      BY <2>5 DEF Revalidate, Removable
    <2>6. CASE KeepEntry(a)
      <3>1. candidate[a] \in Entries /\ Release(candidate[a], pc)
        BY <2>6 DEF KeepEntry, ReleasedBy, Current
      <3>2. CASE /\ semaphore' = [semaphore EXCEPT ![candidate[a]] = "free"]
                 /\ pc' = pc
                 /\ \A q \in Requests : ~(pc[q] = "waiting" /\ entry[q] = candidate[a])
        BY <2>6, <3>1, <3>2 DEF KeepEntry
      <3>3. ASSUME NEW waiter \in Requests, pc[waiter] = "waiting", entry[waiter] = candidate[a],
                   semaphore' = semaphore, pc' = [pc EXCEPT ![waiter] = "entered"]
            PROVE  Held'
        BY <2>6, <3>1, <3>3 DEF KeepEntry
      <3> QED
        BY <3>1, <3>2, <3>3, ReleaseCases
    <2>7. CASE TryRemove(a)
      BY <2>7 DEF TryRemove
    <2>8. CASE DisposeSemaphore(a)
      BY <2>8 DEF DisposeSemaphore
    <2> QED
      BY <1>3, <2>1, <2>2, <2>3, <2>4, <2>5, <2>6, <2>7, <2>8 DEF CleanerStep
  <1> QED
    BY <1>1, <1>2, <1>3 DEF Next

\* The count of an entry goes up and down with the one request that is inside.
LEMMA CountedStep == IInv /\ [Next]_vars => Counted'
  <1> SUFFICES ASSUME IInv, [Next]_vars PROVE Counted'
    OBVIOUS
  <1> USE AtAssumption, EntriesAssumption
      DEF IInv, TypeOK, GoTo, Clean, locks, requests, cleaners, Inside, CleanerInside, InRegister,
          HasEntry, Exclusion, Current, Counted
  <1>1. CASE UNCHANGED vars
    BY <1>1 DEF vars
  <1>2. ASSUME NEW r \in Requests, RequestStep(r) PROVE Counted'
    <2>1. CASE GetEntry(r)
      BY <2>1 DEF GetEntry
    <2>2. CASE AddEntry(r)
      BY <2>2 DEF AddEntry, Fresh
    <2>3. CASE UpdateLastAccessTime(r)
      BY <2>3 DEF UpdateLastAccessTime
    <2>4. CASE Enter(r)
      BY <2>4 DEF Enter
    <2>5. CASE Wait(r)
      BY <2>5 DEF Wait
    <2>6. CASE EnterDisposed(r)
      BY <2>6 DEF EnterDisposed
    <2>7. CASE IncrementActiveCount(r)
      BY <2>7 DEF IncrementActiveCount
    <2>8. CASE ReadRegistrations(r)
      BY <2>8 DEF ReadRegistrations, MayRead
    <2>9. CASE Register(r)
      BY <2>9 DEF Register
    <2>10. ASSUME NEW place \in {"released", "failed"}, InRegister(r), Dispose(r, place)
          PROVE  Counted'
      <3> DEFINE gone == [pc EXCEPT ![r] = place]
      <3>1. entry[r] \in Entries /\ Release(entry[r], gone)
        BY <2>10 DEF Dispose
      <3>2. CASE /\ semaphore' = [semaphore EXCEPT ![entry[r]] = "free"]
                 /\ pc' = gone
                 /\ \A q \in Requests : ~(gone[q] = "waiting" /\ entry[q] = entry[r])
        BY <2>10, <3>1, <3>2 DEF Dispose, Decremented
      <3>3. ASSUME NEW waiter \in Requests, gone[waiter] = "waiting", entry[waiter] = entry[r],
                   semaphore' = semaphore, pc' = [gone EXCEPT ![waiter] = "entered"]
            PROVE  Counted'
        BY <2>10, <3>1, <3>3 DEF Dispose, Decremented
      <3> QED
        BY <3>1, <3>2, <3>3 DEF Release
    <2>11. CASE Commit(r) \/ Rollback(r)
      BY <2>11 DEF Commit, Rollback
    <2> QED
      BY <1>2, <2>1, <2>2, <2>3, <2>4, <2>5, <2>6, <2>7, <2>8, <2>9, <2>10, <2>11
      DEF RequestStep, Return, Throw
  <1>3. ASSUME NEW a \in Apis, CleanerStep(a) PROVE Counted'
    <2>1. CASE Expire(a)
      BY <2>1 DEF Expire
    <2>2. CASE Snapshot(a)
      BY <2>2 DEF Snapshot
    <2>3. CASE TryWait(a)
      BY <2>3 DEF TryWait, Taken
    <2>4. CASE TryWaitFails(a)
      BY <2>4 DEF TryWaitFails
    <2>5. CASE Revalidate(a)
      BY <2>5 DEF Revalidate, Removable
    <2>6. CASE KeepEntry(a)
      <3>1. candidate[a] \in Entries /\ Release(candidate[a], pc)
        BY <2>6 DEF KeepEntry, ReleasedBy, Current
      <3>2. CASE /\ semaphore' = [semaphore EXCEPT ![candidate[a]] = "free"]
                 /\ pc' = pc
                 /\ \A q \in Requests : ~(pc[q] = "waiting" /\ entry[q] = candidate[a])
        BY <2>6, <3>1, <3>2 DEF KeepEntry
      <3>3. ASSUME NEW waiter \in Requests, pc[waiter] = "waiting", entry[waiter] = candidate[a],
                   semaphore' = semaphore, pc' = [pc EXCEPT ![waiter] = "entered"]
            PROVE  Counted'
        BY <2>6, <3>1, <3>3 DEF KeepEntry
      <3> QED
        BY <3>1, <3>2, <3>3, ReleaseCases
    <2>7. CASE TryRemove(a)
      BY <2>7 DEF TryRemove
    <2>8. CASE DisposeSemaphore(a)
      BY <2>8 DEF DisposeSemaphore
    <2> QED
      BY <1>3, <2>1, <2>2, <2>3, <2>4, <2>5, <2>6, <2>7, <2>8 DEF CleanerStep
  <1> QED
    BY <1>1, <1>2, <1>3 DEF Next

-----------------------------------------------------------------------------
\* The strengthened invariant holds of every reachable state.
THEOREM Invariant == Spec => []IInv
  <1>1. IInv /\ [Next]_vars => IInv'
    BY TypeStep, HasEntryStep, HomesStep, ExclusionStep, CurrentStep, HeldStep, CountedStep
    DEF IInv
  <1> QED
    BY Initially, <1>1, PTL DEF Spec

\* Every variable of the lock and of the requests holds values of its kind; an active
\* count is never above one or below zero.
THEOREM RegistrationTypes == Spec => []TypeOK
  <1>1. IInv => TypeOK
    BY DEF IInv
  <1> QED
    BY Invariant, <1>1, PTL

LEMMA OneInside == IInv => OneRegistrationAtATime
  BY DEF IInv, Current, Exclusion, OneRegistrationAtATime

\* AcquireLockAsync lets one request of a process at a time register the client,
\* whatever CleanupUnusedLocks does meanwhile.
THEOREM OneAtATime == Spec => []OneRegistrationAtATime
  BY Invariant, OneInside, PTL

\* No request waits for a semaphore that nobody holds, but for a disposed one.
THEOREM NoLostWakeup == Spec => []WaitersWaitForSomeone
  <1>1. IInv => WaitersWaitForSomeone
    BY DEF IInv, Held, HasEntry, WaitersWaitForSomeone
  <1> QED
    BY Invariant, <1>1, PTL

-----------------------------------------------------------------------------
(* The rows of the client, when there is one process and reading waits.    *)

OneProcess == \A r, q \in Requests : At[r] = At[q]

\* Between an insertion and its commit there is no row, and no other insertion.
RowInv ==
    /\ OneClientRow
    /\ \A r \in Requests :
          inserted[r] =>
              /\ pc[r] \in {"written", "released", "failed"}
              /\ rows = 0
              /\ \A q \in Requests : inserted[q] => q = r
    /\ \A r \in Requests :
          (pc[r] = "read" /\ ~found[r]) => (rows = 0 /\ \A q \in Requests : ~inserted[q])

LEMMA RowStep ==
  ASSUME OneProcess, ReadsWait, IInv, RowInv, [Next]_vars
  PROVE  RowInv'
  <1>0. OneRegistrationAtATime
    BY OneInside
  <1> USE DEF IInv, TypeOK, GoTo, Clean, locks, requests, cleaners, RowInv, OneClientRow
  <1>1. CASE UNCHANGED vars
    BY <1>1 DEF vars
  <1>2. ASSUME NEW r \in Requests, RequestStep(r) PROVE RowInv'
    <2>1. CASE GetEntry(r) \/ AddEntry(r) \/ UpdateLastAccessTime(r) \/ Enter(r) \/ Wait(r)
      BY <2>1 DEF GetEntry, AddEntry, UpdateLastAccessTime, Enter, Wait
    <2>2. CASE EnterDisposed(r) \/ IncrementActiveCount(r)
      BY <2>2 DEF EnterDisposed, IncrementActiveCount
    <2>3. CASE ReadRegistrations(r)
      <3>1. \A q \in Requests : ~inserted[q]
        BY <2>3 DEF ReadRegistrations
      <3>2. /\ \A q \in Requests : q # r => (pc'[q] = pc[q] /\ found'[q] = found[q])
            /\ pc'[r] = "read"
            /\ UNCHANGED <<inserted, rows>>
        BY <2>3 DEF ReadRegistrations
      <3>3. rows > 0 => found'[r]
        BY <2>3 DEF ReadRegistrations
      <3> QED
        BY <3>1, <3>2, <3>3
    <2>4. CASE Register(r)
      <3>1. \A q \in Requests : pc[q] = "read" => q = r
        BY <2>4, <1>0 DEF Register, OneProcess, OneRegistrationAtATime, Inside
      <3> QED
        BY <2>4, <3>1 DEF Register
    <2>5. ASSUME NEW place \in {"released", "failed"}, InRegister(r), Dispose(r, place)
          PROVE  RowInv'
      <3>1. Release(entry[r], [pc EXCEPT ![r] = place])
        BY <2>5 DEF Dispose
      <3>2. \A q \in Requests :
              /\ pc'[q] = "read" => pc[q] = "read"
              /\ pc[q] \in {"written", "released", "failed"} =>
                   pc'[q] \in {"written", "released", "failed"}
        BY <2>5, <3>1 DEF Release, InRegister
      <3>3. UNCHANGED <<found, inserted, rows>>
        BY <2>5 DEF Dispose
      <3> QED
        BY <3>2, <3>3
    <2>6. CASE Commit(r)
      BY <2>6 DEF Commit
    <2>7. CASE Rollback(r)
      BY <2>7 DEF Rollback
    <2> QED
      BY <1>2, <2>1, <2>2, <2>3, <2>4, <2>5, <2>6, <2>7 DEF RequestStep, Return, Throw, InRegister
  <1>3. ASSUME NEW a \in Apis, CleanerStep(a) PROVE RowInv'
    <2>1. CASE KeepEntry(a)
      <3>1. Release(candidate[a], pc) /\ UNCHANGED <<found, inserted, rows>>
        BY <2>1 DEF KeepEntry, ReleasedBy
      <3>2. \A q \in Requests :
              /\ pc'[q] = "read" => pc[q] = "read"
              /\ pc[q] \in {"written", "released", "failed"} =>
                   pc'[q] \in {"written", "released", "failed"}
        BY <3>1 DEF Release
      <3> QED
        BY <3>1, <3>2
    <2>2. CASE \/ Expire(a) \/ Snapshot(a) \/ TryWait(a) \/ TryWaitFails(a)
               \/ Revalidate(a) \/ TryRemove(a) \/ DisposeSemaphore(a)
      BY <2>2 DEF Expire, Snapshot, TryWait, TryWaitFails, Revalidate, TryRemove, DisposeSemaphore
    <2> QED
      BY <1>3, <2>1, <2>2 DEF CleanerStep
  <1> QED
    BY <1>1, <1>2, <1>3 DEF Next

\* One process over a database whose readers wait registers a client once, although it
\* releases the lock before it commits.
THEOREM RegisteredOnce ==
  ASSUME OneProcess, ReadsWait
  PROVE  Spec => []OneClientRow
  <1>1. Init => RowInv
    BY DEF Init, RowInv, OneClientRow
  <1>2. IInv /\ RowInv /\ [Next]_vars => RowInv'
    BY RowStep
  <1>3. RowInv => OneClientRow
    BY DEF RowInv
  <1> QED
    BY Invariant, <1>1, <1>2, <1>3, PTL DEF Spec

-----------------------------------------------------------------------------
(* The migrations.                                                         *)

\* Between taking the lock and the commit, an instance holds it.
InGate ==
    /\ \A i \in Instances : phase[i] \in {"locked", "insert"} => lock = i
    /\ \A i \in Instances : phase[i] = "insert" => row[next[i]] = "none"

\* An instance with a migration in hand has a migration.
AtMigration ==
    \A i \in Instances :
        phase[i] \in {"locked", "insert", "execute", "applied"} => next[i] \in Migrations

\* The row of a migration stays pending while it is carried out.
RunnersRow ==
    \A i \in Instances : phase[i] \in {"execute", "applied"} => row[next[i]] = "pending"

\* An instance leaves every migration complete behind it, or skipped.
Passed ==
    /\ \A i \in Instances : \A k \in Migrations :
          k < next[i] => (row[k] = "complete" \/ k \in skipped)
    /\ \A i \in Instances : \A k \in executed[i] : row[k] = "complete"
    /\ \A i \in Instances : phase[i] = "services" => next[i] = N + 1

\* After its effects, a migration counts as applied.
Effects ==
    /\ CompleteMeansApplied
    /\ \A i \in Instances : phase[i] = "applied" => applied[next[i]] > 0

MigrationInv ==
    /\ MigrationTypeOK /\ InGate /\ AtMigration /\ RunnersRow /\ OneRunnerPerMigration
    /\ Passed /\ Effects /\ OrderedButForSkips

-----------------------------------------------------------------------------
LEMMA MigrationsInitially == MigrationInit => MigrationInv
  BY NAssumption, BoundsAssumption
  DEF MigrationInit, MigrationInv, MigrationTypeOK,
      InGate, AtMigration, RunnersRow, OneRunnerPerMigration, Executes,
      Passed, Effects, CompleteMeansApplied, OrderedButForSkips, Migrations

\* Every variable keeps values of its kind.
LEMMA MigrationTypeStep == MigrationInv /\ [MigrationNext]_migrationVars => MigrationTypeOK'
  <1> SUFFICES ASSUME MigrationInv, [MigrationNext]_migrationVars PROVE MigrationTypeOK'
    OBVIOUS
  <1> USE InstancesAssumption, NAssumption, BoundsAssumption
      DEF MigrationInv, MigrationTypeOK, MoveTo, Advance, bounds, history
  <1>1. CASE UNCHANGED migrationVars
    BY <1>1 DEF migrationVars
  <1>2. ASSUME NEW i \in Instances, Instance(i) PROVE MigrationTypeOK'
    <2>1. CASE Start(i)
      BY <2>1 DEF Start, ExecutedMigrations, Running, Migrations
    <2>2. CASE NotPending(i)
      BY <2>2 DEF NotPending, Migrations
    <2>3. CASE StartServices(i)
      BY <2>3 DEF StartServices
    <2>4. CASE TakeLock(i)
      BY <2>4 DEF TakeLock
    <2>5. CASE LockContention(i)
      <3>1. next[i] \in Migrations /\ next[i] + 1 \in 1..(N + 1)
        BY <2>5 DEF LockContention, Skip, Comes, Migrations
      <3>2. skipped' \subseteq Migrations
        BY <2>5, <3>1 DEF LockContention, Skip, Comes
      <3>3. next' \in [Instances -> 1..(N + 1)]
        BY <2>5, <3>1 DEF LockContention, Skip, Comes
      <3> QED
        BY <2>5, <3>2, <3>3 DEF LockContention, Skip, Comes
    <2>6. CASE RowFound(i)
      <3>1. next[i] \in Migrations /\ next[i] + 1 \in 1..(N + 1)
        BY <2>6 DEF RowFound, Skip, AtMigration, Migrations
      <3>2. skipped' \subseteq Migrations
        BY <2>6, <3>1 DEF RowFound, Skip, AtMigration
      <3>3. next' \in [Instances -> 1..(N + 1)]
        BY <2>6, <3>1 DEF RowFound, Skip, AtMigration
      <3> QED
        BY <2>6, <3>2, <3>3 DEF RowFound, Skip, AtMigration
    <2>7. CASE RowMissing(i)
      BY <2>7 DEF RowMissing
    <2>8. CASE InsertPendingMigrationRow(i)
      BY <2>8 DEF InsertPendingMigrationRow, AtMigration
    <2>9. CASE Execute(i)
      BY <2>9 DEF Execute, AtMigration
    <2>10. CASE CompleteMigration(i)
      BY <2>10 DEF CompleteMigration, IsApplied, AtMigration, Migrations
    <2>11. ASSUME NEW completed \in BOOLEAN, MigrationFails(i, completed) PROVE MigrationTypeOK'
      BY <2>11 DEF MigrationFails, RowAfterFailure, AtMigration
    <2>12. CASE TryBeginFails(i)
      BY <2>12 DEF TryBeginFails
    <2>13. CASE Crash(i)
      BY <2>13 DEF Crash
    <2> QED
      BY <1>2, <2>1, <2>2, <2>3, <2>4, <2>5, <2>6, <2>7, <2>8, <2>9, <2>10, <2>11, <2>12, <2>13
      DEF Instance
  <1> QED
    BY <1>1, <1>2 DEF MigrationNext

\* One instance at a time takes a migration, and nobody else touches its row.
LEMMA GateStep ==
  MigrationInv /\ [MigrationNext]_migrationVars => (InGate /\ AtMigration /\ RunnersRow /\ OneRunnerPerMigration)'
  <1> DEFINE Goal == InGate /\ AtMigration /\ RunnersRow /\ OneRunnerPerMigration
  <1> SUFFICES ASSUME MigrationInv, [MigrationNext]_migrationVars PROVE Goal'
    OBVIOUS
  <1>t. MigrationTypeOK'
    BY MigrationTypeStep
  <1> USE InstancesAssumption, NAssumption, BoundsAssumption
      DEF MigrationInv, MigrationTypeOK, MoveTo, Advance, bounds, history, InGate, AtMigration,
              RunnersRow, OneRunnerPerMigration, Executes
  <1>1. CASE UNCHANGED migrationVars
    BY <1>1 DEF migrationVars
  <1>2. ASSUME NEW i \in Instances, Instance(i) PROVE Goal'
    <2>1. CASE Start(i)
      BY <2>1 DEF Start, Running
    <2>2. CASE NotPending(i)
      BY <2>2 DEF NotPending
    <2>3. CASE StartServices(i)
      BY <2>3 DEF StartServices
    <2>4. CASE TakeLock(i)
      BY <2>4 DEF TakeLock, Comes, LockIsFree
    <2>5. CASE LockContention(i)
      BY <2>5 DEF LockContention, Skip, Comes
    <2>6. CASE RowFound(i)
      BY <2>6 DEF RowFound, Skip
    <2>7. CASE RowMissing(i)
      BY <2>7 DEF RowMissing, MigrationRowExists
    <2>8. CASE InsertPendingMigrationRow(i)
      BY <2>8 DEF InsertPendingMigrationRow
    <2>9. CASE Execute(i)
      BY <2>9 DEF Execute
    <2>10. CASE CompleteMigration(i)
      BY <2>10 DEF CompleteMigration, IsApplied
    <2>11. ASSUME NEW completed \in BOOLEAN, MigrationFails(i, completed) PROVE Goal'
      BY <2>11 DEF MigrationFails, RowAfterFailure
    <2>12. CASE TryBeginFails(i)
      BY <2>12 DEF TryBeginFails
    <2>13. CASE Crash(i)
      BY <2>13 DEF Crash
    <2> QED
      BY <1>2, <2>1, <2>2, <2>3, <2>4, <2>5, <2>6, <2>7, <2>8, <2>9, <2>10, <2>11, <2>12, <2>13
      DEF Instance
  <1> QED
    BY <1>1, <1>2 DEF MigrationNext

\* A completed row stays, and its migration is not carried out again.
LEMMA CompleteStep ==
  ASSUME MigrationInv, [MigrationNext]_migrationVars
  PROVE  /\ \A m \in Migrations :
              row[m] = "complete" => (row'[m] = "complete" /\ applied'[m] = applied[m])
         /\ skipped \subseteq skipped'
         /\ \A m \in Migrations : applied[m] > 0 => applied'[m] > 0
  <1> DEFINE Goal ==
        /\ \A m \in Migrations :
              row[m] = "complete" => (row'[m] = "complete" /\ applied'[m] = applied[m])
        /\ skipped \subseteq skipped'
        /\ \A m \in Migrations : applied[m] > 0 => applied'[m] > 0
  <1> USE DEF MigrationInv, MigrationTypeOK, bounds, history, AtMigration
  <1>1. CASE UNCHANGED migrationVars
    BY <1>1 DEF migrationVars
  <1>2. ASSUME NEW i \in Instances, Instance(i) PROVE Goal
    <2>1. CASE InsertPendingMigrationRow(i)
      BY <2>1 DEF InsertPendingMigrationRow, InGate
    <2>2. CASE Execute(i)
      BY <2>2 DEF Execute, RunnersRow
    <2>3. CASE CompleteMigration(i)
      BY <2>3 DEF CompleteMigration
    <2>4. ASSUME NEW completed \in BOOLEAN, MigrationFails(i, completed) PROVE Goal
      BY <2>4 DEF MigrationFails, RowAfterFailure
    <2>5. CASE LockContention(i) \/ RowFound(i)
      BY <2>5 DEF LockContention, RowFound, Skip
    <2>6. CASE \/ Start(i) \/ NotPending(i) \/ StartServices(i) \/ TakeLock(i)
               \/ RowMissing(i) \/ TryBeginFails(i) \/ Crash(i)
      BY <2>6 DEF Start, NotPending, StartServices, TakeLock, RowMissing, TryBeginFails, Crash
    <2> QED
      BY <1>2, <2>1, <2>2, <2>3, <2>4, <2>5, <2>6 DEF Instance
  <1> QED
    BY <1>1, <1>2 DEF MigrationNext

\* An instance goes on from a migration when it is complete, or skips it.
LEMMA PassedStep == MigrationInv /\ [MigrationNext]_migrationVars => Passed'
  <1> SUFFICES ASSUME MigrationInv, [MigrationNext]_migrationVars PROVE Passed'
    OBVIOUS
  <1>c. /\ \A m \in Migrations : row[m] = "complete" => row'[m] = "complete"
        /\ skipped \subseteq skipped'
    BY CompleteStep
  <1> USE <1>c, InstancesAssumption, NAssumption, BoundsAssumption
      DEF MigrationInv, MigrationTypeOK, MoveTo, Advance, bounds, history, Passed, Migrations
  <1>a. ASSUME NEW i \in Instances, next[i] \in Migrations, Advance(i),
               executed' = executed, phase' = [phase EXCEPT ![i] = "next"],
               row'[next[i]] = "complete" \/ next[i] \in skipped'
        PROVE  Passed'
    <2>1. ASSUME NEW j \in Instances, NEW k \in Migrations, k < next'[j]
          PROVE  row'[k] = "complete" \/ k \in skipped'
      <3>1. k < next[j] \/ (j = i /\ k = next[i])
        BY <1>a, <2>1
      <3> QED
        BY <1>a, <3>1
    <2>2. \A j \in Instances : \A k \in executed'[j] : row'[k] = "complete"
      BY <1>a
    <2>3. \A j \in Instances : phase'[j] = "services" => next'[j] = N + 1
      BY <1>a
    <2> QED
      BY <2>1, <2>2, <2>3
  <1>s. ASSUME NEW i \in Instances, next[i] \in Migrations, Skip(i) PROVE Passed'
    <2>1. row'[next[i]] = "complete" \/ next[i] \in skipped'
      BY <1>s DEF Skip
    <2> QED
      BY <1>a, <1>s, <2>1 DEF Skip
  <1>1. CASE UNCHANGED migrationVars
    BY <1>1 DEF migrationVars
  <1>2. ASSUME NEW i \in Instances, Instance(i) PROVE Passed'
    <2>1. CASE Start(i)
      BY <2>1 DEF Start, ExecutedMigrations
    <2>2. CASE NotPending(i)
      <3>1. /\ next[i] \in Migrations /\ row'[next[i]] = "complete"
            /\ executed' = executed /\ phase' = [phase EXCEPT ![i] = "next"]
        BY <2>2 DEF NotPending
      <3> QED
        BY <1>a, <2>2, <3>1 DEF NotPending
    <2>3. CASE StartServices(i)
      BY <2>3 DEF StartServices, AllDone
    <2>4. CASE LockContention(i)
      <3>1. next[i] \in Migrations /\ Skip(i)
        BY <2>4 DEF LockContention, Comes
      <3> QED
        BY <1>s, <3>1
    <2>5. CASE RowFound(i)
      <3>1. next[i] \in Migrations /\ Skip(i)
        BY <2>5 DEF RowFound, AtMigration
      <3> QED
        BY <1>s, <3>1
    <2>6. CASE CompleteMigration(i)
      BY <2>6 DEF CompleteMigration, IsApplied, AtMigration, RunnersRow
    <2>7. CASE TakeLock(i) \/ RowMissing(i) \/ InsertPendingMigrationRow(i) \/ Execute(i)
      BY <2>7 DEF TakeLock, RowMissing, InsertPendingMigrationRow, Execute
    <2>8. ASSUME NEW completed \in BOOLEAN, MigrationFails(i, completed) PROVE Passed'
      BY <2>8 DEF MigrationFails
    <2>9. CASE TryBeginFails(i) \/ Crash(i)
      BY <2>9 DEF TryBeginFails, Crash
    <2> QED
      BY <1>2, <2>1, <2>2, <2>3, <2>4, <2>5, <2>6, <2>7, <2>8, <2>9 DEF Instance
  <1> QED
    BY <1>1, <1>2 DEF MigrationNext

\* A row is completed by the instance that has carried its migration out.
LEMMA EffectsStep == MigrationInv /\ [MigrationNext]_migrationVars => Effects'
  <1> SUFFICES ASSUME MigrationInv, [MigrationNext]_migrationVars PROVE Effects'
    OBVIOUS
  <1>c. \A m \in Migrations : applied[m] > 0 => applied'[m] > 0
    BY CompleteStep
  <1> USE <1>c DEF MigrationInv, MigrationTypeOK, MoveTo, Advance, bounds, history, Effects,
                   CompleteMeansApplied, AtMigration
  <1>1. CASE UNCHANGED migrationVars
    BY <1>1 DEF migrationVars
  <1>2. ASSUME NEW i \in Instances, Instance(i) PROVE Effects'
    <2>1. CASE InsertPendingMigrationRow(i)
      BY <2>1 DEF InsertPendingMigrationRow
    <2>2. CASE Execute(i)
      BY <2>2 DEF Execute
    <2>3. CASE CompleteMigration(i)
      BY <2>3 DEF CompleteMigration, IsApplied
    <2>4. ASSUME NEW completed \in BOOLEAN, MigrationFails(i, completed) PROVE Effects'
      BY <2>4 DEF MigrationFails, RowAfterFailure
    <2>5. CASE LockContention(i) \/ RowFound(i)
      BY <2>5 DEF LockContention, RowFound, Skip
    <2>6. CASE \/ Start(i) \/ NotPending(i) \/ StartServices(i) \/ TakeLock(i)
               \/ RowMissing(i) \/ TryBeginFails(i) \/ Crash(i)
      BY <2>6 DEF Start, NotPending, StartServices, TakeLock, RowMissing, TryBeginFails, Crash
    <2> QED
      BY <1>2, <2>1, <2>2, <2>3, <2>4, <2>5, <2>6 DEF Instance
  <1> QED
    BY <1>1, <1>2 DEF MigrationNext

\* A row is inserted by an instance that has passed the migrations before it.
LEMMA OrderedStep == MigrationInv /\ [MigrationNext]_migrationVars => OrderedButForSkips'
  <1> SUFFICES ASSUME MigrationInv, [MigrationNext]_migrationVars PROVE OrderedButForSkips'
    OBVIOUS
  <1>c. /\ \A m \in Migrations : row[m] = "complete" => row'[m] = "complete"
        /\ skipped \subseteq skipped'
    BY CompleteStep
  <1> USE <1>c DEF MigrationInv, MigrationTypeOK, bounds, history, OrderedButForSkips, AtMigration
  <1>1. CASE UNCHANGED migrationVars
    BY <1>1 DEF migrationVars
  <1>2. ASSUME NEW i \in Instances, Instance(i) PROVE OrderedButForSkips'
    <2>1. CASE InsertPendingMigrationRow(i)
      BY <2>1 DEF InsertPendingMigrationRow, Passed
    <2>2. CASE CompleteMigration(i)
      BY <2>2 DEF CompleteMigration, IsApplied
    <2>3. ASSUME NEW completed \in BOOLEAN, MigrationFails(i, completed)
          PROVE  OrderedButForSkips'
      BY <2>3 DEF MigrationFails, RowAfterFailure
    <2>4. CASE LockContention(i) \/ RowFound(i)
      BY <2>4 DEF LockContention, RowFound, Skip
    <2>5. CASE \/ Start(i) \/ NotPending(i) \/ StartServices(i) \/ TakeLock(i)
               \/ RowMissing(i) \/ Execute(i) \/ TryBeginFails(i) \/ Crash(i)
      BY <2>5 DEF Start, NotPending, StartServices, TakeLock, RowMissing, Execute,
                  TryBeginFails, Crash
    <2> QED
      BY <1>2, <2>1, <2>2, <2>3, <2>4, <2>5 DEF Instance
  <1> QED
    BY <1>1, <1>2 DEF MigrationNext

-----------------------------------------------------------------------------
\* The strengthened invariant holds of every reachable state.
THEOREM MigrationInvariance == MigrationSpec => []MigrationInv
  <1>1. MigrationInv /\ [MigrationNext]_migrationVars => MigrationInv'
    BY MigrationTypeStep, GateStep, PassedStep, EffectsStep, OrderedStep DEF MigrationInv
  <1> QED
    BY MigrationsInitially, <1>1, PTL DEF MigrationSpec

\* Every variable of the migrations holds values of its kind.
THEOREM MigrationTypes == MigrationSpec => []MigrationTypeOK
  <1>1. MigrationInv => MigrationTypeOK
    BY DEF MigrationInv
  <1> QED
    BY MigrationInvariance, <1>1, PTL

\* TryBeginMigration lets one instance at a time carry a migration out.
THEOREM OneRunner == MigrationSpec => []OneRunnerPerMigration
  <1>1. MigrationInv => OneRunnerPerMigration
    BY DEF MigrationInv
  <1> QED
    BY MigrationInvariance, <1>1, PTL

\* CompleteMigration only completes what has been carried out.
THEOREM CompleteWasApplied == MigrationSpec => []CompleteMeansApplied
  <1>1. MigrationInv => CompleteMeansApplied
    BY DEF MigrationInv, Effects
  <1> QED
    BY MigrationInvariance, <1>1, PTL

\* A completed migration is neither undone nor repeated, by a failure of another
\* instance, a restart or a stale reading of the executed migrations.
THEOREM CompletedForGood == MigrationSpec => CompleteIsFinal
  <1>1. MigrationInv /\ [MigrationNext]_migrationVars =>
          [\A m \in Migrations :
              row[m] = "complete" => (row'[m] = "complete" /\ applied'[m] = applied[m])]_migrationVars
    BY CompleteStep
  <1> QED
    BY MigrationInvariance, <1>1, PTL DEF MigrationSpec, CompleteIsFinal

\* The migrations are begun in their order, but for the ones that were passed over.
THEOREM Order == MigrationSpec => []OrderedButForSkips
  <1>1. MigrationInv => OrderedButForSkips
    BY DEF MigrationInv
  <1> QED
    BY MigrationInvariance, <1>1, PTL

\* What the services of an instance may find unfinished has been passed over by one.
THEOREM ServicesOrder == MigrationSpec => []ServicesMissOnlySkips
  <1>1. MigrationInv => ServicesMissOnlySkips
    BY InstancesAssumption, NAssumption, BoundsAssumption
    DEF MigrationInv, MigrationTypeOK, Passed, ServicesMissOnlySkips, Migrations
  <1> QED
    BY MigrationInvariance, <1>1, PTL

-----------------------------------------------------------------------------
(* The migrations implement MigrationTable.                                *)

Runners(m) == {i \in Instances : Executes(i, m)}

\* How the table shows a migration: by the one instance at work, or by its row.
AsShown ==
    \A m \in Migrations :
        /\ \A i \in Instances : Executes(i, m) =>
              /\ Runners(m) = {i}
              /\ Status(m) = IF phase[i] = "applied" THEN "carried out" ELSE "begun"
        /\ (\A i \in Instances : ~Executes(i, m)) =>
              /\ Runners(m) = {}
              /\ Status(m) = IF row[m] = "pending" THEN "begun" ELSE row[m]
        /\ row[m] # "pending" => Runners(m) = {} /\ Status(m) = row[m]

LEMMA Shown == MigrationInv => AsShown
  <1> SUFFICES ASSUME MigrationInv, NEW m \in Migrations
               PROVE  /\ \A i \in Instances : Executes(i, m) =>
                            /\ Runners(m) = {i}
                            /\ Status(m) = IF phase[i] = "applied" THEN "carried out" ELSE "begun"
                      /\ (\A i \in Instances : ~Executes(i, m)) =>
                            /\ Runners(m) = {}
                            /\ Status(m) = IF row[m] = "pending" THEN "begun" ELSE row[m]
                      /\ row[m] # "pending" => Runners(m) = {} /\ Status(m) = row[m]
    BY DEF AsShown
  <1>1. ASSUME NEW i \in Instances, Executes(i, m)
        PROVE  /\ Runners(m) = {i}
               /\ Status(m) = IF phase[i] = "applied" THEN "carried out" ELSE "begun"
    <2>1. Runners(m) = {i}
      BY <1>1 DEF Runners, MigrationInv, OneRunnerPerMigration
    <2>2. row[m] = "pending"
      BY <1>1 DEF Executes, MigrationInv, RunnersRow
    <2>3. \A j \in Instances : phase[j] = "applied" /\ next[j] = m => j = i
      BY <1>1 DEF Executes, MigrationInv, OneRunnerPerMigration
    <2>4. phase[i] = "applied" <=> \E j \in Instances : phase[j] = "applied" /\ next[j] = m
      BY <1>1, <2>3 DEF Executes
    <2> QED
      BY <2>1, <2>2, <2>4 DEF Status
  <1>2. ASSUME \A i \in Instances : ~Executes(i, m)
        PROVE  Runners(m) = {} /\ Status(m) = IF row[m] = "pending" THEN "begun" ELSE row[m]
    BY <1>2 DEF Runners, Status, Executes
  <1>3. row[m] # "pending" => \A i \in Instances : ~Executes(i, m)
    BY DEF Executes, MigrationInv, RunnersRow
  <1> QED
    BY <1>1, <1>2, <1>3

\* A migration that an instance is not at work on, before or after its step, looks the same.
LEMMA LooksTheSame ==
  ASSUME NEW i \in Instances, NEW m \in Migrations, row'[m] = row[m],
         \A j \in Instances \ {i} : phase'[j] = phase[j] /\ next'[j] = next[j],
         ~Executes(i, m), ~Executes(i, m)'
  PROVE  Status(m)' = Status(m) /\ Runners(m)' = Runners(m)
  BY DEF Status, Runners, Executes

\* If all look the same, and nothing more is skipped, the table stutters.
LEMMA NoneTouched ==
  ASSUME \A m \in Migrations : Status(m)' = Status(m) /\ Runners(m)' = Runners(m), skipped' = skipped
  PROVE  UNCHANGED Table!vars
  BY DEF Table!vars, Runners

\* If all but one do, that one has become what it shows.
LEMMA OneTouched ==
  ASSUME NEW m \in Migrations, skipped' = skipped,
         \A k \in Migrations \ {m} : Status(k)' = Status(k) /\ Runners(k)' = Runners(k),
         NEW new, Status(m)' = new, NEW by, Runners(m)' = by
  PROVE  Table!Becomes(m, new, by)
  BY DEF Table!Becomes, Runners

\* An instance with a migration in hand moves it on, or leaves it.
LEMMA AtWork ==
  ASSUME MigrationInv, MigrationInv', NEW i \in Instances, NEW m \in Migrations, Executes(i, m),
         Execute(i) \/ CompleteMigration(i) \/ (\E completed \in BOOLEAN : MigrationFails(i, completed)) \/ Crash(i)
  PROVE  \/ Table!CarryOut(m, i) \/ Table!Complete(m, i) \/ Table!GiveUp(m, i) \/ Table!Abandon(m, i)
  <1>t. MigrationTypeOK /\ next[i] = m /\ row[m] = "pending" /\ phase[i] \in {"execute", "applied"}
    BY DEF MigrationInv, Executes, RunnersRow
  <1>a. AsShown /\ AsShown'
    BY Shown, PTL
  <1>1. Runners(m) = {i} /\ Status(m) = IF phase[i] = "applied" THEN "carried out" ELSE "begun"
    BY <1>a DEF AsShown
  <1>2. /\ skipped' = skipped
        /\ \A k \in Migrations \ {m} : row'[k] = row[k] /\ ~Executes(i, k) /\ ~Executes(i, k)'
        /\ \A j \in Instances \ {i} : phase'[j] = phase[j] /\ next'[j] = next[j]
    BY <1>t DEF MigrationTypeOK, Executes, Execute, CompleteMigration, MigrationFails, Crash,
                MoveTo, Advance, bounds, history
  <1>3. \A k \in Migrations \ {m} : Status(k)' = Status(k) /\ Runners(k)' = Runners(k)
    BY <1>2, LooksTheSame
  <1>4. ASSUME NEW new, NEW by, Status(m)' = new, Runners(m)' = by
        PROVE  Table!Becomes(m, new, by)
    BY <1>2, <1>3, <1>4, OneTouched
  <1> DEFINE T == [k \in Migrations |-> Status(k)]
             R == [k \in Migrations |-> {j \in Instances : Executes(j, k)}]
  <1>5. R[m] = {i} /\ T[m] = IF phase[i] = "applied" THEN "carried out" ELSE "begun"
    BY <1>1 DEF Runners
  <1>6. CASE Execute(i)
    <2>1. phase'[i] = "applied" /\ Executes(i, m)' /\ phase[i] = "execute"
      BY <1>t, <1>6 DEF Execute, MoveTo, Executes, MigrationTypeOK
    <2>2. Status(m)' = "carried out" /\ Runners(m)' = {i}
      BY <1>a, <2>1 DEF AsShown
    <2> QED
      BY <1>4, <1>5, <2>1, <2>2 DEF Table!CarryOut
  <1>7. ASSUME phase[i] = "applied", row'[m] = "complete" PROVE Table!Complete(m, i)
    <2>1. Status(m)' = "complete" /\ Runners(m)' = {}
      BY <1>a, <1>7 DEF AsShown
    <2> QED
      BY <1>4, <1>5, <1>7, <2>1 DEF Table!Complete
  <1>8. CASE CompleteMigration(i)
    <2>1. phase[i] = "applied" /\ row'[m] = "complete"
      BY <1>t, <1>8 DEF CompleteMigration, IsApplied, MigrationTypeOK
    <2> QED
      BY <1>7, <2>1
  <1>9. ASSUME NEW completed \in BOOLEAN, MigrationFails(i, completed)
        PROVE  Table!Complete(m, i) \/ Table!GiveUp(m, i)
    <2>1. CASE completed
      <3>1. phase[i] = "applied" /\ row'[m] = "complete"
        BY <1>t, <1>9, <2>1 DEF MigrationFails, RowAfterFailure, MigrationTypeOK
      <3> QED
        BY <1>7, <3>1
    <2>2. CASE ~completed
      <3>1. row'[m] = "none"
        BY <1>t, <1>9, <2>2 DEF MigrationFails, RowAfterFailure, MigrationTypeOK
      <3>2. Status(m)' = "none" /\ Runners(m)' = {}
        BY <1>a, <3>1 DEF AsShown
      <3> QED
        BY <1>4, <1>5, <3>2 DEF Table!GiveUp
    <2> QED
      BY <2>1, <2>2
  <1>10. CASE Crash(i)
    <2>1. row' = row /\ next' = next /\ phase' = [phase EXCEPT ![i] = "off"]
      BY <1>10 DEF Crash, MoveTo
    <2>2. \A j \in Instances : ~Executes(j, m)'
      BY <1>t, <1>1, <2>1 DEF Executes, Runners, MigrationTypeOK
    <2>3. Status(m)' = "begun" /\ Runners(m)' = {}
      BY <1>a, <1>t, <2>1, <2>2 DEF AsShown
    <2> QED
      BY <1>4, <1>5, <2>3 DEF Table!Abandon
  <1> QED
    BY <1>6, <1>8, <1>9, <1>10

\* The pending row begins a migration.
LEMMA Beginning ==
  ASSUME MigrationInv, MigrationInv', NEW i \in Instances, InsertPendingMigrationRow(i)
  PROVE  \E m \in Migrations : Table!Begin(m, i)
  <1> DEFINE m == next[i]
  <1>a. AsShown /\ AsShown'
    BY Shown, PTL
  <1>t. /\ MigrationTypeOK /\ m \in Migrations /\ row[m] = "none" /\ Passed
        /\ phase[i] = "insert"
    BY DEF MigrationInv, AtMigration, InGate, InsertPendingMigrationRow
  <1>1. /\ skipped' = skipped /\ phase'[i] = "execute" /\ next' = next
        /\ \A k \in Migrations \ {m} : row'[k] = row[k]
        /\ \A j \in Instances \ {i} : phase'[j] = phase[j]
    BY <1>t DEF MigrationTypeOK, InsertPendingMigrationRow, MoveTo, bounds, history
  <1>2. Executes(i, m)' /\ \A k \in Migrations \ {m} : ~Executes(i, k) /\ ~Executes(i, k)'
    BY <1>t, <1>1 DEF Executes
  <1>3. \A k \in Migrations \ {m} : Status(k)' = Status(k) /\ Runners(k)' = Runners(k)
    BY <1>1, <1>2, LooksTheSame
  <1>4. Status(m)' = "begun" /\ Runners(m)' = {i}
    BY <1>a, <1>t, <1>1, <1>2 DEF AsShown
  <1>5. Table!Becomes(m, "begun", {i})
    BY <1>t, <1>1, <1>3, <1>4, OneTouched
  <1>6. Status(m) = "none" /\ Runners(m) = {}
    BY <1>a, <1>t DEF AsShown
  <1>7. ASSUME NEW k \in Migrations, k < m PROVE Status(k) = "complete" \/ k \in skipped
    BY <1>a, <1>t, <1>7 DEF Passed, AsShown
  <1>8. Table!Begin(m, i)
    BY <1>t, <1>5, <1>6, <1>7 DEF Table!Begin, Runners
  <1> QED
    BY <1>t, <1>8

\* The other steps show at most that an instance skips a migration.
LEMMA OtherSteps ==
  ASSUME MigrationInv, MigrationInv', NEW i \in Instances,
         \/ Start(i) \/ NotPending(i) \/ StartServices(i) \/ TakeLock(i) \/ LockContention(i)
         \/ RowFound(i) \/ RowMissing(i) \/ TryBeginFails(i)
         \/ Crash(i) /\ phase[i] \notin {"execute", "applied"}
  PROVE  UNCHANGED Table!vars \/ \E m \in Migrations : Table!Pass(m)
  <1>t. MigrationTypeOK /\ AtMigration /\ AsShown
    BY Shown DEF MigrationInv
  <1>1. /\ row' = row
        /\ phase[i] \notin {"execute", "applied"} /\ phase'[i] \notin {"execute", "applied"}
        /\ \A j \in Instances \ {i} : phase'[j] = phase[j] /\ next'[j] = next[j]
    BY <1>t DEF MigrationTypeOK, Start, NotPending, StartServices, TakeLock, LockContention, RowFound,
                RowMissing, TryBeginFails, Crash, Skip, Comes, Running, MoveTo, Advance, bounds, history
  <1>2. \A m \in Migrations : Status(m)' = Status(m) /\ Runners(m)' = Runners(m)
    BY <1>1, LooksTheSame DEF Executes
  <1>3. CASE skipped' = skipped
    BY <1>2, <1>3, NoneTouched
  <1>4. CASE skipped' # skipped
    <2> DEFINE m == next[i]
    <2>1. LockContention(i) \/ RowFound(i)
      BY <1>4 DEF Start, NotPending, StartServices, TakeLock, RowMissing, TryBeginFails, Crash, history
    <2>2. m \in Migrations /\ row[m] # "complete" /\ skipped' = skipped \cup {m}
      BY <1>4, <1>t, <2>1 DEF LockContention, RowFound, Skip, Comes, AtMigration
    <2>3. Status(m) # "complete"
      BY <1>t, <2>2 DEF AsShown
    <2>4. Table!Pass(m)
      BY <1>2, <2>2, <2>3 DEF Table!Pass, Runners
    <2> QED
      BY <2>2, <2>4
  <1> QED
    BY <1>3, <1>4

\* Every step of every instance is one of the table's, or shows nothing.
LEMMA TableSteps == MigrationInv /\ MigrationInv' /\ [MigrationNext]_migrationVars => [Table!Next]_(Table!vars)
  <1> SUFFICES ASSUME MigrationInv, MigrationInv', [MigrationNext]_migrationVars
               PROVE  [Table!Next]_(Table!vars)
    OBVIOUS
  <1>1. CASE UNCHANGED migrationVars
    BY <1>1, NoneTouched DEF migrationVars, Status, Runners, Executes
  <1>2. ASSUME NEW i \in Instances, Instance(i) PROVE [Table!Next]_(Table!vars)
    <2>1. CASE InsertPendingMigrationRow(i)
      BY <2>1, Beginning DEF Table!Next
    <2>2. CASE \/ Execute(i) \/ CompleteMigration(i) \/ (\E completed \in BOOLEAN : MigrationFails(i, completed))
               \/ Crash(i) /\ phase[i] \in {"execute", "applied"}
      <3>1. Executes(i, next[i]) /\ next[i] \in Migrations
        BY <2>2 DEF Executes, Execute, CompleteMigration, IsApplied, MigrationFails, MigrationInv, AtMigration
      <3> QED
        BY <2>2, <3>1, AtWork DEF Table!Next
    <2>3. CASE ~ (\/ InsertPendingMigrationRow(i)
                  \/ Execute(i) \/ CompleteMigration(i) \/ (\E completed \in BOOLEAN : MigrationFails(i, completed))
                  \/ Crash(i) /\ phase[i] \in {"execute", "applied"})
      BY <1>2, <2>3, OtherSteps DEF Instance, Table!Next
    <2> QED
      BY <2>1, <2>2, <2>3
  <1> QED
    BY <1>1, <1>2 DEF MigrationNext

\* The instances implement MigrationTable: with their lock, their rows, and what each has read
\* of them when it started, they have no other effect on the migrations than the table allows.
THEOREM TableRefined == MigrationSpec => ImplementsTable
  <1>1. MigrationInit => Table!Init
    BY DEF MigrationInit, Table!Init, Status, Executes
  <1>2. MigrationInv /\ MigrationInv' /\ [MigrationNext]_migrationVars => [Table!Next]_(Table!vars)
    BY TableSteps
  <1> QED
    BY MigrationInvariance, <1>1, <1>2, PTL DEF MigrationSpec, Table!Spec, ImplementsTable
=============================================================================
