--------------------------- MODULE RunSessionsProofs ---------------------------
(***************************************************************************)
(* Proofs about RunSessions, for any sessions, requests and cleanups.      *)
(* Polls and updates of a client exclude each other by the lock on its     *)
(* row, operators by the lock on the row of the session: what a poll or an *)
(* update has read is stale in what operators change, and in nothing else. *)
(***************************************************************************)
EXTENDS RunSessions, TLAPS

Lockers == Polls \cup Updates
Locks(t, c) == request[t].stage \in {"read", "updated"} /\ request[t].client = c

\* The locks: one poll or update of a client, one operator of a row.
LocksExclude ==
    /\ \A t, u \in Lockers : \A c \in Clients : Locks(t, c) /\ Locks(u, c) => t = u
    /\ \A o, q \in Operators :
          Stage(o, "read") /\ Stage(q, "read") /\ request[o].client = request[q].client
             /\ request[o].session = request[q].session => o = q

\* Requests of each kind, at the stages there are for them.
Stages ==
    /\ \A t \in Polls \cup Operators : request[t].stage \in {"free", "read"}
    /\ \A t \in Polls \cup Operators : Stage(t, "read") => request[t].session \in Sessions

\* No session has two rows of a client.
Single == \A c \in Clients, s \in Sessions : rows[c][s] # NoRow => rows[c][s].copies = 1

\* What a poll or an update has read tells truly which rows there may be, and which need a restart.
ReadsHold ==
    \A t \in Lockers, s \in Sessions : Stage(t, "read") =>
        /\ rows[request[t].client][s] # NoRow =>
              /\ request[t].read[s] # NoRow
              /\ request[t].read[s].required = rows[request[t].client][s].required
        /\ request[t].read[s] # NoRow => request[t].read[s].copies = 1

\* The row that an operator has read and locked is as it was, but for its age.
Same(read, now) ==
    /\ read # NoRow /\ now # NoRow
    /\ read.live = now.live /\ read.restart = now.restart /\ read.required = now.required
    /\ read.copies = now.copies
OperatorsHold ==
    \A o \in Operators : Stage(o, "read") =>
        Same(request[o].read[request[o].session], rows[request[o].client][request[o].session])

IInv == TypeOK /\ LocksExclude /\ Stages /\ Single /\ ReadsHold /\ OperatorsHold
-----------------------------------------------------------------------------
LEMMA Kinds ==
  /\ NoRow \in Rows /\ Row \subseteq Rows /\ \A r \in Rows : r # NoRow => r \in Row
  /\ NoRow \notin Row /\ NoRow \notin Sessions
  /\ None \in [Sessions -> Rows] /\ Free \in Transactions /\ Free.stage = "free"
  /\ Fresh \in Row /\ Fresh.copies = 1 /\ Done \in Rounds
  BY NoRowAssumption
  DEF Rows, None, Free, Transactions, Clients, Changes, Fresh, Row, Done, Rounds

LEMMA Writing ==
  ASSUME NEW r \in Row
  PROVE  /\ Updated(r) \in Row /\ Updated(r).copies = r.copies /\ Updated(r).required = r.required
         /\ Updated(r).live = r.live /\ Updated(r).restart = r.restart
         /\ [r EXCEPT !.required = TRUE] \in Row /\ [r EXCEPT !.required = TRUE].copies = r.copies
         /\ [r EXCEPT !.required = TRUE].required = TRUE
         /\ [r EXCEPT !.required = TRUE].live = r.live /\ [r EXCEPT !.required = TRUE].restart = r.restart
         /\ [r EXCEPT !.copies = 2] \in Row
         /\ [r EXCEPT !.expired = TRUE] \in Row /\ Same(r, [r EXCEPT !.expired = TRUE])
         /\ \A change \in Changes :
              /\ Changed(r, change) \in Row /\ Changed(r, change).copies = r.copies
              /\ Changed(r, change).required = r.required
              /\ r.restart => Changed(r, change).restart
              /\ change = "restart" => Changed(r, change).live = r.live
  <1>1. r # NoRow /\ [r EXCEPT !.expired = TRUE] # NoRow
    BY NoRowAssumption DEF Row
  <1>2. /\ Updated(r) \in Row /\ Updated(r).copies = r.copies /\ Updated(r).required = r.required
        /\ Updated(r).live = r.live /\ Updated(r).restart = r.restart
    BY DEF Row, Updated
  <1>3. /\ [r EXCEPT !.required = TRUE] \in Row /\ [r EXCEPT !.required = TRUE].copies = r.copies
        /\ [r EXCEPT !.required = TRUE].required = TRUE
        /\ [r EXCEPT !.required = TRUE].live = r.live /\ [r EXCEPT !.required = TRUE].restart = r.restart
    BY DEF Row
  <1>4. [r EXCEPT !.copies = 2] \in Row /\ [r EXCEPT !.expired = TRUE] \in Row
    <2>1. [r EXCEPT !.expired = TRUE] \in Row
      BY DEF Row
    <2>2. 2 \in 1..2
      OBVIOUS
    <2>3. [r EXCEPT !.copies = 2] \in Row
      BY <2>2 DEF Row
    <2> QED
      BY <2>1, <2>3
  <1>5. Same(r, [r EXCEPT !.expired = TRUE])
    BY <1>1 DEF Row, Same
  <1>6. ASSUME NEW change \in Changes
        PROVE  /\ Changed(r, change) \in Row /\ Changed(r, change).copies = r.copies
               /\ Changed(r, change).required = r.required
               /\ r.restart => Changed(r, change).restart
               /\ change = "restart" => Changed(r, change).live = r.live
    <2>1. CASE change = "restart"
      <3>1. Changed(r, change) = [r EXCEPT !.restart = TRUE]
        BY <2>1 DEF Changed
      <3> QED
        BY <2>1, <3>1 DEF Row
    <2>2. CASE change # "restart"
      <3>1. PICK b \in BOOLEAN : b = (~r.live)
        OBVIOUS
      <3>2. Changed(r, change) = [r EXCEPT !.live = b]
        BY <2>2, <3>1 DEF Changed
      <3> QED
        BY <2>2, <3>2 DEF Row
    <2> QED
      BY <2>1, <2>2
  <1> QED
    BY <1>2, <1>3, <1>4, <1>5, <1>6

LEMMA Initially == Init => IInv
  <1> SUFFICES ASSUME Init PROVE IInv
    OBVIOUS
  <1> USE DEF Init
  <1>1. \A t \in Requests : request[t].stage = "free"
    BY Kinds
  <1>2. Lockers \subseteq Requests /\ Operators \subseteq Requests /\ Polls \subseteq Requests
    BY DEF Lockers, Requests
  <1>3. TypeOK
    <2>1. rows \in [Clients -> [Sessions -> Rows]]
      BY Kinds
    <2>2. \A w \in Cleanups : cleanup[w].found = {}
      BY DEF Done
    <2>3. count \in [cleared : 0..MaxCleared, faults : 0..MaxFaults]
      BY BoundsAssumption
    <2> QED
      BY Kinds, <2>1, <2>2, <2>3 DEF TypeOK
  <1>4. LocksExclude /\ Stages
    BY <1>1, <1>2 DEF LocksExclude, Stages, Locks, Stage
  <1>5. Single /\ ReadsHold /\ OperatorsHold
    BY <1>1, <1>2 DEF Single, ReadsHold, OperatorsHold, Stage, None
  <1> QED
    BY <1>3, <1>4, <1>5 DEF IInv

\* The steps, by what they do to requests and rows.
Begins ==
    \/ \E p \in Polls, s \in Sessions : SyncStatus(p, s)
    \/ \E o \in Operators, s \in Sessions, change \in Changes : GetRunSession(o, s, change)
    \/ \E u \in Updates : \/ \E c \in Clients : UpdateClient(u, c)
                          \/ MarkRestartRequired(u)
Ends ==
    \/ \E p \in Polls : PollIsStale(p) \/ PollUndone(p)
    \/ \E o \in Operators, u \in Updates : EndDeadlock(o, u)
    \/ \E t \in Requests : Rollback(t)
Writes ==
    \/ \E p \in Polls : PollCommits(p)
    \/ \E o \in Operators : OperatorCommits(o)
    \/ \E u \in Updates : UpdateCommits(u)
Ages ==
    \E c \in Clients, s \in Sessions : Expire(c, s) \/ \E w \in Cleanups : CleanupRemoves(w, c, s)
Others ==
    \/ UNCHANGED vars \/ CreateOverride
    \/ \E w \in Cleanups : CleanupReads(w)
    \/ \E s \in Sessions : Crash(s)

LEMMA Steps == ASSUME [Next]_vars PROVE Begins \/ Ends \/ Writes \/ Ages \/ Others
  BY DEF Next, Begins, Ends, Writes, Ages, Others

LEMMA RequestKinds ==
  /\ Lockers \subseteq Requests /\ Operators \subseteq Requests /\ Polls \subseteq Requests
  /\ Updates \subseteq Requests /\ Polls \subseteq Lockers /\ Updates \subseteq Lockers
  /\ Lockers \cap Operators = {} /\ Polls \cap Updates = {} /\ Requests = Lockers \cup Operators
  BY RequestsAssumption DEF Lockers, Requests

\* Who ends is free.
LEMMA Ending ==
  ASSUME Ends \/ Writes
  PROVE  \E t \in Requests : request' = [request EXCEPT ![t] = Free]
  BY RequestKinds
  DEF Ends, Writes, PollIsStale, PollUndone, EndDeadlock, Rollback, PollCommits, OperatorCommits,
      UpdateCommits, Frees

LEMMA LocksKept ==
  ASSUME IInv, [Next]_vars
  PROVE  LocksExclude' /\ Stages'
  <1>t. request \in [Requests -> Transactions]
    BY DEF IInv, TypeOK
  <1>i. LocksExclude /\ Stages
    BY DEF IInv
  <1>1. ASSUME \A t \in Requests : request'[t] = request[t] \/ request'[t].stage = "free"
        PROVE  LocksExclude' /\ Stages'
    <2>1. \A t \in Lockers : \A c \in Clients : Locks(t, c)' => Locks(t, c)
      BY <1>1, RequestKinds DEF Locks
    <2>2. \A t \in Operators \cup Polls : Stage(t, "read")' => request'[t] = request[t] /\ Stage(t, "read")
      BY <1>1, RequestKinds DEF Stage
    <2>3. \A t \in Operators \cup Polls : request'[t].stage \in {"free", "read"}
      BY <1>1, <1>i, RequestKinds DEF Stages
    <2> QED
      BY <1>i, <2>1, <2>2, <2>3 DEF LocksExclude, Stages
  <1>2. CASE Ends \/ Writes
    BY <1>1, <1>2, <1>t, Ending, Kinds
  <1>3. CASE Ages \/ Others
    <2>1. request' = request
      BY <1>3 DEF Ages, Expire, CleanupRemoves, Others, vars, api, CreateOverride, CleanupReads, Crash
    <2> QED
      BY <1>1, <2>1
  <1>4. ASSUME NEW t \in Lockers, NEW c \in Clients, ClientIsFree(c) \/ Locks(t, c),
               request'[t].client = c,
               \A u \in Requests : u # t => request'[u] = request[u],
               t \in Polls => request'[t].stage = "read" /\ request'[t].session \in Sessions
        PROVE  LocksExclude' /\ Stages'
    <2>1. \A u \in Lockers : u # t => ~Locks(u, c)
      BY <1>4, <1>i, RequestKinds DEF LocksExclude, ClientIsFree, Locks, Lockers
    <2>2. \A u \in Lockers : u # t => ~Locks(u, c)'
      BY <1>4, <2>1, RequestKinds DEF Locks
    <2>3. \A d \in Clients : d # c => ~Locks(t, d)'
      BY <1>4 DEF Locks
    <2>4. \A u \in Lockers, d \in Clients : u # t => (Locks(u, d)' <=> Locks(u, d))
      BY <1>4, RequestKinds DEF Locks
    <2>5. \A v, u \in Lockers : \A d \in Clients : Locks(v, d)' /\ Locks(u, d)' => v = u
      BY <1>i, <2>2, <2>3, <2>4 DEF LocksExclude
    <2>6. \A o \in Operators : request'[o] = request[o]
      BY <1>4, RequestKinds
    <2>7. Stages'
      BY <1>4, <1>i, RequestKinds DEF Stages, Stage
    <2> QED
      BY <1>i, <2>5, <2>6, <2>7 DEF LocksExclude, Stage
  <1>5. ASSUME NEW p \in Polls, NEW s \in Sessions, SyncStatus(p, s) PROVE LocksExclude' /\ Stages'
    <2>1. request' = [request EXCEPT ![p] = [Free EXCEPT !.stage = "read", !.client = Current, !.session = s,
                                                     !.read = rows[Current]]]
          /\ ClientIsFree(Current) /\ Current \in Clients
      BY <1>5 DEF SyncStatus, Current, Clients
    <2>2. request'[p].stage = "read" /\ request'[p].client = Current /\ request'[p].session = s
      BY <1>t, <2>1, RequestKinds DEF Free
    <2> QED
      BY <1>4, <1>t, <2>1, <2>2, RequestKinds
  <1>6. ASSUME NEW u \in Updates, NEW c \in Clients, UpdateClient(u, c) PROVE LocksExclude' /\ Stages'
    <2>1. request' = [request EXCEPT ![u] = [Free EXCEPT !.stage = "updated", !.client = c]] /\ ClientIsFree(c)
      BY <1>6 DEF UpdateClient
    <2>2. request'[u].client = c
      BY <1>t, <2>1, RequestKinds DEF Free
    <2> QED
      BY <1>4, <1>t, <2>1, <2>2, RequestKinds
  <1>7. ASSUME NEW u \in Updates, MarkRestartRequired(u) PROVE LocksExclude' /\ Stages'
    <2>1. request' = [request EXCEPT ![u] = [request[u] EXCEPT !.stage = "read", !.read = rows[request[u].client]]]
          /\ request[u].stage = "updated"
      BY <1>7 DEF MarkRestartRequired, Stage
    <2>2. request[u] \in Transactions
      BY <1>t, RequestKinds
    <2>3. request'[u].client = request[u].client /\ request[u].client \in Clients
      BY <1>t, <2>1, <2>2, RequestKinds DEF Transactions
    <2>4. Locks(u, request[u].client)
      BY <2>1 DEF Locks
    <2> QED
      BY <1>4, <1>t, <2>1, <2>3, <2>4, RequestKinds
  <1>8. ASSUME NEW o \in Operators, NEW s \in Sessions, NEW change \in Changes, GetRunSession(o, s, change)
        PROVE  LocksExclude' /\ Stages'
    <2>1. PICK c \in Clients :
            /\ SessionIsFree(c, s)
            /\ request' = [request EXCEPT ![o] = [stage |-> "read", client |-> c, session |-> s,
                                             read |-> [None EXCEPT ![s] = rows[c][s]], change |-> change]]
      BY <1>8 DEF GetRunSession
    <2>2. request'[o].stage = "read" /\ request'[o].client = c /\ request'[o].session = s
      BY <1>t, <2>1, RequestKinds
    <2>3. \A t \in Requests : t # o => request'[t] = request[t]
      BY <1>t, <2>1
    <2>4. \A q \in Operators : q # o =>
             ~(Stage(q, "read")' /\ request'[q].client = c /\ request'[q].session = s)
      BY <2>1, <2>3, RequestKinds DEF SessionIsFree, Stage
    <2>5. \A t \in Lockers : request'[t] = request[t]
      BY <2>3, RequestKinds
    <2>6. \A t \in Operators : t # o => request'[t] = request[t]
      BY <2>3, RequestKinds
    <2>7. \A u, q \in Operators :
          Stage(u, "read")' /\ Stage(q, "read")' /\ request'[u].client = request'[q].client
             /\ request'[u].session = request'[q].session => u = q
      BY <1>i, <2>2, <2>4, <2>6 DEF LocksExclude, Stage
    <2>8. Stages'
      BY <1>i, <2>2, <2>5, <2>6, RequestKinds DEF Stages, Stage
    <2> QED
      BY <1>i, <2>5, <2>7, <2>8 DEF LocksExclude, Locks
  <1> QED
    BY <1>2, <1>3, <1>5, <1>6, <1>7, <1>8, Steps DEF Begins

\* A row that is written suits those who have read it and go on.
Suits(c, s) ==
    /\ rows'[c][s] # NoRow => rows'[c][s].copies = 1
    /\ \A t \in Lockers : Stage(t, "read")' /\ request[t].client = c /\ rows'[c][s] # NoRow =>
          rows[c][s] # NoRow /\ rows'[c][s].required = rows[c][s].required
    /\ \A o \in Operators : Stage(o, "read")' /\ request[o].client = c /\ request[o].session = s =>
          Same(rows[c][s], rows'[c][s])

\* What ChangesStand says of one row.
Stands(c, s) ==
    (rows[c][s] # NoRow /\ rows'[c][s] # NoRow) =>
        /\ rows[c][s].required => rows'[c][s].required
        /\ rows[c][s].restart => rows'[c][s].restart \/ OverwritesStale(c, s)
        /\ rows[c][s].live # rows'[c][s].live =>
            \/ OverwritesStale(c, s)
            \/ \E o \in Operators : /\ Stage(o, "read") /\ Stage(o, "free")' /\ request[o].session = s
                                    /\ request[o].change # "restart"

RowTypes == rows \in [Clients -> [Sessions -> Rows]]
WrittenWell == RowTypes' /\ \A c \in Clients, s \in Sessions :
                              rows'[c][s] = rows[c][s] \/ (Suits(c, s) /\ Stands(c, s))

Kept == \A c \in Clients, s \in Sessions : rows[c][s] # NoRow => rows'[c][s] # NoRow

\* What is known of the requests at a write.
LEMMA Requested ==
  ASSUME IInv
  PROVE  /\ RowTypes
         /\ \A t \in Requests : request[t].client \in Clients /\ request[t].read \in [Sessions -> Rows]
                                /\ request[t].change \in Changes
         /\ request \in [Requests -> Transactions]
  BY DEF IInv, TypeOK, RowTypes, Transactions

LEMMA Freed ==
  ASSUME IInv, NEW t \in Requests, Frees(t)
  PROVE  /\ request'[t].stage = "free"
         /\ \A u \in Requests : u # t => request'[u] = request[u]
  BY Requested, Kinds DEF Frees

LEMMA PollWrites ==
  ASSUME IInv, NEW p \in Polls, PollCommits(p)
  PROVE  WrittenWell /\ Kept
  <1> DEFINE q == request[p]
             c == q.client
             s == q.session
             r == q.read[s]
  <1>1. /\ c \in Clients /\ s \in Sessions /\ q.read \in [Sessions -> Rows] /\ r \in Rows
        /\ q.stage = "read" /\ p \in Requests /\ p \in Lockers
    BY Requested, RequestKinds DEF IInv, Stages, PollCommits, Stage
  <1>2. RowTypes
    BY Requested
  <1>3. request'[p].stage = "free" /\ \A u \in Requests : u # p => request'[u] = request[u]
    BY <1>1, Freed DEF PollCommits
  <1>4. \A t \in Lockers : Stage(t, "read")' => request[t].client # c
    BY <1>1, <1>3, RequestKinds DEF IInv, LocksExclude, Locks, Stage
  <1>5. \A o \in Operators : Stage(o, "read")' => Stage(o, "read")
    BY <1>3, RequestKinds DEF Stage
  <1>6. /\ rows[c][s] # NoRow => r # NoRow /\ r.required = rows[c][s].required
        /\ r # NoRow => r.copies = 1
    BY <1>1 DEF IInv, ReadsHold, Stage
  <1>7. CASE r = NoRow
    <2>1. rows[c][s] = NoRow
      BY <1>6, <1>7
    <2>2. rows' = [rows EXCEPT ![c][s] = Fresh]
      BY <1>7, <2>1 DEF PollCommits, Inserted
    <2>3. rows'[c][s] = Fresh
      BY <1>1, <1>2, <2>2 DEF RowTypes
    <2>4. \A d \in Clients, x \in Sessions : d # c \/ x # s => rows'[d][x] = rows[d][x]
      BY <1>1, <1>2, <2>2 DEF RowTypes
    <2>5. RowTypes'
      BY <1>1, <1>2, <2>2, Kinds DEF RowTypes
    <2>6. \A o \in Operators : Stage(o, "read") => ~(request[o].client = c /\ request[o].session = s)
      BY <2>1 DEF IInv, OperatorsHold, Same
    <2>7. Suits(c, s)
      BY <1>4, <1>5, <2>3, <2>6, Kinds DEF Suits
    <2>8. Stands(c, s)
      BY <2>1 DEF Stands
    <2> QED
      BY <2>1, <2>4, <2>5, <2>7, <2>8 DEF WrittenWell, Kept
  <1>8. CASE r # NoRow
    <2>1. rows' = [rows EXCEPT ![c][s] = Updated(r)] /\ SessionIsFree(c, s)
      BY <1>8 DEF PollCommits
    <2>2. r \in Row
      BY <1>1, <1>8, Kinds
    <2>3. /\ Updated(r) \in Row /\ Updated(r).copies = 1 /\ Updated(r).required = r.required
          /\ Updated(r).live = r.live /\ Updated(r).restart = r.restart
      BY <1>6, <1>8, <2>2, Writing
    <2>4. rows'[c][s] = Updated(r)
      BY <1>1, <1>2, <2>1 DEF RowTypes
    <2>5. \A d \in Clients, x \in Sessions : d # c \/ x # s => rows'[d][x] = rows[d][x]
      BY <1>1, <1>2, <2>1 DEF RowTypes
    <2>6. RowTypes'
      BY <1>1, <1>2, <2>1, <2>3, Kinds DEF RowTypes
    <2>7. \A o \in Operators : Stage(o, "read") => ~(request[o].client = c /\ request[o].session = s)
      BY <2>1 DEF SessionIsFree
    <2>8. Suits(c, s)
      BY <1>4, <1>5, <2>3, <2>4, <2>7 DEF Suits
    <2>9. OverwritesStale(c, s)
      BY <1>1, <1>3, <2>3, <2>4 DEF OverwritesStale, Stage
    <2>10. Stands(c, s)
      BY <1>6, <2>3, <2>4, <2>9 DEF Stands
    <2> QED
      BY <2>3, <2>4, <2>5, <2>6, <2>8, <2>10, Kinds DEF WrittenWell, Kept
  <1> QED
    BY <1>7, <1>8

LEMMA OperatorWrites ==
  ASSUME IInv, NEW o \in Operators, OperatorCommits(o)
  PROVE  WrittenWell /\ Kept
  <1> DEFINE q == request[o]
             c == q.client
             s == q.session
             r == q.read[s]
             n == Changed(r, q.change)
  <1>1. /\ c \in Clients /\ s \in Sessions /\ q.read \in [Sessions -> Rows] /\ r \in Rows
        /\ q.stage = "read" /\ o \in Requests /\ q.change \in Changes
    BY Requested, RequestKinds DEF IInv, Stages, OperatorCommits, Stage
  <1>2. RowTypes
    BY Requested
  <1>3. request'[o].stage = "free" /\ \A u \in Requests : u # o => request'[u] = request[u]
    BY <1>1, Freed DEF OperatorCommits
  <1>4. Same(r, rows[c][s])
    BY <1>1 DEF IInv, OperatorsHold, Stage
  <1>5. r \in Row /\ rows[c][s] # NoRow /\ r.copies = 1
    BY <1>1, <1>4, Kinds DEF Same, IInv, Single
  <1>6. /\ n \in Row /\ n.copies = 1 /\ n.required = r.required
        /\ r.restart => n.restart
        /\ q.change = "restart" => n.live = r.live
    BY <1>1, <1>5, Writing
  <1>7. rows' = [rows EXCEPT ![c][s] = n]
    BY DEF OperatorCommits
  <1> HIDE DEF n
  <1>8. rows'[c][s] = n
    BY <1>1, <1>2, <1>7 DEF RowTypes
  <1>9. \A d \in Clients, x \in Sessions : d # c \/ x # s => rows'[d][x] = rows[d][x]
    BY <1>1, <1>2, <1>7 DEF RowTypes
  <1>10. RowTypes'
    BY <1>1, <1>2, <1>6, <1>7, Kinds DEF RowTypes
  <1>11. \A x \in Operators : Stage(x, "read")' => ~(request[x].client = c /\ request[x].session = s)
    BY <1>1, <1>3, RequestKinds DEF IInv, LocksExclude, Stage
  <1>12. Suits(c, s)
    BY <1>4, <1>5, <1>6, <1>8, <1>11 DEF Suits, Same
  <1>13. rows[c][s].live = r.live /\ rows[c][s].restart = r.restart /\ rows[c][s].required = r.required
    BY <1>4 DEF Same
  <1>14. Stage(o, "read") /\ Stage(o, "free")' /\ request[o].session = s
    BY <1>1, <1>3 DEF Stage
  <1>15. rows[c][s].live # rows'[c][s].live => request[o].change # "restart"
    BY <1>6, <1>8, <1>13
  <1>16. Stands(c, s)
    BY <1>6, <1>8, <1>13, <1>14, <1>15 DEF Stands
  <1> QED
    BY <1>6, <1>8, <1>9, <1>10, <1>12, <1>16, Kinds DEF WrittenWell, Kept

LEMMA UpdateWrites ==
  ASSUME IInv, NEW u \in Updates, UpdateCommits(u)
  PROVE  WrittenWell /\ Kept
  <1> DEFINE q == request[u]
             c == q.client
  <1>1. /\ c \in Clients /\ q.read \in [Sessions -> Rows]
        /\ q.stage = "read" /\ u \in Requests /\ u \in Lockers
    BY Requested, RequestKinds DEF UpdateCommits, Stage
  <1>2. RowTypes
    BY Requested
  <1>3. request'[u].stage = "free" /\ \A t \in Requests : t # u => request'[t] = request[t]
    BY <1>1, Freed DEF UpdateCommits
  <1>4. CASE UNCHANGED rows
    BY <1>2, <1>4 DEF WrittenWell, RowTypes, Kept
  <1>5. CASE rows' = [rows EXCEPT ![c] = [s \in Sessions |->
                        IF s \in Dirty(u) THEN [q.read[s] EXCEPT !.required = TRUE] ELSE rows[c][s]]]
    <2>1. \A s \in Dirty(u) : s \in Sessions /\ q.read[s] \in Row
      BY <1>1, Kinds DEF Dirty
    <2>2. \A s \in Dirty(u) : [q.read[s] EXCEPT !.required = TRUE] \in Row
      BY <2>1, Writing
    <2>3. rows[c] \in [Sessions -> Rows]
      BY <1>1, <1>2 DEF RowTypes
    <2>4. [s \in Sessions |-> IF s \in Dirty(u) THEN [q.read[s] EXCEPT !.required = TRUE] ELSE rows[c][s]]
             \in [Sessions -> Rows]
      BY <2>2, <2>3, Kinds
    <2>5. RowTypes'
      BY <1>1, <1>2, <1>5, <2>4 DEF RowTypes
    <2>6. \A d \in Clients, s \in Sessions : d # c \/ s \notin Dirty(u) => rows'[d][s] = rows[d][s]
      BY <1>1, <1>2, <1>5 DEF RowTypes
    <2>7. ASSUME NEW s \in Dirty(u)
          PROVE  Suits(c, s) /\ Stands(c, s) /\ rows'[c][s] # NoRow
      <3> DEFINE r == q.read[s]
                 n == [r EXCEPT !.required = TRUE]
      <3>1. s \in Sessions /\ r \in Row /\ r # NoRow
        BY <2>1, Kinds
      <3>2. rows'[c][s] = n
        BY <1>1, <1>2, <1>5, <3>1 DEF RowTypes
      <3>3. r.copies = 1
        BY <1>1, <3>1 DEF IInv, ReadsHold, Stage
      <3>4. n.copies = 1 /\ n.required = TRUE /\ n.live = r.live /\ n.restart = r.restart
        BY <3>1, <3>3, Writing
      <3>a. n # NoRow
        BY <2>2, Kinds
      <3> HIDE DEF n
      <3>5. \A t \in Lockers : Stage(t, "read")' => request[t].client # c
        BY <1>1, <1>3, RequestKinds DEF IInv, LocksExclude, Locks, Stage
      <3>6. \A o \in Operators : Stage(o, "read")' => Stage(o, "read")
        BY <1>3, RequestKinds DEF Stage
      <3>7. \A o \in Operators : Stage(o, "read") => ~(request[o].client = c /\ request[o].session = s)
        BY DEF UpdateCommits, MayWrite, SessionIsFree
      <3>8. Suits(c, s)
        BY <3>2, <3>4, <3>5, <3>6, <3>7 DEF Suits
      <3>9. OverwritesStale(c, s)
        BY <1>1, <1>3, <3>2, <3>4 DEF OverwritesStale, Stage
      <3> QED
        BY <3>2, <3>4, <3>a, <3>8, <3>9 DEF Stands
    <2> QED
      BY <2>5, <2>6, <2>7 DEF WrittenWell, Kept
  <1> QED
    BY <1>4, <1>5 DEF UpdateCommits

LEMMA ExpireWrites ==
  ASSUME IInv, NEW c \in Clients, NEW s \in Sessions, Expire(c, s)
  PROVE  WrittenWell /\ Kept
  <1> DEFINE r == rows[c][s]
             n == [r EXCEPT !.expired = TRUE]
  <1>1. RowTypes /\ request' = request /\ r # NoRow
    BY Requested DEF Expire
  <1>2. r \in Row /\ r.copies = 1
    BY <1>1, Kinds DEF RowTypes, IInv, Single
  <1>3. n \in Row /\ Same(r, n)
    BY <1>2, Writing
  <1>4. rows' = [rows EXCEPT ![c][s] = n]
    BY <1>1 DEF Expire, RowTypes
  <1> HIDE DEF n
  <1>5. rows'[c][s] = n
    BY <1>1, <1>4 DEF RowTypes
  <1>6. \A d \in Clients, x \in Sessions : d # c \/ x # s => rows'[d][x] = rows[d][x]
    BY <1>1, <1>4 DEF RowTypes
  <1>7. RowTypes'
    BY <1>1, <1>3, <1>4, Kinds DEF RowTypes
  <1>8. Suits(c, s)
    BY <1>1, <1>2, <1>3, <1>5 DEF Suits, Same
  <1>9. Stands(c, s)
    BY <1>3, <1>5 DEF Stands, Same
  <1> QED
    BY <1>3, <1>5, <1>6, <1>7, <1>8, <1>9, Kinds DEF WrittenWell, Kept

LEMMA CleanupWrites ==
  ASSUME IInv, NEW c \in Clients, NEW s \in Sessions, NEW w \in Cleanups, CleanupRemoves(w, c, s)
  PROVE  WrittenWell
  <1>1. RowTypes /\ request' = request
    BY Requested DEF CleanupRemoves
  <1>2. CASE rows' = rows
    BY <1>1, <1>2 DEF WrittenWell, RowTypes
  <1>3. CASE rows' = [rows EXCEPT ![c][s] = NoRow]
    <2>1. rows'[c][s] = NoRow
      BY <1>1, <1>3 DEF RowTypes
    <2>2. \A d \in Clients, x \in Sessions : d # c \/ x # s => rows'[d][x] = rows[d][x]
      BY <1>1, <1>3 DEF RowTypes
    <2>3. RowTypes'
      BY <1>1, <1>3, Kinds DEF RowTypes
    <2>4. \A o \in Operators : Stage(o, "read")' => ~(request[o].client = c /\ request[o].session = s)
      BY <1>1 DEF CleanupRemoves, SessionIsFree, Stage
    <2>5. Suits(c, s)
      BY <2>1, <2>4 DEF Suits
    <2>6. Stands(c, s)
      BY <2>1 DEF Stands
    <2> QED
      BY <2>2, <2>3, <2>5, <2>6 DEF WrittenWell
  <1> QED
    BY <1>2, <1>3 DEF CleanupRemoves

\* Every step writes rows well.
LEMMA RowsWritten ==
  ASSUME IInv, [Next]_vars
  PROVE  WrittenWell
  <1>1. CASE rows' = rows
    BY <1>1, Requested DEF WrittenWell, RowTypes
  <1>2. CASE Begins
    BY <1>1, <1>2 DEF Begins, SyncStatus, GetRunSession, UpdateClient, MarkRestartRequired
  <1>3. CASE Ends
    BY <1>1, <1>3 DEF Ends, PollIsStale, PollUndone, EndDeadlock, Rollback
  <1>4. CASE Others
    BY <1>1, <1>4 DEF Others, vars, api, CreateOverride, CleanupReads, Crash
  <1>5. CASE Writes
    BY <1>5, PollWrites, OperatorWrites, UpdateWrites DEF Writes
  <1>6. CASE Ages
    BY <1>6, ExpireWrites, CleanupWrites DEF Ages
  <1> QED
    BY <1>2, <1>3, <1>4, <1>5, <1>6, Steps

\* What has been read and locked stays true, whoever begins, writes or ends.
LEMMA ReadsKept ==
  ASSUME IInv, [Next]_vars
  PROVE  Single' /\ ReadsHold' /\ OperatorsHold'
  <1>1. /\ WrittenWell /\ request \in [Requests -> Transactions]
        /\ \A t \in Requests : request[t].client \in Clients /\ request[t].read \in [Sessions -> Rows]
    BY RowsWritten, Requested
  <1>2. Single'
    BY <1>1 DEF WrittenWell, Suits, IInv, Single
  <1>3. ASSUME NEW t \in Lockers, request'[t] = request[t], Stage(t, "read")', NEW s \in Sessions
        PROVE  /\ rows'[request'[t].client][s] # NoRow =>
                     /\ request'[t].read[s] # NoRow
                     /\ request'[t].read[s].required = rows'[request'[t].client][s].required
               /\ request'[t].read[s] # NoRow => request'[t].read[s].copies = 1
    <2> DEFINE c == request[t].client
    <2>1. c \in Clients /\ Stage(t, "read")
      BY <1>1, <1>3, RequestKinds DEF Stage
    <2>2. /\ rows[c][s] # NoRow => request[t].read[s] # NoRow /\ request[t].read[s].required = rows[c][s].required
          /\ request[t].read[s] # NoRow => request[t].read[s].copies = 1
      BY <2>1 DEF IInv, ReadsHold
    <2>3. rows'[c][s] # NoRow => rows[c][s] # NoRow /\ rows'[c][s].required = rows[c][s].required
      BY <1>1, <1>3, <2>1 DEF WrittenWell, Suits
    <2> QED
      BY <1>3, <2>2, <2>3
  <1>4. ASSUME NEW o \in Operators, request'[o] = request[o], Stage(o, "read")'
        PROVE  Same(request'[o].read[request'[o].session], rows'[request'[o].client][request'[o].session])
    <2> DEFINE c == request[o].client
               s == request[o].session
    <2>1. c \in Clients /\ Stage(o, "read") /\ s \in Sessions
      BY <1>1, <1>4, RequestKinds DEF Stage, IInv, Stages
    <2>2. Same(request[o].read[s], rows[c][s])
      BY <2>1 DEF IInv, OperatorsHold
    <2>3. rows'[c][s] = rows[c][s] \/ Same(rows[c][s], rows'[c][s])
      BY <1>1, <1>4, <2>1 DEF WrittenWell, Suits
    <2> QED
      BY <1>4, <2>2, <2>3 DEF Same
  <1>5. ASSUME \A t \in Requests : request'[t] = request[t] \/ request'[t].stage = "free"
        PROVE  ReadsHold' /\ OperatorsHold'
    <2>1. \A t \in Requests : Stage(t, "read")' => request'[t] = request[t]
      BY <1>5 DEF Stage
    <2>2. ReadsHold'
      BY <1>3, <2>1, RequestKinds DEF ReadsHold
    <2>3. OperatorsHold'
      BY <1>4, <2>1, RequestKinds DEF OperatorsHold
    <2> QED
      BY <2>2, <2>3
  <1>6. CASE Ends \/ Writes
    BY <1>1, <1>2, <1>5, <1>6, Ending, Kinds
  <1>7. CASE Ages \/ Others
    <2>1. request' = request
      BY <1>7 DEF Ages, Expire, CleanupRemoves, Others, vars, api, CreateOverride, CleanupReads, Crash
    <2> QED
      BY <1>2, <1>5, <2>1
  <1>8. ASSUME NEW t \in Lockers,
               \A u \in Requests : u # t => request'[u] = request[u],
               Stage(t, "read")' => request'[t].client \in Clients
                                    /\ request'[t].read = rows'[request'[t].client]
        PROVE  ReadsHold' /\ OperatorsHold'
    <2>1. \A s \in Sessions : Stage(t, "read")' =>
            /\ rows'[request'[t].client][s] # NoRow =>
                  /\ request'[t].read[s] # NoRow
                  /\ request'[t].read[s].required = rows'[request'[t].client][s].required
            /\ request'[t].read[s] # NoRow => request'[t].read[s].copies = 1
      BY <1>2, <1>8 DEF Single
    <2>2. \A u \in Lockers : u # t => request'[u] = request[u]
      BY <1>8, RequestKinds
    <2>3. ReadsHold'
      BY <1>3, <2>1, <2>2 DEF ReadsHold
    <2>4. \A o \in Operators : request'[o] = request[o]
      BY <1>8, RequestKinds
    <2>5. OperatorsHold'
      BY <1>4, <2>4 DEF OperatorsHold
    <2> QED
      BY <2>3, <2>5
  <1>9. ASSUME NEW p \in Polls, NEW s \in Sessions, SyncStatus(p, s) PROVE ReadsHold' /\ OperatorsHold'
    <2>1. request' = [request EXCEPT ![p] = [Free EXCEPT !.stage = "read", !.client = Current, !.session = s,
                                                     !.read = rows[Current]]]
          /\ Current \in Clients /\ rows' = rows
      BY <1>9 DEF SyncStatus, Current, Clients
    <2>2. request'[p].client = Current /\ request'[p].read = rows[Current]
      BY <1>1, <2>1, RequestKinds DEF Free
    <2> QED
      BY <1>8, <1>1, <2>1, <2>2, RequestKinds
  <1>10. ASSUME NEW u \in Updates, NEW c \in Clients, UpdateClient(u, c) PROVE ReadsHold' /\ OperatorsHold'
    <2>1. request' = [request EXCEPT ![u] = [Free EXCEPT !.stage = "updated", !.client = c]]
      BY <1>10 DEF UpdateClient
    <2>2. ~Stage(u, "read")'
      BY <1>1, <2>1, RequestKinds DEF Free, Stage
    <2> QED
      BY <1>8, <1>1, <2>1, <2>2, RequestKinds
  <1>11. ASSUME NEW u \in Updates, MarkRestartRequired(u) PROVE ReadsHold' /\ OperatorsHold'
    <2>1. request' = [request EXCEPT ![u] = [request[u] EXCEPT !.stage = "read", !.read = rows[request[u].client]]]
          /\ rows' = rows
      BY <1>11 DEF MarkRestartRequired
    <2>2. request[u] \in Transactions
      BY <1>1, RequestKinds
    <2>3. request'[u].client = request[u].client /\ request'[u].read = rows[request[u].client]
      BY <1>1, <2>1, <2>2, RequestKinds DEF Transactions
    <2> QED
      BY <1>8, <1>1, <2>1, <2>3, RequestKinds
  <1>12. ASSUME NEW o \in Operators, NEW s \in Sessions, NEW change \in Changes, GetRunSession(o, s, change)
         PROVE  ReadsHold' /\ OperatorsHold'
    <2>1. PICK c \in Clients :
            /\ RowsOf(s) = {c}
            /\ request' = [request EXCEPT ![o] = [stage |-> "read", client |-> c, session |-> s,
                                             read |-> [None EXCEPT ![s] = rows[c][s]], change |-> change]]
      BY <1>12 DEF GetRunSession
    <2>2. rows' = rows /\ rows[c][s] # NoRow
      BY <1>12, <2>1 DEF GetRunSession, RowsOf
    <2>3. request'[o].client = c /\ request'[o].session = s /\ request'[o].read[s] = rows[c][s]
      BY <1>1, <2>1, RequestKinds DEF None
    <2>4. \A t \in Requests : t # o => request'[t] = request[t]
      BY <1>1, <2>1
    <2>5. \A t \in Lockers : request'[t] = request[t]
      BY <2>4, RequestKinds
    <2>6. ReadsHold'
      BY <1>3, <2>5 DEF ReadsHold
    <2>7. Same(request'[o].read[request'[o].session], rows'[request'[o].client][request'[o].session])
      BY <2>2, <2>3 DEF Same
    <2>8. \A q \in Operators : q # o => request'[q] = request[q]
      BY <2>4, RequestKinds
    <2>9. OperatorsHold'
      BY <1>4, <2>7, <2>8 DEF OperatorsHold
    <2> QED
      BY <2>6, <2>9
  <1>13. ReadsHold' /\ OperatorsHold'
    BY <1>6, <1>7, <1>9, <1>10, <1>11, <1>12, Steps DEF Begins
  <1> QED
    BY <1>2, <1>13

LEMMA RequestTypes ==
  ASSUME IInv, [Next]_vars
  PROVE  request' \in [Requests -> Transactions]
  <1>1. /\ request \in [Requests -> Transactions] /\ RowTypes
        /\ \A t \in Requests : request[t].client \in Clients /\ request[t].read \in [Sessions -> Rows]
    BY Requested
  <1>2. CASE Ends \/ Writes
    BY <1>1, <1>2, Ending, Kinds
  <1>3. CASE Ages \/ Others
    BY <1>1, <1>3
    DEF Ages, Expire, CleanupRemoves, Others, vars, api, CreateOverride, CleanupReads, Crash
  <1>4. ASSUME NEW p \in Polls, NEW s \in Sessions, SyncStatus(p, s) PROVE request' \in [Requests -> Transactions]
    <2>1. Current \in Clients
      BY DEF Current, Clients
    <2>2. rows[Current] \in [Sessions -> Rows]
      BY <1>1, <2>1 DEF RowTypes
    <2>3. [Free EXCEPT !.stage = "read", !.client = Current, !.session = s, !.read = rows[Current]] \in Transactions
      BY <2>1, <2>2, Kinds DEF Transactions
    <2> QED
      BY <1>1, <1>4, <2>3 DEF SyncStatus
  <1>5. ASSUME NEW u \in Updates, NEW c \in Clients, UpdateClient(u, c) PROVE request' \in [Requests -> Transactions]
    <2>1. [Free EXCEPT !.stage = "updated", !.client = c] \in Transactions
      BY Kinds DEF Transactions
    <2> QED
      BY <1>1, <1>5, <2>1 DEF UpdateClient
  <1>6. ASSUME NEW u \in Updates, MarkRestartRequired(u) PROVE request' \in [Requests -> Transactions]
    <2>1. request[u] \in Transactions /\ rows[request[u].client] \in [Sessions -> Rows]
      BY <1>1, RequestKinds DEF RowTypes
    <2>2. [request[u] EXCEPT !.stage = "read", !.read = rows[request[u].client]] \in Transactions
      BY <2>1 DEF Transactions
    <2> QED
      BY <1>1, <1>6, <2>2 DEF MarkRestartRequired
  <1>7. ASSUME NEW o \in Operators, NEW s \in Sessions, NEW change \in Changes, GetRunSession(o, s, change)
        PROVE  request' \in [Requests -> Transactions]
    <2>1. PICK c \in Clients :
            request' = [request EXCEPT ![o] = [stage |-> "read", client |-> c, session |-> s,
                                             read |-> [None EXCEPT ![s] = rows[c][s]], change |-> change]]
      BY <1>7 DEF GetRunSession
    <2>2. [None EXCEPT ![s] = rows[c][s]] \in [Sessions -> Rows]
      BY <1>1, Kinds DEF RowTypes
    <2>3. [stage |-> "read", client |-> c, session |-> s,
           read |-> [None EXCEPT ![s] = rows[c][s]], change |-> change] \in Transactions
      BY <2>2 DEF Transactions
    <2> QED
      BY <1>1, <2>1, <2>3
  <1> QED
    BY <1>2, <1>3, <1>4, <1>5, <1>6, <1>7, Steps DEF Begins

\* The rounds of the cleanups: what one removes is gone for the others.
FoundIsThere == \A w \in Cleanups : \A f \in cleanup[w].found \ cleanup[w].gone : rows[f[1]][f[2]] # NoRow

LEMMA RoundsKept ==
  ASSUME IInv, [Next]_vars
  PROVE  cleanup' \in [Cleanups -> Rounds] /\ FoundIsThere'
  <1>1. cleanup \in [Cleanups -> Rounds] /\ FoundIsThere /\ RowTypes
    BY Requested DEF IInv, TypeOK, FoundIsThere
  <1>2. ASSUME cleanup' = cleanup, Kept
        PROVE  cleanup' \in [Cleanups -> Rounds] /\ FoundIsThere'
    BY <1>1, <1>2 DEF FoundIsThere, Kept, Rounds
  <1>3. CASE Begins
    BY <1>2, <1>3 DEF Begins, SyncStatus, GetRunSession, UpdateClient, MarkRestartRequired, Kept
  <1>4. CASE Ends
    BY <1>2, <1>4 DEF Ends, PollIsStale, PollUndone, EndDeadlock, Rollback, Kept
  <1>5. CASE Writes
    <2>1. Kept
      BY <1>5, PollWrites, OperatorWrites, UpdateWrites DEF Writes
    <2> QED
      BY <1>2, <1>5, <2>1 DEF Writes, PollCommits, OperatorCommits, UpdateCommits
  <1>6. ASSUME NEW c \in Clients, NEW s \in Sessions, Expire(c, s)
        PROVE  cleanup' \in [Cleanups -> Rounds] /\ FoundIsThere'
    BY <1>2, <1>6, ExpireWrites DEF Expire
  <1>7. ASSUME NEW c \in Clients, NEW s \in Sessions, NEW w \in Cleanups, CleanupRemoves(w, c, s)
        PROVE  cleanup' \in [Cleanups -> Rounds] /\ FoundIsThere'
    <2> DEFINE fails == cleanup[w].failing \/ <<c, s>> \in cleanup[w].gone
               rest  == cleanup[w].found \ {<<c, s>>}
               next(x) == IF x = w THEN IF rest = {} THEN Done ELSE [cleanup[w] EXCEPT !.found = rest, !.failing = fails]
                          ELSE IF ~fails /\ <<c, s>> \in cleanup[x].found
                          THEN [cleanup[x] EXCEPT !.gone = @ \cup {<<c, s>>}]
                          ELSE cleanup[x]
    <2>1. cleanup' = [x \in Cleanups |-> next(x)]
      BY <1>7 DEF CleanupRemoves
    <2>2. rows' = IF fails THEN rows ELSE [rows EXCEPT ![c][s] = NoRow]
      BY <1>7 DEF CleanupRemoves
    <2>3. PICK b \in BOOLEAN : b = fails
      BY <1>1 DEF Rounds
    <2>4. \A x \in Cleanups : cleanup[x] \in Rounds
      BY <1>1
    <2>5. ASSUME NEW x \in Cleanups
          PROVE  /\ next(x) \in Rounds
                 /\ next(x).found \subseteq cleanup[x].found
                 /\ cleanup[x].gone \subseteq next(x).gone \/ next(x).found = {}
                 /\ ~fails => <<c, s>> \notin next(x).found \/ <<c, s>> \in next(x).gone
      <3>1. cleanup[x] \in Rounds /\ <<c, s>> \in Clients \X Sessions
        BY <2>4
      <3>2. CASE x = w /\ rest = {}
        BY <3>2, Kinds DEF Done
      <3>3. CASE x = w /\ rest # {}
        <4>1. next(x) = [cleanup[x] EXCEPT !.found = rest, !.failing = b]
          BY <3>3, <2>3
        <4> QED
          BY <3>1, <3>3, <4>1 DEF Rounds
      <3>4. CASE x # w /\ ~fails /\ <<c, s>> \in cleanup[x].found
        <4>1. next(x) = [cleanup[x] EXCEPT !.gone = cleanup[x].gone \cup {<<c, s>>}]
          BY <3>4
        <4> QED
          BY <3>1, <4>1 DEF Rounds
      <3>5. CASE x # w /\ ~(~fails /\ <<c, s>> \in cleanup[x].found)
        BY <3>1, <3>5
      <3> QED
        BY <3>2, <3>3, <3>4, <3>5
    <2> HIDE DEF next
    <2>6. cleanup' \in [Cleanups -> Rounds]
      BY <2>1, <2>5
    <2>7. ASSUME NEW x \in Cleanups, NEW f \in cleanup'[x].found \ cleanup'[x].gone
          PROVE  rows'[f[1]][f[2]] # NoRow
      <3>1. cleanup'[x] = next(x) /\ cleanup[x] \in Rounds
        BY <2>1, <2>4
      <3>2. f \in cleanup[x].found \ cleanup[x].gone
        BY <2>5, <2>7, <3>1
      <3>3. f \in Clients \X Sessions /\ rows[f[1]][f[2]] # NoRow
        BY <1>1, <3>1, <3>2 DEF Rounds, FoundIsThere
      <3>4. CASE fails
        BY <2>2, <3>3, <3>4
      <3>5. CASE ~fails
        <4>1. f # <<c, s>>
          BY <2>5, <2>7, <3>1, <3>5
        <4>2. f[1] # c \/ f[2] # s
          BY <3>3, <4>1
        <4> QED
          BY <1>1, <2>2, <3>3, <3>5, <4>2 DEF RowTypes
      <3> QED
        BY <3>4, <3>5
    <2> QED
      BY <2>6, <2>7 DEF FoundIsThere
  <1>8. ASSUME NEW w \in Cleanups, CleanupReads(w)
        PROVE  cleanup' \in [Cleanups -> Rounds] /\ FoundIsThere'
    <2> DEFINE found == UNION {{c} \X Expired(c) : c \in Clients}
    <2>1. cleanup' = [cleanup EXCEPT ![w] = [Done EXCEPT !.found = found]] /\ rows' = rows
      BY <1>8 DEF CleanupReads
    <2>2. \A f \in found : f \in Clients \X Sessions /\ rows[f[1]][f[2]] # NoRow
      BY DEF Expired
    <2> HIDE DEF found
    <2>3. [Done EXCEPT !.found = found] \in Rounds /\ [Done EXCEPT !.found = found].found = found
      BY <2>2 DEF Done, Rounds
    <2>4. cleanup' \in [Cleanups -> Rounds]
      BY <1>1, <2>1, <2>3
    <2>5. FoundIsThere'
      BY <1>1, <2>1, <2>2, <2>3 DEF FoundIsThere
    <2> QED
      BY <2>4, <2>5
  <1>9. CASE Others
    BY <1>2, <1>8, <1>9 DEF Others, vars, api, CreateOverride, Crash, Kept
  <1> QED
    BY <1>3, <1>4, <1>5, <1>6, <1>7, <1>9, Steps DEF Ages

CountTypes == count \in [cleared : 0..MaxCleared, faults : 0..MaxFaults]

LEMMA CountsKept ==
  ASSUME IInv, [Next]_vars
  PROVE  CountTypes'
  <1>1. CountTypes /\ MaxCleared \in Nat /\ MaxFaults \in Nat
    BY BoundsAssumption DEF IInv, TypeOK, CountTypes
  <1>2. CASE UNCHANGED count
    BY <1>1, <1>2 DEF CountTypes
  <1>3. ASSUME Fault PROVE CountTypes'
    <2>1. count' = [count EXCEPT !.faults = count.faults + 1] /\ count.faults < MaxFaults
      BY <1>3 DEF Fault, Counted
    <2>2. count.faults \in 0..MaxFaults
      BY <1>1 DEF CountTypes
    <2>3. count.faults + 1 \in 0..MaxFaults
      BY <1>1, <2>1, <2>2
    <2> QED
      BY <1>1, <2>1, <2>3 DEF CountTypes
  <1>4. ASSUME Counted("cleared", MaxCleared) PROVE CountTypes'
    <2>1. count' = [count EXCEPT !.cleared = count.cleared + 1] /\ count.cleared < MaxCleared
      BY <1>4 DEF Counted
    <2>2. count.cleared \in 0..MaxCleared
      BY <1>1 DEF CountTypes
    <2>3. count.cleared + 1 \in 0..MaxCleared
      BY <1>1, <2>1, <2>2
    <2> QED
      BY <1>1, <2>1, <2>3 DEF CountTypes
  <1>5. CASE Begins
    BY <1>2, <1>5 DEF Begins, SyncStatus, GetRunSession, UpdateClient, MarkRestartRequired
  <1>6. CASE Ends
    BY <1>2, <1>3, <1>6 DEF Ends, PollIsStale, PollUndone, EndDeadlock, Rollback
  <1>7. CASE Writes
    <2>1. UNCHANGED count \/ Fault \/ Counted("cleared", MaxCleared)
      BY <1>7 DEF Writes, PollCommits, OperatorCommits, UpdateCommits, Handled
    <2> QED
      BY <1>2, <1>3, <1>4, <2>1
  <1>8. CASE Ages
    BY <1>2, <1>3, <1>8 DEF Ages, Expire, CleanupRemoves
  <1>9. CASE Others
    BY <1>2, <1>3, <1>9 DEF Others, vars, CreateOverride, CleanupReads, Crash
  <1> QED
    BY <1>5, <1>6, <1>7, <1>8, <1>9, Steps

OtherTypes == override \in BOOLEAN /\ alive \subseteq Sessions /\ asked \subseteq Operators \cup Updates

LEMMA OthersKept ==
  ASSUME IInv, [Next]_vars
  PROVE  OtherTypes'
  <1>1. OtherTypes
    BY DEF IInv, TypeOK, OtherTypes
  <1>2. CASE Begins
    BY <1>1, <1>2 DEF Begins, SyncStatus, GetRunSession, UpdateClient, MarkRestartRequired, OtherTypes
  <1>3. CASE Ends
    BY <1>1, <1>3 DEF Ends, PollIsStale, PollUndone, EndDeadlock, Rollback, OtherTypes
  <1>4. CASE Writes
    BY <1>1, <1>4 DEF Writes, PollCommits, OperatorCommits, UpdateCommits, Handled, OtherTypes
  <1>5. CASE Ages
    BY <1>1, <1>5 DEF Ages, Expire, CleanupRemoves, OtherTypes
  <1>6. CASE Others
    BY <1>1, <1>6 DEF Others, vars, api, CreateOverride, CleanupReads, Crash, OtherTypes
  <1> QED
    BY <1>2, <1>3, <1>4, <1>5, <1>6, Steps

LEMMA Inductive == IInv /\ [Next]_vars => IInv'
  <1> SUFFICES ASSUME IInv, [Next]_vars PROVE IInv'
    OBVIOUS
  <1>1. RowTypes'
    BY RowsWritten DEF WrittenWell
  <1>2. TypeOK'
    BY <1>1, RequestTypes, RoundsKept, CountsKept, OthersKept
    DEF TypeOK, RowTypes, FoundIsThere, CountTypes, OtherTypes
  <1> QED
    BY <1>2, LocksKept, ReadsKept DEF IInv

LEMMA Invariance == Spec => []IInv
  BY Initially, Inductive, PTL DEF Spec
-----------------------------------------------------------------------------
\* Every variable holds values of its kind, and what a cleanup has found is in the table
\* until this or another instance of SessionCleanupWorker removes it: no poll, no
\* operator's request and no update ever removes a row.
THEOREM TypesOfRunSessions == Spec => []TypeOK
  BY Invariance, PTL DEF IInv

\* Whatever the number of processes, polls and API instances, SyncStatus never inserts a
\* second row of a session: GetClient locks the client's row before its sessions are read.
THEOREM OneRowOfEachSession == Spec => []OneRowPerClient
  <1>1. IInv => OneRowPerClient
    BY DEF IInv, Single, OneRowPerClient
  <1> QED
    BY <1>1, Invariance, PTL

\* Whatever the number of requests, RestartRequired of a row stays until the row is removed;
\* what RequestRestart and SetLiveReload set stays until an operator asks otherwise or a
\* poll or an update that had read the row before writes back what it read.
THEOREM OperatorsChangesStand == Spec => ChangesStand
  <1>1. IInv /\ [Next]_vars => \A c \in Clients, s \in Sessions : Stands(c, s)
    <2> SUFFICES ASSUME IInv, [Next]_vars, NEW c \in Clients, NEW s \in Sessions PROVE Stands(c, s)
      OBVIOUS
    <2>1. CASE rows'[c][s] = rows[c][s]
      BY <2>1 DEF Stands
    <2>2. CASE rows'[c][s] # rows[c][s]
      BY <2>2, RowsWritten DEF WrittenWell
    <2> QED
      BY <2>1, <2>2
  <1> QED
    BY <1>1, Invariance, PTL DEF Spec, ChangesStand, Stands
=============================================================================
