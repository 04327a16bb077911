------------------------- MODULE SecretMigrationProofs -------------------------
(***************************************************************************)
(* Proofs about SecretMigration, for any hosts, clients, values and        *)
(* migrations.  What is encrypted with the old secret, and not noted in    *)
(* late, is Unmigrated: from the first migration on it only shrinks, and   *)
(* each stage of a migration bounds it.  As long as no migration has met   *)
(* another there is one row, and one migration at most (Alone).            *)
(***************************************************************************)
EXTENDS SecretMigration, FiniteSetTheorems, TLAPS

Unmigrated == EncryptedWithOld \ late

\* A host that is up has the secret it was started with, and its row says so.
HostsKnown ==
    \A h \in Hosts :
        /\ Up(h) => /\ started[h] \in Secrets
                    /\ row[h].reports > 0 => row[h].active /\ row[h].secret = started[h]
        /\ row[h].active => row[h].secret \in Secrets
        /\ config[h] = "none" => row[h] = NoRow /\ seenHashes[h] = None

\* A host has told of its status, and then found nobody with another secret.
Clear(h) ==
    /\ row[h].reports > 0
    /\ \/ seenHashes[h] # None /\ Agrees(h)
       \/ row[h].reports = 2 /\ ~row[h].error

\* Of two hosts with different secrets the one that tells later finds the other.
DifferencesFound ==
    \A g, h \in Hosts : Up(g) /\ Up(h) /\ Clear(g) /\ Clear(h) => started[g] = started[h]

\* A migration runs where both secrets are, or were, and not before it was asked for.
RunsHosted ==
    /\ \A m \in Migrations : run[m].stage \in Running \cup {"starting"} =>
          m <= time /\ time > 0 /\ run[m].host \in Hosts /\ config[run[m].host] \in {"both", "new"}
    /\ DOMAIN state # {} => time > 0
    /\ \A h \in Hosts : config[h] = "new" => time > 0
    /\ (\E m \in Migrations : run[m].stage \in Running) => DOMAIN state # {}

\* What a step has read is a status there was.
ReadsAreTrue ==
    \A m \in Migrations : run[m].stage \in Running /\ run[m].read # NoRead =>
        /\ run[m].read.status \in States
        /\ run[m].read.status = "MigrationCompleted" => Unmigrated = {}

\* How far a migration is, and what of the data is left.
Progress ==
    /\ \A y \in Unmigrated \cap History : history[y].at = 0
    /\ \A m \in Migrations :
         /\ run[m].stage = "saving" => Unmigrated \cap Clients \subseteq run[m].loaded
         /\ run[m].stage \in {"history", "completing"} => Unmigrated \cap Clients = {}
         /\ run[m].stage = "completing" => Unmigrated = {}

\* Migrations as long as none has met another.
Alone ==
    met = {} =>
        /\ \A k, l \in DOMAIN state : k = l
        /\ \A m, n \in Migrations : run[m].stage \in Running /\ run[n].stage \in Running => m = n
        /\ \A m \in Migrations : run[m].stage \in Running =>
              /\ Starting = {}
              /\ \A k \in DOMAIN state : state[k] = "MigrationInProgress"
              /\ run[m].read # NoRead => run[m].read.status = "MigrationInProgress"
        /\ \A m \in Starting :
              IF run[m].read.row = None THEN DOMAIN state = {} ELSE run[m].read.row \in DOMAIN state

IInv ==
    /\ TypeOK /\ HostsKnown /\ DifferencesFound /\ RunsHosted
    /\ ReadsAreTrue /\ Progress /\ StaysReadable /\ Alone /\ LockedOutOnlyIfAbandoned
-----------------------------------------------------------------------------
LEMMA BoundsAreNaturals == {MaxHosts, MaxMigrations, MaxWrites, MaxFaults} \subseteq Nat
  BY BoundsAssumption

LEMMA NoRunOfNone ==
  /\ NoRead \in Reads /\ AtStage("idle") \in Runs /\ AtStage("ended") \in Runs
  /\ None \notin Hosts /\ None \notin Migrations /\ None \notin Secrets
  BY NoneAssumption, BoundsAreNaturals
  DEF NoRead, Reads, AtStage, Runs, Hosts, Migrations, Secrets

LEMMA Initially == Init => IInv
  <1> SUFFICES ASSUME Init PROVE IInv
    OBVIOUS
  <1> USE DEF Init
  <1>1. TypeOK
    <2>1. NoRow \in [secret : Secrets \cup {None}, error : BOOLEAN, active : BOOLEAN, reports : 0..2]
      BY DEF NoRow
    <2>2. history \in [History -> [secret : Secrets \cup {None}, at : Nat]]
      BY DEF Secrets
    <2>3. run \in [Migrations -> Runs]
      BY NoRunOfNone
    <2>4. client \in [Clients -> Secrets]
      BY DEF Secrets
    <2>5. /\ config \in [Hosts -> {"none", "old", "both", "new", "gone"}]
          /\ started \in [Hosts -> Secrets \cup {None}]
          /\ seenHashes \in [Hosts -> (SUBSET Secrets) \cup {None}]
      OBVIOUS
    <2>6. time \in 0..MaxMigrations /\ writes \in 0..MaxWrites /\ faults \in 0..MaxFaults
      BY BoundsAreNaturals
    <2>7. DOMAIN state = {}
      OBVIOUS
    <2> QED
      BY <2>1, <2>2, <2>3, <2>4, <2>5, <2>6, <2>7 DEF TypeOK
  <1>2. HostsKnown /\ DifferencesFound
    BY DEF HostsKnown, DifferencesFound, Up, NoRow
  <1>3. /\ \A m \in Migrations : run[m].stage = "idle"
        /\ DOMAIN state = {} /\ Unmigrated \cap History \subseteq History
        /\ \A y \in History : history[y].at = 0
    BY DEF AtStage
  <1>4. RunsHosted /\ ReadsAreTrue /\ Progress /\ StaysReadable
    BY <1>3 DEF RunsHosted, Running, ReadsAreTrue, Progress, StaysReadable
  <1>5. Alone /\ LockedOutOnlyIfAbandoned
    BY <1>3 DEF Alone, Running, Starting, LockedOutOnlyIfAbandoned
  <1> QED
    BY <1>1, <1>2, <1>4, <1>5 DEF IInv

\* A step of a host, or of a migration.
HostStep(h) == Start(h) \/ Reload(h) \/ RemovePreviousSecret(h) \/ Crash(h) \/ ReadStatus(h) \/ UpdateStatus(h)

LEMMA Steps ==
  ASSUME [Next]_vars
  PROVE  \/ UNCHANGED vars
         \/ \E h \in Hosts : HostStep(h)
         \/ \E h \in Hosts, c \in Clients, y \in History : UpdateSettingValue(h, c, y)
         \/ \E m \in Migrations, h \in Hosts : PerformMigration(m, h)
         \/ \E m \in Migrations : Step(m)
  BY DEF Next, HostStep

LEMMA HostTypes ==
  ASSUME IInv, NEW h \in Hosts, HostStep(h)
  PROVE  TypeOK'
  <1> USE BoundsAreNaturals DEF IInv, TypeOK, hostVars, dataVars
  <1>1. CASE Start(h) \/ Reload(h) \/ RemovePreviousSecret(h)
    BY <1>1 DEF Start, Reload, RemovePreviousSecret, Secrets
  <1>2. CASE Crash(h)
    BY <1>2, NoRunOfNone DEF Crash, Fault
  <1>3. CASE ReadStatus(h)
    <2>1. ActiveHashes \in SUBSET Secrets
      BY DEF ActiveHashes, HostsKnown
    <2> QED
      BY <1>3, <2>1 DEF ReadStatus
  <1>4. CASE UpdateStatus(h)
    <2> DEFINE R == [secret : Secrets \cup {None}, error : BOOLEAN, active : BOOLEAN, reports : 0..2]
    <2>1. \A g \in Hosts : [row[g] EXCEPT !.active = FALSE] \in R
      OBVIOUS
    <2>2. [secret |-> started[h], error |-> ~Agrees(h), active |-> TRUE,
           reports |-> IF row[h].reports = 0 THEN 1 ELSE 2] \in R
      BY DEF Agrees
    <2>3. row' \in [Hosts -> R]
      BY <1>4, <2>1, <2>2 DEF UpdateStatus
    <2> QED
      BY <1>4, <2>3 DEF UpdateStatus
  <1> QED
    BY <1>1, <1>2, <1>3, <1>4 DEF HostStep

LEMMA WriteTypes ==
  ASSUME IInv, NEW h \in Hosts, NEW c \in Clients, NEW y \in History, UpdateSettingValue(h, c, y)
  PROVE  TypeOK'
  <1> USE BoundsAreNaturals DEF IInv, TypeOK, hostVars
  <1>1. Secret(h) \in Secrets
    BY DEF Secret, Secrets
  <1>2. [secret |-> Secret(h), at |-> time] \in [secret : Secrets \cup {None}, at : Nat]
    BY <1>1
  <1>3. late' \subseteq Clients \cup History
    BY DEF UpdateSettingValue
  <1> QED
    BY <1>1, <1>2, <1>3 DEF UpdateSettingValue

LEMMA TheRowIsOne ==
  ASSUME IInv
  PROVE  /\ TheRow \in Migrations \cup {None}
         /\ DOMAIN state = {} => TheRow = None
         /\ DOMAIN state # {} => TheRow \in DOMAIN state /\ state[TheRow] \in States
         /\ Unique => \A k \in DOMAIN state : k = TheRow
  <1>1. IsFiniteSet(DOMAIN state)
    <2>1. IsFiniteSet(Migrations)
      BY FS_Interval, BoundsAreNaturals DEF Migrations
    <2> QED
      BY <2>1, FS_Subset DEF IInv, TypeOK
  <1>2. DOMAIN state # {} => TheRow \in DOMAIN state
    BY DEF TheRow
  <1>3. ASSUME Unique, DOMAIN state # {} PROVE \A k \in DOMAIN state : k = TheRow
    <2>1. Cardinality(DOMAIN state) \in Nat /\ Cardinality(DOMAIN state) # 0
      BY <1>1, <1>3, FS_CardinalityType, FS_EmptySet
    <2>2. Cardinality(DOMAIN state) = 1
      BY <1>3, <2>1 DEF Unique
    <2>3. PICK k : DOMAIN state = {k}
      BY <1>1, <2>2, FS_Singleton
    <2> QED
      BY <1>2, <2>3
  <1> QED
    BY <1>2, <1>3 DEF IInv, TypeOK, TheRow

LEMMA MigrationTypes ==
  ASSUME IInv, NEW m \in Migrations, Step(m)
  PROVE  TypeOK'
  <1> USE BoundsAreNaturals DEF IInv, TypeOK, hostVars, dataVars
  <1> DEFINE StateTyped == DOMAIN state' \subseteq Migrations /\ \A k \in DOMAIN state' : state'[k] \in States
  <1>r. run[m] \in Runs /\ NoRead \in Reads /\ AtStage("ended") \in Runs
    BY NoRunOfNone
  <1>s. ASSUME NEW k, NEW status \in States, WriteState(k, status) PROVE StateTyped
    BY <1>s DEF WriteState
  <1>w. ASSUME run[m].stage \in Running, WritesBack(m) PROVE StateTyped
    <2>1. run[m].read.status \in States
      BY <1>w DEF ReadsAreTrue, WritesBack
    <2> QED
      BY <1>s, <1>w, <2>1 DEF WritesBack
  <1>x. ASSUME NEW s \in {"idle", "starting", "ended"} \cup Running
        PROVE  [run[m] EXCEPT !.stage = s, !.read = NoRead] \in Runs
    BY <1>r DEF Runs
  <1>1. CASE MarkMigrationStarted(m)
    <2>1. StateTyped
      BY <1>1, <1>r DEF MarkMigrationStarted, States, Runs, Reads
    <2>2. run' = [run EXCEPT ![m] = [run[m] EXCEPT !.stage = "started", !.read = NoRead]]
      BY <1>1 DEF MarkMigrationStarted
    <2>3. met' \subseteq Migrations
      BY <1>1 DEF MarkMigrationStarted, Starting
    <2>4. run' \in [Migrations -> Runs]
      BY <1>x, <2>2 DEF Running
    <2> QED
      BY <1>1, <2>1, <2>3, <2>4 DEF MarkMigrationStarted
  <1>2. CASE GetSnapshot(m)
    <2>1. [run[m] EXCEPT !.stage = "begun"] \in Runs
      BY <1>r DEF Runs, Running
    <2> QED
      BY <1>2, <1>r, <2>1 DEF GetSnapshot
  <1>3. CASE ReadState(m)
    <2>1. TheRow \in Migrations \cup {None} /\ StatusRead(TheRow) \in States
      BY <1>3, TheRowIsOne DEF ReadState, StatusRead, RunsHosted
    <2>2. [run[m] EXCEPT !.read = [row |-> TheRow, status |-> StatusRead(TheRow)]] \in Runs
      BY <1>r, <2>1 DEF Runs, Reads
    <2> QED
      BY <1>3, <2>2 DEF ReadState
  <1>4. CASE InitializeMigrationProgress(m)
    <2>1. run' = [run EXCEPT ![m] = [run[m] EXCEPT !.stage = "loading", !.read = NoRead]]
      BY <1>4 DEF InitializeMigrationProgress
    <2>2. StateTyped
      BY <1>4, <1>w DEF InitializeMigrationProgress, Running
    <2> QED
      BY <1>4, <1>x, <2>1, <2>2 DEF InitializeMigrationProgress, Running
  <1>5. CASE LoadClients(m)
    <2>1. run' = [run EXCEPT ![m] = [run[m] EXCEPT !.stage = "saving", !.read = NoRead, !.loaded = Clients]]
      BY <1>5 DEF LoadClients
    <2>2. [run[m] EXCEPT !.stage = "saving", !.read = NoRead, !.loaded = Clients] \in Runs
      BY <1>r DEF Runs, Running
    <2>3. StateTyped
      BY <1>5, <1>w DEF LoadClients, Running
    <2> QED
      BY <1>5, <2>1, <2>2, <2>3 DEF LoadClients
  <1>6. ASSUME NEW c \in Clients, SaveClient(m, c) PROVE TypeOK'
    <2>1. PICK s \in {"saving", "history"} :
             run' = [run EXCEPT ![m] = [run[m] EXCEPT !.stage = s, !.read = NoRead, !.loaded = Remaining(m, c)]]
      BY <1>6 DEF SaveClient
    <2>2. [run[m] EXCEPT !.stage = s, !.read = NoRead, !.loaded = Remaining(m, c)] \in Runs
      BY <1>r, <2>1 DEF Runs, Running, Remaining
    <2>3. StateTyped
      BY <1>6, <1>w DEF SaveClient, Running
    <2>4. client' \in [Clients -> Secrets]
      BY <1>6 DEF SaveClient, Secret, Secrets
    <2>5. run' \in [Migrations -> Runs]
      BY <2>1, <2>2
    <2>6. late' \subseteq Clients \cup History
      BY <1>6 DEF SaveClient
    <2> QED
      BY <1>6, <2>3, <2>4, <2>5, <2>6 DEF SaveClient
  <1>7. CASE MigrateHistory(m)
    <2>1. StateTyped
      BY <1>7, <1>w DEF MigrateHistory, Running
    <2>2. CASE EncryptedBefore(m) = {}
      <3>1. run' = [run EXCEPT ![m] = [run[m] EXCEPT !.stage = "completing", !.read = NoRead]]
        BY <1>7, <2>2 DEF MigrateHistory
      <3> QED
        BY <1>7, <1>x, <2>1, <2>2, <3>1 DEF MigrateHistory, Running
    <2>3. CASE EncryptedBefore(m) # {}
      <3>1. [run[m] EXCEPT !.read = NoRead] \in Runs
        BY <1>r DEF Runs
      <3>2. Secret(run[m].host) \in Secrets
        BY DEF Secret, Secrets
      <3>3. [secret |-> Secret(run[m].host), at |-> time] \in [secret : Secrets \cup {None}, at : Nat]
        BY <3>2
      <3> QED
        BY <1>7, <2>1, <2>3, <3>1, <3>3 DEF MigrateHistory, EncryptedAt, EncryptedBefore
    <2> QED
      BY <2>2, <2>3
  <1>8. CASE MarkMigrationCompleted(m)
    <2>1. StateTyped
      BY <1>8, <1>s DEF MarkMigrationCompleted, States
    <2> QED
      BY <1>8, <1>r, <2>1 DEF MarkMigrationCompleted
  <1>9. CASE Fail(m)
    <2>1. StateTyped
      BY <1>9, <1>s DEF Fail, States
    <2>2. faults' \in 0..MaxFaults /\ abandoned' \in BOOLEAN
      BY <1>9 DEF Fail, Fault
    <2> QED
      BY <1>9, <1>r, <2>1, <2>2 DEF Fail
  <1> QED
    BY <1>1, <1>2, <1>3, <1>4, <1>5, <1>6, <1>7, <1>8, <1>9 DEF Step

LEMMA TypesKept ==
  ASSUME IInv, [Next]_vars
  PROVE  TypeOK'
  <1>1. ASSUME UNCHANGED vars PROVE TypeOK'
    BY <1>1 DEF IInv, TypeOK, vars, hostVars, dataVars
  <1>2. ASSUME NEW m \in Migrations, NEW h \in Hosts, PerformMigration(m, h) PROVE TypeOK'
    <2> USE BoundsAreNaturals DEF IInv, TypeOK, hostVars, dataVars
    <2>1. [[AtStage("starting") EXCEPT !.host = h, !.date = time] EXCEPT !.read.row = TheRow] \in Runs
      BY TheRowIsOne DEF AtStage, Runs, NoRead, Reads
    <2>2. run' \in [Migrations -> Runs]
      BY <1>2, <2>1, NoRunOfNone DEF PerformMigration
    <2>3. time' \in 0..MaxMigrations
      BY <1>2 DEF PerformMigration, Migrations
    <2> QED
      BY <1>2, <2>2, <2>3 DEF PerformMigration
  <1> QED
    BY <1>1, <1>2, HostTypes, WriteTypes, MigrationTypes, Steps

\* Only steps of hosts change the hosts.
LEMMA HostsAlone ==
  ASSUME [Next]_vars
  PROVE  (\E h \in Hosts : HostStep(h)) \/ UNCHANGED hostVars
  <1>1. ASSUME NEW m \in Migrations, Step(m) PROVE UNCHANGED hostVars
    BY <1>1 DEF Step, MarkMigrationStarted, GetSnapshot, ReadState, InitializeMigrationProgress,
                LoadClients, SaveClient, MigrateHistory, MarkMigrationCompleted, Fail
  <1> QED
    BY <1>1, Steps DEF vars, UpdateSettingValue, PerformMigration

LEMMA HostsKept ==
  ASSUME IInv, [Next]_vars
  PROVE  HostsKnown' /\ DifferencesFound'
  <1>t. /\ config \in [Hosts -> {"none", "old", "both", "new", "gone"}]
        /\ started \in [Hosts -> Secrets \cup {None}]
        /\ seenHashes \in [Hosts -> (SUBSET Secrets) \cup {None}]
        /\ row \in [Hosts -> [secret : Secrets \cup {None}, error : BOOLEAN, active : BOOLEAN, reports : 0..2]]
    BY DEF IInv, TypeOK
  <1>i. HostsKnown /\ DifferencesFound
    BY DEF IInv
  <1>1. CASE UNCHANGED hostVars
    BY <1>1, <1>i DEF hostVars, HostsKnown, DifferencesFound, Up, Clear, Agrees
  <1>2. ASSUME NEW h \in Hosts, Start(h) PROVE HostsKnown' /\ DifferencesFound'
    <2>1. /\ config'[h] \in {"old", "both"} /\ started'[h] \in Secrets
          /\ config[h] = "none" /\ UNCHANGED <<seenHashes, row>>
          /\ \A g \in Hosts : g # h => config'[g] = config[g] /\ started'[g] = started[g]
      BY <1>t, <1>2 DEF Start, Secrets
    <2>0. row[h] = NoRow
      BY <1>i, <2>1 DEF HostsKnown
    <2>2. row[h].reports = 0 /\ ~row[h].active
      BY <2>0 DEF NoRow
    <2>3. HostsKnown'
      BY <1>t, <1>i, <2>1, <2>2 DEF HostsKnown, Up
    <2>4. ~Clear(h)'
      BY <2>1, <2>2 DEF Clear
    <2>5. \A g \in Hosts : g # h => (Clear(g)' => Clear(g)) /\ (Up(g)' => Up(g))
      BY <2>1 DEF Clear, Agrees, Up
    <2> QED
      BY <1>i, <2>1, <2>3, <2>4, <2>5 DEF DifferencesFound
  <1>3. ASSUME NEW h \in Hosts, Reload(h) \/ RemovePreviousSecret(h) PROVE HostsKnown' /\ DifferencesFound'
    <2>1. /\ UNCHANGED <<started, seenHashes, row>>
          /\ \A g \in Hosts : Up(g)' <=> Up(g)
          /\ \A g \in Hosts : config'[g] = "none" => config[g] = "none"
      BY <1>t, <1>3 DEF Reload, RemovePreviousSecret, Up
    <2> QED
      BY <1>i, <2>1 DEF HostsKnown, DifferencesFound, Clear, Agrees
  <1>4. ASSUME NEW h \in Hosts, Crash(h) PROVE HostsKnown' /\ DifferencesFound'
    <2>1. /\ ~Up(h)' /\ config'[h] # "none" /\ row' = row
          /\ \A g \in Hosts : g # h => /\ config'[g] = config[g] /\ started'[g] = started[g]
                                       /\ seenHashes'[g] = seenHashes[g]
      BY <1>t, <1>4 DEF Crash, Up
    <2>2. \A g \in Hosts : g # h => (Clear(g)' => Clear(g)) /\ (Up(g)' => Up(g))
      BY <2>1 DEF Clear, Agrees, Up
    <2> QED
      BY <1>i, <2>1, <2>2 DEF HostsKnown, DifferencesFound
  <1>5. ASSUME NEW h \in Hosts, ReadStatus(h) PROVE HostsKnown' /\ DifferencesFound'
    <2>1. /\ UNCHANGED <<config, started, row>> /\ seenHashes'[h] = ActiveHashes /\ Up(h)
          /\ \A g \in Hosts : g # h => seenHashes'[g] = seenHashes[g]
      BY <1>t, <1>5 DEF ReadStatus
    <2>2. HostsKnown'
      <3>1. \A g \in Hosts : config[g] = "none" => g # h
        BY <2>1 DEF Up
      <3> QED
        BY <1>i, <2>1, <3>1 DEF HostsKnown, Up
    <2>3. \A g \in Hosts : g # h => (Clear(g)' <=> Clear(g))
      BY <2>1 DEF Clear, Agrees
    <2>4. \A g \in Hosts : Up(g)' <=> Up(g)
      BY <2>1 DEF Up
    <2>5. ASSUME NEW g \in Hosts, g # h, Up(g), Clear(g), Clear(h)' PROVE started[g] = started[h]
      <3>1. CASE Clear(h)
        BY <1>i, <2>1, <2>5, <3>1 DEF DifferencesFound
      <3>2. CASE ~Clear(h)
        <4>1. ActiveHashes \subseteq {started[h]}
          BY <2>1, <2>5, <3>2 DEF Clear, Agrees
        <4>2. row[g].active /\ row[g].secret = started[g]
          BY <1>i, <2>5 DEF HostsKnown, Clear
        <4> QED
          BY <4>1, <4>2 DEF ActiveHashes
      <3> QED
        BY <3>1, <3>2
    <2>6. DifferencesFound'
      <3> SUFFICES ASSUME NEW f \in Hosts, NEW g \in Hosts, Up(f)', Up(g)', Clear(f)', Clear(g)'
                   PROVE  started'[f] = started'[g]
        BY DEF DifferencesFound
      <3>1. CASE f # h /\ g # h
        BY <1>i, <2>1, <2>3, <2>4, <3>1 DEF DifferencesFound
      <3>2. CASE f = h \/ g = h
        BY <2>1, <2>3, <2>4, <2>5, <3>2
      <3> QED
        BY <3>1, <3>2
    <2> QED
      BY <2>2, <2>6
  <1>6. ASSUME NEW h \in Hosts, UpdateStatus(h) PROVE HostsKnown' /\ DifferencesFound'
    <2>1. /\ UNCHANGED <<config, started>> /\ Up(h) /\ seenHashes[h] # None /\ seenHashes'[h] = None
          /\ row'[h] = [secret |-> started[h], error |-> ~Agrees(h), active |-> TRUE,
                        reports |-> IF row[h].reports = 0 THEN 1 ELSE 2]
          /\ \A g \in Hosts : g # h => seenHashes'[g] = seenHashes[g]
      BY <1>t, <1>6 DEF UpdateStatus
    <2>2. \A g \in Hosts : g # h =>
             \/ row'[g] = row[g]
             \/ config[g] = "gone" /\ row'[g] = [row[g] EXCEPT !.active = FALSE]
      BY <1>6 DEF UpdateStatus
    <2>3. \A g \in Hosts : Up(g)' <=> Up(g)
      BY <2>1 DEF Up
    <2>4. HostsKnown'
      <3> SUFFICES ASSUME NEW g \in Hosts
                   PROVE  /\ Up(g) => /\ started[g] \in Secrets
                                      /\ row'[g].reports > 0 => row'[g].active /\ row'[g].secret = started[g]
                          /\ row'[g].active => row'[g].secret \in Secrets
                          /\ config[g] = "none" => row'[g] = NoRow /\ seenHashes'[g] = None
        BY <2>1, <2>3 DEF HostsKnown
      <3>1. CASE g = h
        BY <1>i, <2>1, <3>1 DEF HostsKnown, Up
      <3>2. CASE g # h /\ row'[g] = row[g]
        BY <1>i, <2>1, <3>2 DEF HostsKnown
      <3>3. CASE g # h /\ config[g] = "gone" /\ row'[g] = [row[g] EXCEPT !.active = FALSE]
        <4>1. ~row'[g].active
          BY <1>t, <3>3
        <4> QED
          BY <1>i, <3>3, <4>1 DEF HostsKnown, Up
      <3> QED
        BY <2>2, <3>1, <3>2, <3>3
    <2>5. \A g \in Hosts : g # h /\ Up(g) => (Clear(g)' => Clear(g))
      BY <2>1, <2>2 DEF Clear, Agrees, Up
    <2>6. Clear(h)' => Clear(h)
      <3>1. CASE row[h].reports = 0
        BY <2>1, <3>1 DEF Clear
      <3>2. CASE row[h].reports # 0
        <4>1. row[h].reports > 0 /\ row'[h].error = ~Agrees(h)
          BY <1>t, <2>1, <3>2
        <4>2. Agrees(h) \in BOOLEAN
          BY DEF Agrees
        <4> QED
          BY <2>1, <4>1, <4>2 DEF Clear
      <3> QED
        BY <3>1, <3>2
    <2> QED
      BY <1>i, <2>1, <2>3, <2>4, <2>5, <2>6 DEF DifferencesFound
  <1> QED
    BY <1>1, <1>2, <1>3, <1>4, <1>5, <1>6, HostsAlone DEF HostStep

\* From the first migration on, what is encrypted with the old secret and not noted grows no more.
LEMMA Shrinks ==
  ASSUME IInv, [Next]_vars
  PROVE  /\ time > 0 => Unmigrated' \subseteq Unmigrated
         /\ \A y \in Unmigrated' \cap History : history'[y].at = 0
  <1>t. /\ client \in [Clients -> Secrets]
        /\ history \in [History -> [secret : Secrets \cup {None}, at : Nat]]
        /\ time \in Nat /\ late \subseteq Clients \cup History
    BY BoundsAreNaturals DEF IInv, TypeOK
  <1>i. \A y \in Unmigrated \cap History : history[y].at = 0
    BY DEF IInv, Progress
  <1>u. \A x : x \in Unmigrated <=> /\ x \notin late
                                    /\ \/ x \in Clients /\ client[x] = "old"
                                       \/ x \in History /\ history[x].secret = "old"
    BY DEF Unmigrated, EncryptedWithOld
  <1>v. \A x : x \in Unmigrated' <=> /\ x \notin late'
                                     /\ \/ x \in Clients /\ client'[x] = "old"
                                        \/ x \in History /\ history'[x].secret = "old"
    BY DEF Unmigrated, EncryptedWithOld
  <1> DEFINE Goal == /\ time > 0 => Unmigrated' \subseteq Unmigrated
                     /\ \A y \in Unmigrated' \cap History : history'[y].at = 0
  <1>k. ASSUME Unmigrated' \subseteq Unmigrated, \A y \in Unmigrated' \cap History : history'[y] = history[y]
        PROVE  Goal
    BY <1>i, <1>k
  <1>1. ASSUME UNCHANGED dataVars PROVE Goal
    BY <1>1, <1>u, <1>v, <1>k DEF dataVars
  <1>2. ASSUME NEW h \in Hosts, NEW c \in Clients, NEW y \in History, UpdateSettingValue(h, c, y) PROVE Goal
    <2>1. /\ client' = [client EXCEPT ![c] = Secret(h)]
          /\ history' = [history EXCEPT ![y] = [secret |-> Secret(h), at |-> time]]
          /\ late' = IF Secret(h) = "old" /\ time > 0 THEN late \cup {c, y} ELSE late \ {c}
      BY <1>2 DEF UpdateSettingValue
    <2>2. Secret(h) \in {"old", "new"}
      BY DEF Secret
    <2>3. c \notin History /\ y \notin Clients
      BY DataAssumption
    <2>4. \A x \in Unmigrated' : x # c /\ x # y => x \in Unmigrated
      BY <1>t, <1>u, <1>v, <2>1
    <2>5. \A x \in (Unmigrated' \cap History) \ {y} : history'[x] = history[x]
      BY <1>t, <2>1
    <2>6. CASE Secret(h) = "old" /\ time > 0
      <3>1. c \notin Unmigrated' /\ y \notin Unmigrated'
        BY <1>v, <2>1, <2>6
      <3> QED
        BY <1>k, <2>4, <2>5, <3>1
    <2>7. CASE Secret(h) = "new"
      <3>1. c \notin Unmigrated' /\ y \notin Unmigrated'
        BY <1>t, <1>v, <2>1, <2>3, <2>7
      <3> QED
        BY <1>k, <2>4, <2>5, <3>1
    <2>8. CASE ~(time > 0)
      <3>1. time = 0 /\ history'[y].at = 0
        BY <1>t, <2>1, <2>8
      <3> QED
        BY <1>i, <2>3, <2>4, <2>5, <2>8, <3>1
    <2> QED
      BY <2>2, <2>6, <2>7, <2>8
  <1>n. ASSUME NEW m \in Migrations, run[m].stage \in Running PROVE Secret(run[m].host) = "new"
    BY <1>n DEF IInv, RunsHosted, Secret
  <1>3. ASSUME NEW m \in Migrations, NEW c \in Clients, SaveClient(m, c) PROVE Goal
    <2>1. /\ client' = [client EXCEPT ![c] = "new"] /\ late' = late \ {c} /\ history' = history
      BY <1>3, <1>n DEF SaveClient, Running
    <2>2. c \notin History
      BY DataAssumption
    <2>3. Unmigrated' \subseteq Unmigrated
      BY <1>t, <1>u, <1>v, <2>1, <2>2
    <2> QED
      BY <1>k, <2>1, <2>3
  <1>4. ASSUME NEW m \in Migrations, MigrateHistory(m) PROVE Goal
    <2>1. CASE UNCHANGED <<history, late>>
      BY <1>1, <1>4, <2>1 DEF MigrateHistory, dataVars
    <2>2. ASSUME NEW y \in History, client' = client, late' = late \ {y},
                 history' = [history EXCEPT ![y] = [secret |-> "new", at |-> time]]
          PROVE  Goal
      <3>1. y \notin Clients
        BY DataAssumption
      <3>2. Unmigrated' \subseteq Unmigrated /\ y \notin Unmigrated'
        BY <1>t, <1>u, <1>v, <2>2, <3>1
      <3> QED
        BY <1>t, <1>k, <2>2, <3>2
    <2>3. run[m].stage \in Running /\ client' = client
      BY <1>4 DEF MigrateHistory, Running
    <2>4. ASSUME ~UNCHANGED <<history, late>>
          PROVE  \E y \in History : /\ late' = late \ {y}
                                    /\ history' = [history EXCEPT ![y] = [secret |-> "new", at |-> time]]
      BY <1>4, <1>n, <2>3, <2>4 DEF MigrateHistory, EncryptedAt, EncryptedBefore
    <2> QED
      BY <2>1, <2>2, <2>3, <2>4
  <1>5. ASSUME NEW h \in Hosts, HostStep(h) PROVE UNCHANGED dataVars
    BY <1>5 DEF HostStep, Start, Reload, RemovePreviousSecret, Crash, ReadStatus, UpdateStatus
  <1>6. ASSUME NEW m \in Migrations, NEW h \in Hosts, PerformMigration(m, h) PROVE UNCHANGED dataVars
    BY <1>6 DEF PerformMigration
  <1>7. ASSUME NEW m \in Migrations, Step(m)
        PROVE  UNCHANGED dataVars \/ MigrateHistory(m) \/ \E c \in Clients : SaveClient(m, c)
    BY <1>7 DEF Step, MarkMigrationStarted, GetSnapshot, ReadState, InitializeMigrationProgress,
                LoadClients, MarkMigrationCompleted, Fail
  <1>8. UNCHANGED vars => UNCHANGED dataVars
    BY DEF vars
  <1> HIDE DEF Goal
  <1>9. Goal
    BY <1>1, <1>2, <1>3, <1>4, <1>5, <1>6, <1>7, <1>8, Steps
  <1> QED
    BY <1>9 DEF Goal

\* What a step of migration m leaves alone.
LEMMA StepShape ==
  ASSUME IInv, NEW m \in Migrations, Step(m)
  PROVE  /\ UNCHANGED <<config, time>>
         /\ run[m].stage \in Running \cup {"starting"}
         /\ \A n \in Migrations : n # m => run'[n] = run[n]
         /\ run'[m].stage \in Running \cup {"ended"}
         /\ run'[m].stage \in Running => run'[m].host = run[m].host
         /\ DOMAIN state \subseteq DOMAIN state'
         /\ run[m].stage = "starting" => DOMAIN state' # {}
  <1> USE DEF hostVars
  <1>t. run \in [Migrations -> Runs] /\ run[m] \in Runs
    BY DEF IInv, TypeOK
  <1>e. AtStage("ended").stage = "ended" /\ "ended" \notin Running
    BY DEF AtStage, Running
  <1>w. \A k, status : WriteState(k, status) => DOMAIN state' = DOMAIN state
    BY DEF WriteState
  <1>x. ASSUME NEW s, NEW loaded
        PROVE  /\ [run[m] EXCEPT !.stage = s, !.read = NoRead].stage = s
               /\ [run[m] EXCEPT !.stage = s, !.read = NoRead].host = run[m].host
               /\ [run[m] EXCEPT !.stage = s, !.read = NoRead, !.loaded = loaded].stage = s
               /\ [run[m] EXCEPT !.stage = s, !.read = NoRead, !.loaded = loaded].host = run[m].host
    BY <1>t DEF Runs
  <1> DEFINE Goal ==
         /\ UNCHANGED <<config, time>>
         /\ run[m].stage \in Running \cup {"starting"}
         /\ \A n \in Migrations : n # m => run'[n] = run[n]
         /\ run'[m].stage \in Running \cup {"ended"}
         /\ run'[m].stage \in Running => run'[m].host = run[m].host
         /\ DOMAIN state \subseteq DOMAIN state'
         /\ run[m].stage = "starting" => DOMAIN state' # {}
  <1>1. CASE MarkMigrationStarted(m)
    <2>1. run' = [run EXCEPT ![m] = [run[m] EXCEPT !.stage = "started", !.read = NoRead]]
      BY <1>1 DEF MarkMigrationStarted
    <2>2. PICK k : DOMAIN state' = DOMAIN state \cup {k}
      BY <1>1 DEF MarkMigrationStarted
    <2>3. UNCHANGED <<config, time>> /\ run[m].stage = "starting"
      BY <1>1 DEF MarkMigrationStarted, Starting
    <2>4. run'[m].stage = "started" /\ run'[m].host = run[m].host
      BY <1>t, <1>x, <2>1
    <2> QED
      BY <1>t, <2>1, <2>2, <2>3, <2>4 DEF Running
  <1>2. CASE GetSnapshot(m)
    <2>1. /\ [run[m] EXCEPT !.stage = "begun"].stage = "begun"
          /\ [run[m] EXCEPT !.stage = "begun"].host = run[m].host
      BY <1>t DEF Runs
    <2>2. /\ run'[m] = AtStage("ended") \/ run'[m] = [run[m] EXCEPT !.stage = "begun"]
          /\ \A n \in Migrations : n # m => run'[n] = run[n]
      BY <1>t, <1>2 DEF GetSnapshot
    <2>3. UNCHANGED <<config, time, state>> /\ run[m].stage = "started"
      BY <1>2 DEF GetSnapshot
    <2> QED
      BY <1>e, <2>1, <2>2, <2>3 DEF Running
  <1>3. CASE ReadState(m)
    <2>1. PICK r : run' = [run EXCEPT ![m] = [run[m] EXCEPT !.read = r]]
      BY <1>3 DEF ReadState
    <2>2. run'[m].stage = run[m].stage /\ run'[m].host = run[m].host
      BY <1>t, <2>1 DEF Runs
    <2>3. UNCHANGED <<config, time, state>> /\ run[m].stage \in Running /\ run[m].stage # "starting"
      BY <1>3 DEF ReadState, Running
    <2> QED
      BY <1>t, <2>1, <2>2, <2>3
  <1>4. CASE \/ InitializeMigrationProgress(m) \/ LoadClients(m)
             \/ (\E c \in Clients : SaveClient(m, c)) \/ MigrateHistory(m)
    <2>1. /\ UNCHANGED <<config, time>> /\ DOMAIN state' = DOMAIN state
          /\ run[m].stage \in Running /\ run[m].stage # "starting"
      BY <1>4, <1>w DEF InitializeMigrationProgress, LoadClients, SaveClient, MigrateHistory, WritesBack,
                        Running
    <2>2. CASE InitializeMigrationProgress(m)
      <3>1. run' = [run EXCEPT ![m] = [run[m] EXCEPT !.stage = "loading", !.read = NoRead]]
        BY <2>2 DEF InitializeMigrationProgress
      <3> QED
        BY <1>t, <1>x, <2>1, <3>1 DEF Running
    <2>3. CASE LoadClients(m)
      <3>1. run' = [run EXCEPT ![m] = [run[m] EXCEPT !.stage = "saving", !.read = NoRead, !.loaded = Clients]]
        BY <2>3 DEF LoadClients
      <3> QED
        BY <1>t, <1>x, <2>1, <3>1 DEF Running
    <2>4. ASSUME NEW c \in Clients, SaveClient(m, c) PROVE Goal
      <3>1. PICK s \in {"saving", "history"} :
               run' = [run EXCEPT ![m] = [run[m] EXCEPT !.stage = s, !.read = NoRead, !.loaded = Remaining(m, c)]]
        BY <2>4 DEF SaveClient
      <3> QED
        BY <1>t, <1>x, <2>1, <3>1 DEF Running
    <2>5. CASE MigrateHistory(m)
      <3>1. \/ run' = [run EXCEPT ![m] = [run[m] EXCEPT !.stage = "completing", !.read = NoRead]]
            \/ run' = [run EXCEPT ![m] = [run[m] EXCEPT !.read = NoRead]]
        BY <2>5 DEF MigrateHistory
      <3>2. /\ [run[m] EXCEPT !.read = NoRead].stage = run[m].stage
            /\ [run[m] EXCEPT !.read = NoRead].host = run[m].host
        BY <1>t DEF Runs
      <3>3. CASE run' = [run EXCEPT ![m] = [run[m] EXCEPT !.stage = "completing", !.read = NoRead]]
        BY <1>t, <1>x, <2>1, <3>3 DEF Running
      <3>4. CASE run' = [run EXCEPT ![m] = [run[m] EXCEPT !.read = NoRead]]
        BY <1>t, <2>1, <3>2, <3>4
      <3> QED
        BY <3>1, <3>3, <3>4
    <2> QED
      BY <1>4, <2>2, <2>3, <2>4, <2>5
  <1>5. CASE MarkMigrationCompleted(m) \/ Fail(m)
    <2>1. /\ UNCHANGED <<config, time>> /\ DOMAIN state' = DOMAIN state
          /\ run[m].stage \in Running /\ run[m].stage # "starting"
          /\ run' = [run EXCEPT ![m] = AtStage("ended")]
      BY <1>5, <1>w DEF MarkMigrationCompleted, Fail, Running
    <2> QED
      BY <1>t, <1>e, <2>1
  <1> QED
    BY <1>1, <1>2, <1>3, <1>4, <1>5 DEF Step

LEMMA HostedKept ==
  ASSUME IInv, [Next]_vars
  PROVE  RunsHosted'
  <1> USE DEF RunsHosted
  <1>i. RunsHosted
    BY DEF IInv
  <1>t. /\ run \in [Migrations -> Runs] /\ time \in Nat
        /\ config \in [Hosts -> {"none", "old", "both", "new", "gone"}]
    BY BoundsAreNaturals DEF IInv, TypeOK
  <1>e. AtStage("ended").stage \notin Running \cup {"starting"}
    BY DEF AtStage, Running
  <1>1. ASSUME UNCHANGED <<config, time, state, run>> PROVE RunsHosted'
    BY <1>1, <1>i
  <1>2. ASSUME NEW h \in Hosts, HostStep(h) PROVE RunsHosted'
    <2>1. /\ UNCHANGED <<time, state>>
          /\ \A g \in Hosts : config'[g] = "new" => config[g] = "new" \/ DOMAIN state # {}
          /\ \A n \in Migrations : run'[n] = AtStage("ended") \/ run'[n] = run[n]
          /\ \A n \in Migrations :
               run'[n] # AtStage("ended") /\ run[n].host \in Hosts /\ config[run[n].host] \in {"both", "new"}
                  => config'[run[n].host] \in {"both", "new"}
      BY <1>t, <1>2 DEF HostStep, Start, Reload, RemovePreviousSecret, Completed, Crash, ReadStatus, UpdateStatus
    <2> QED
      BY <1>i, <1>e, <2>1
  <1>3. ASSUME NEW m \in Migrations, NEW h \in Hosts, PerformMigration(m, h) PROVE RunsHosted'
    <2>1. /\ UNCHANGED <<config, state>> /\ time' = time + 1 /\ m = time' /\ config[h] = "both"
          /\ \A n \in Migrations : n # m => run'[n] = run[n]
          /\ \/ run'[m] = AtStage("ended")
             \/ run'[m] = [AtStage("starting") EXCEPT !.host = h, !.date = time, !.read.row = TheRow]
      <3>1. /\ UNCHANGED <<config, state>> /\ time' = time + 1 /\ m = time' /\ config[h] = "both"
        BY <1>t, <1>3 DEF PerformMigration, IsRotationConfigured, hostVars
      <3>2. run' = [run EXCEPT ![m] =
                 IF ActiveHostsAgree /\ MayStart
                 THEN [AtStage("starting") EXCEPT !.host = h, !.date = time, !.read.row = TheRow]
                 ELSE AtStage("ended")]
        BY <1>3 DEF PerformMigration
      <3> QED
        BY <1>t, <3>1, <3>2
    <2>2. /\ [AtStage("starting") EXCEPT !.host = h, !.date = time, !.read.row = TheRow].host = h
          /\ [AtStage("starting") EXCEPT !.host = h, !.date = time, !.read.row = TheRow].stage \notin Running
      BY DEF AtStage, Running
    <2>3. run'[m].stage \notin Running
      BY <1>e, <2>1, <2>2
    <2>4. run'[m].stage = "starting" => run'[m].host = h
      BY <1>e, <2>1, <2>2
    <2>5. ASSUME NEW n \in Migrations, run'[n].stage \in Running \cup {"starting"}
          PROVE  n <= time' /\ time' > 0 /\ run'[n].host \in Hosts /\ config'[run'[n].host] \in {"both", "new"}
      <3>1. CASE n = m
        BY <1>t, <2>1, <2>3, <2>4, <2>5, <3>1
      <3>2. CASE n # m
        <4>1. n \in Nat
          BY BoundsAreNaturals DEF Migrations
        <4> QED
          BY <1>i, <1>t, <2>1, <2>5, <3>2, <4>1
      <3> QED
        BY <3>1, <3>2
    <2>6. (\E n \in Migrations : run'[n].stage \in Running) => DOMAIN state' # {}
      BY <1>i, <2>1, <2>3
    <2>7. time' > 0
      BY <1>t, <2>1
    <2>8. \A g \in Hosts : config'[g] = "new" => config[g] = "new"
      BY <2>1
    <2> QED
      BY <2>5, <2>6, <2>7
  <1>4. ASSUME NEW m \in Migrations, Step(m) PROVE RunsHosted'
    <2>1. /\ UNCHANGED <<config, time>>
          /\ run[m].stage \in Running \cup {"starting"}
          /\ \A n \in Migrations : n # m => run'[n] = run[n]
          /\ run'[m].stage \in Running \cup {"ended"}
          /\ run'[m].stage \in Running => run'[m].host = run[m].host
          /\ DOMAIN state \subseteq DOMAIN state'
          /\ run[m].stage = "starting" => DOMAIN state' # {}
      BY <1>4, StepShape
    <2>2. "starting" # "ended" /\ "starting" \notin Running
      BY DEF Running
    <2> QED
      BY <1>i, <2>1, <2>2
  <1>5. ASSUME NEW h \in Hosts, NEW c \in Clients, NEW y \in History, UpdateSettingValue(h, c, y)
        PROVE  UNCHANGED <<config, time, state, run>>
    BY <1>5 DEF UpdateSettingValue, hostVars
  <1>6. ASSUME UNCHANGED vars PROVE UNCHANGED <<config, time, state, run>>
    BY <1>6 DEF vars, hostVars
  <1> QED
    BY <1>1, <1>2, <1>3, <1>4, <1>5, <1>6, Steps

\* What a run may say of the data, D being what is left of it.
Tells(r, D) ==
    /\ r.stage \in Running /\ r.read # NoRead =>
          r.read.status \in States /\ (r.read.status = "MigrationCompleted" => D = {})
    /\ r.stage = "saving" => D \cap Clients \subseteq r.loaded
    /\ r.stage \in {"history", "completing"} => D \cap Clients = {}
    /\ r.stage = "completing" => D = {}

\* It says as much of less.
LEMMA TellsOfLess ==
  ASSUME NEW r, NEW D, NEW E, E \subseteq D, Tells(r, D)
  PROVE  Tells(r, E)
  BY DEF Tells

LEMMA EndedTells == ASSUME NEW D PROVE Tells(AtStage("ended"), D)
  BY DEF Tells, AtStage, Running

LEMMA StepTells ==
  ASSUME IInv, NEW m \in Migrations, Step(m), time > 0, Tells(run[m], Unmigrated),
         Unmigrated' \subseteq Unmigrated
  PROVE  Tells(run'[m], Unmigrated')
  <1>t. run \in [Migrations -> Runs] /\ run[m] \in Runs
    BY DEF IInv, TypeOK
  <1>1. CASE MarkMigrationStarted(m)
    <2>1. run'[m] = [run[m] EXCEPT !.stage = "started", !.read = NoRead]
      BY <1>1, <1>t DEF MarkMigrationStarted
    <2>2. run'[m].stage = "started" /\ run'[m].read = NoRead
      BY <1>t, <2>1 DEF Runs
    <2> QED
      BY <2>2 DEF Tells
  <1>2. CASE GetSnapshot(m)
    <2>1. run'[m] = AtStage("ended") \/ run'[m] = [run[m] EXCEPT !.stage = "begun"]
      BY <1>2, <1>t DEF GetSnapshot
    <2>2. /\ [run[m] EXCEPT !.stage = "begun"].stage = "begun"
          /\ [run[m] EXCEPT !.stage = "begun"].read = run[m].read
      BY <1>t DEF Runs
    <2>3. run[m].stage \in Running
      BY <1>2 DEF GetSnapshot, Running
    <2>4. CASE run'[m] = AtStage("ended")
      BY <2>4, EndedTells
    <2>5. CASE run'[m] = [run[m] EXCEPT !.stage = "begun"]
      <3>1. run'[m].stage = "begun" /\ run'[m].read = run[m].read
        BY <2>2, <2>5
      <3> QED
        BY <2>3, <3>1 DEF Tells
    <2> QED
      BY <2>1, <2>4, <2>5
  <1>3. CASE ReadState(m)
    <2> DEFINE r == [row |-> TheRow, status |-> StatusRead(TheRow)]
    <2>1. run'[m] = [run[m] EXCEPT !.read = r] /\ run[m].stage \in Running
      BY <1>3, <1>t DEF ReadState
    <2>2. TheRow \in DOMAIN state /\ r.status = state[TheRow] /\ r.status \in States
      BY <2>1, TheRowIsOne DEF IInv, RunsHosted, StatusRead
    <2>3. r.status = "MigrationCompleted" => Unmigrated = {}
      BY <2>2 DEF IInv, StaysReadable, Unmigrated
    <2> HIDE DEF r
    <2>4. run'[m].stage = run[m].stage /\ run'[m].read = r /\ run'[m].loaded = run[m].loaded
      BY <1>t, <2>1 DEF Runs
    <2> QED
      BY <2>2, <2>3, <2>4 DEF Tells
  <1>4. CASE InitializeMigrationProgress(m)
    <2>1. run'[m] = [run[m] EXCEPT !.stage = "loading", !.read = NoRead]
      BY <1>4, <1>t DEF InitializeMigrationProgress
    <2>2. run'[m].stage = "loading" /\ run'[m].read = NoRead
      BY <1>t, <2>1 DEF Runs
    <2> QED
      BY <2>2 DEF Tells
  <1>5. CASE LoadClients(m)
    <2>1. run'[m] = [run[m] EXCEPT !.stage = "saving", !.read = NoRead, !.loaded = Clients]
      BY <1>5, <1>t DEF LoadClients
    <2>2. run'[m].stage = "saving" /\ run'[m].read = NoRead /\ run'[m].loaded = Clients
      BY <1>t, <2>1 DEF Runs
    <2> QED
      BY <2>2 DEF Tells
  <1>6. ASSUME NEW c \in Clients, SaveClient(m, c) PROVE Tells(run'[m], Unmigrated')
    <2>1. /\ run'[m] = [run[m] EXCEPT !.stage = IF Remaining(m, c) = {} THEN "history" ELSE "saving",
                                      !.read = NoRead, !.loaded = Remaining(m, c)]
          /\ run[m].stage = "saving"
      BY <1>6, <1>t DEF SaveClient
    <2>2. /\ run'[m].stage = IF Remaining(m, c) = {} THEN "history" ELSE "saving"
          /\ run'[m].read = NoRead /\ run'[m].loaded = Remaining(m, c)
      BY <1>t, <2>1 DEF Runs
    <2>3. c \notin Unmigrated'
      <3>1. client'[c] = "new"
        BY <1>6 DEF SaveClient, IInv, RunsHosted, Secret, Running, TypeOK
      <3> QED
        BY <3>1, DataAssumption DEF Unmigrated, EncryptedWithOld
    <2>4. Unmigrated' \cap Clients \subseteq Remaining(m, c)
      BY <2>1, <2>3 DEF Tells, Remaining
    <2> QED
      BY <2>2, <2>4 DEF Tells
  <1>7. CASE MigrateHistory(m)
    <2>0. run[m].stage = "history"
      BY <1>7 DEF MigrateHistory
    <2>1. CASE EncryptedBefore(m) = {}
      <3>1. run'[m] = [run[m] EXCEPT !.stage = "completing", !.read = NoRead]
        BY <1>7, <1>t, <2>1 DEF MigrateHistory
      <3>2. run'[m].stage = "completing" /\ run'[m].read = NoRead
        BY <1>t, <3>1 DEF Runs
      <3>3. Unmigrated \cap History = {}
        <4> SUFFICES ASSUME NEW y \in Unmigrated \cap History PROVE FALSE
          OBVIOUS
        <4>1. history[y].at = 0 /\ run[m].date \in Nat
          BY <1>t, BoundsAreNaturals DEF IInv, Progress, Runs
        <4>2. history[y].secret = "old"
          BY DataAssumption DEF Unmigrated, EncryptedWithOld
        <4> QED
          BY <2>1, <4>1, <4>2, NoneAssumption DEF EncryptedBefore
      <3>4. Unmigrated = {}
        BY <2>0, <3>3 DEF Tells, Unmigrated, EncryptedWithOld
      <3> QED
        BY <3>2, <3>4 DEF Tells
    <2>2. CASE EncryptedBefore(m) # {}
      <3>1. run'[m] = [run[m] EXCEPT !.read = NoRead]
        BY <1>7, <1>t, <2>2 DEF MigrateHistory
      <3>2. run'[m].stage = run[m].stage /\ run'[m].read = NoRead
        BY <1>t, <3>1 DEF Runs
      <3> QED
        BY <2>0, <3>2 DEF Tells
    <2> QED
      BY <2>1, <2>2
  <1>8. CASE MarkMigrationCompleted(m) \/ Fail(m)
    <2>1. run'[m] = AtStage("ended")
      BY <1>8, <1>t DEF MarkMigrationCompleted, Fail
    <2> QED
      BY <2>1, EndedTells
  <1> QED
    BY <1>1, <1>2, <1>3, <1>4, <1>5, <1>6, <1>7, <1>8 DEF Step

LEMMA DataKept ==
  ASSUME IInv, [Next]_vars
  PROVE  ReadsAreTrue' /\ Progress'
  <1>t. run \in [Migrations -> Runs] /\ time \in Nat
    BY BoundsAreNaturals DEF IInv, TypeOK
  <1>i. \A m \in Migrations : Tells(run[m], Unmigrated)
    BY DEF IInv, ReadsAreTrue, Progress, Tells
  <1>s. /\ time > 0 => Unmigrated' \subseteq Unmigrated
        /\ \A y \in Unmigrated' \cap History : history'[y].at = 0
    BY Shrinks
  <1>g. ASSUME \A m \in Migrations : Tells(run'[m], Unmigrated') PROVE ReadsAreTrue' /\ Progress'
    BY <1>s, <1>g DEF ReadsAreTrue, Progress, Tells
  <1>h. ASSUME NEW m \in Migrations, run'[m] = run[m] PROVE Tells(run'[m], Unmigrated')
    <2>1. CASE time > 0
      BY <1>h, <1>i, <1>s, <2>1, TellsOfLess
    <2>2. CASE ~(time > 0)
      <3>1. run[m].stage \notin Running
        BY <2>2 DEF IInv, RunsHosted
      <3> QED
        BY <1>h, <3>1 DEF Tells, Running
    <2> QED
      BY <2>1, <2>2
  <1>1. ASSUME NEW m \in Migrations, Step(m) PROVE \A n \in Migrations : Tells(run'[n], Unmigrated')
    <2>1. run[m].stage \in Running \cup {"starting"} /\ \A n \in Migrations : n # m => run'[n] = run[n]
      BY <1>1, StepShape
    <2>2. time > 0
      BY <2>1 DEF IInv, RunsHosted
    <2>3. Tells(run'[m], Unmigrated')
      BY <1>1, <1>i, <1>s, <2>2, StepTells
    <2> QED
      BY <1>h, <2>1, <2>3
  <1>2. ASSUME NEW h \in Hosts, HostStep(h), NEW n \in Migrations PROVE Tells(run'[n], Unmigrated')
    <2>1. run'[n] = run[n] \/ run'[n] = AtStage("ended")
      BY <1>2 DEF HostStep, Start, Reload, RemovePreviousSecret, Crash, ReadStatus, UpdateStatus
    <2> QED
      BY <1>h, <2>1, EndedTells
  <1>3. ASSUME NEW m \in Migrations, NEW h \in Hosts, PerformMigration(m, h), NEW n \in Migrations
        PROVE  Tells(run'[n], Unmigrated')
    <2>1. \/ run'[n] = run[n] \/ run'[n] = AtStage("ended")
          \/ run'[n] = [AtStage("starting") EXCEPT !.host = h, !.date = time, !.read.row = TheRow]
      BY <1>3, <1>t DEF PerformMigration
    <2>2. [AtStage("starting") EXCEPT !.host = h, !.date = time, !.read.row = TheRow].stage = "starting"
      BY DEF AtStage
    <2>3. ASSUME run'[n].stage = "starting" PROVE Tells(run'[n], Unmigrated')
      BY <2>3 DEF Tells, Running
    <2> QED
      BY <1>h, <2>1, <2>2, <2>3, EndedTells
  <1>4. ASSUME NEW h \in Hosts, NEW c \in Clients, NEW y \in History, UpdateSettingValue(h, c, y)
        PROVE  run' = run
    BY <1>4 DEF UpdateSettingValue
  <1> QED
    BY <1>1, <1>2, <1>3, <1>4, <1>g, <1>h, Steps DEF vars

\* Where a row came to tell of a migration that is complete, nothing is left.
LEMMA ReadableKept ==
  ASSUME IInv, [Next]_vars
  PROVE  StaysReadable'
  <1>r. StaysReadable <=> ((\E k \in DOMAIN state : state[k] = "MigrationCompleted")
                              \/ (\E h \in Hosts : config[h] = "new") => Unmigrated = {})
    BY DEF StaysReadable, Unmigrated
  <1>i. /\ \A k \in DOMAIN state : state[k] = "MigrationCompleted" => Unmigrated = {}
        /\ \A h \in Hosts : config[h] = "new" => Unmigrated = {}
        /\ DOMAIN state # {} => time > 0
        /\ \A h \in Hosts : config[h] = "new" => time > 0
    BY <1>r DEF IInv, RunsHosted
  <1>s. time > 0 /\ Unmigrated = {} => Unmigrated' = {}
    BY Shrinks
  <1> SUFFICES /\ \A k \in DOMAIN state' : state'[k] = "MigrationCompleted" => Unmigrated = {} /\ time > 0
               /\ \A h \in Hosts : config'[h] = "new" => Unmigrated = {} /\ time > 0
    <2>1. /\ \A k \in DOMAIN state' : state'[k] = "MigrationCompleted" => Unmigrated' = {}
          /\ \A h \in Hosts : config'[h] = "new" => Unmigrated' = {}
      BY <1>s
    <2> QED
      BY <2>1 DEF StaysReadable, Unmigrated
  <1>t. config \in [Hosts -> {"none", "old", "both", "new", "gone"}]
    BY DEF IInv, TypeOK
  <1>1. \A h \in Hosts : config'[h] = "new" => Unmigrated = {} /\ time > 0
    <2>1. ASSUME NEW h \in Hosts, HostStep(h), NEW g \in Hosts, config'[g] = "new"
          PROVE  config[g] = "new" \/ Completed
      BY <1>t, <2>1 DEF HostStep, Start, Reload, RemovePreviousSecret, Crash, ReadStatus, UpdateStatus
    <2>2. Completed => Unmigrated = {} /\ time > 0
      BY <1>i DEF Completed
    <2> QED
      BY <1>i, <2>1, <2>2, HostsAlone DEF hostVars
  <1>2. \A k \in DOMAIN state' : state'[k] = "MigrationCompleted" => Unmigrated = {} /\ time > 0
    <2>1. ASSUME NEW m \in Migrations, Step(m), NEW k \in DOMAIN state', state'[k] = "MigrationCompleted"
          PROVE  Unmigrated = {} /\ time > 0
      <3>1. time > 0
        BY <2>1, StepShape DEF IInv, RunsHosted
      <3>2. CASE k \in DOMAIN state /\ state'[k] = state[k]
        BY <1>i, <2>1, <3>1, <3>2
      <3>3. ASSUME WritesBack(m), run[m].stage \in Running PROVE Unmigrated = {}
        BY <1>i, <2>1, <3>3 DEF WritesBack, WriteState, IInv, ReadsAreTrue
      <3>4. CASE MarkMigrationStarted(m)
        BY <2>1, <3>1, <3>2, <3>4 DEF MarkMigrationStarted
      <3>5. CASE MarkMigrationCompleted(m)
        BY <3>1, <3>5 DEF MarkMigrationCompleted, IInv, Progress
      <3>6. CASE Fail(m)
        BY <2>1, <3>1, <3>2, <3>6 DEF Fail, WriteState
      <3>7. CASE GetSnapshot(m) \/ ReadState(m)
        BY <2>1, <3>2, <3>7 DEF GetSnapshot, ReadState
      <3>8. CASE \/ InitializeMigrationProgress(m) \/ LoadClients(m)
                 \/ (\E c \in Clients : SaveClient(m, c)) \/ MigrateHistory(m)
        BY <3>1, <3>3, <3>8
        DEF InitializeMigrationProgress, LoadClients, SaveClient, MigrateHistory, Running
      <3> QED
        BY <2>1, <3>4, <3>5, <3>6, <3>7, <3>8 DEF Step
    <2>2. ASSUME state' = state, NEW k \in DOMAIN state', state'[k] = "MigrationCompleted"
          PROVE  Unmigrated = {} /\ time > 0
      BY <1>i, <2>2
    <2>3. ASSUME NEW h \in Hosts, HostStep(h) PROVE state' = state
      BY <2>3 DEF HostStep, Start, Reload, RemovePreviousSecret, Crash, ReadStatus, UpdateStatus
    <2>4. (\E m \in Migrations : Step(m)) \/ state' = state
      BY <2>3, Steps DEF vars, UpdateSettingValue, PerformMigration
    <2> QED
      BY <2>1, <2>2, <2>4
  <1> QED
    BY <1>1, <1>2

LEMMA AloneKept ==
  ASSUME IInv, [Next]_vars
  PROVE  Alone'
  <1>t. run \in [Migrations -> Runs] /\ DOMAIN state \subseteq Migrations /\ time \in Nat
    BY BoundsAreNaturals DEF IInv, TypeOK
  <1>e. AtStage("ended").stage \notin Running \cup {"starting"} /\ "starting" \notin Running
    BY DEF AtStage, Running
  <1>m. met \subseteq met'
    BY Steps DEF vars, HostStep, Start, Reload, RemovePreviousSecret, Crash, ReadStatus, UpdateStatus,
                 UpdateSettingValue, PerformMigration, Step, MarkMigrationStarted, GetSnapshot, ReadState,
                 InitializeMigrationProgress, LoadClients, SaveClient, MigrateHistory,
                 MarkMigrationCompleted, Fail
  <1> SUFFICES ASSUME met = {}, met' = {} PROVE Alone'
    BY <1>m DEF Alone
  <1>i. /\ \A k, l \in DOMAIN state : k = l
        /\ \A m, n \in Migrations : run[m].stage \in Running /\ run[n].stage \in Running => m = n
        /\ \A m \in Migrations : run[m].stage \in Running =>
              /\ Starting = {}
              /\ \A k \in DOMAIN state : state[k] = "MigrationInProgress"
              /\ run[m].read # NoRead => run[m].read.status = "MigrationInProgress"
        /\ \A m \in Starting :
              IF run[m].read.row = None THEN DOMAIN state = {} ELSE run[m].read.row \in DOMAIN state
    BY DEF IInv, Alone
  <1>s. \A m \in Migrations : m \in Starting <=> run[m].stage = "starting"
    BY DEF Starting
  <1>z. \A m \in Migrations : m \in Starting' <=> run'[m].stage = "starting"
    BY DEF Starting
  <1>y. Starting \subseteq Migrations /\ Starting' \subseteq Migrations
    BY DEF Starting
  \* Runs that go on or end, while the state stays as it is.
  <1>1. ASSUME state' = state, \A m \in Migrations : run'[m] = run[m] \/ run'[m] = AtStage("ended")
        PROVE  Alone'
    <2>1. Starting' \subseteq Starting
      BY <1>1, <1>e, <1>s, <1>z, <1>y
    <2>2. \A m \in Starting' : run'[m] = run[m]
      BY <1>1, <1>e, <1>z, <1>y
    <2>3. \A m \in Migrations : run'[m].stage \in Running => run'[m] = run[m]
      BY <1>1, <1>e
    <2>4. \A m, n \in Migrations : run'[m].stage \in Running /\ run'[n].stage \in Running => m = n
      BY <1>i, <2>3
    <2>5. \A m \in Migrations : run'[m].stage \in Running =>
              /\ Starting' = {}
              /\ \A k \in DOMAIN state' : state'[k] = "MigrationInProgress"
              /\ run'[m].read # NoRead => run'[m].read.status = "MigrationInProgress"
      BY <1>1, <1>i, <2>1, <2>3
    <2>6. \A m \in Starting' :
              IF run'[m].read.row = None THEN DOMAIN state' = {} ELSE run'[m].read.row \in DOMAIN state'
      BY <1>1, <1>i, <2>1, <2>2
    <2> QED
      BY <1>1, <1>i, <2>4, <2>5, <2>6 DEF Alone
  <1>2. ASSUME NEW m \in Migrations, NEW h \in Hosts, PerformMigration(m, h) PROVE Alone'
    <2>0. state' = state /\ \A n \in Migrations : n # m => run'[n] = run[n]
      BY <1>2, <1>t DEF PerformMigration
    <2>1. CASE ActiveHostsAgree /\ MayStart
      <3>1. \A n \in Migrations : run[n].stage \notin Running
        BY <1>i, <2>1 DEF MayStart, IInv, RunsHosted
      <3>2. run'[m] = [AtStage("starting") EXCEPT !.host = h, !.date = time, !.read.row = TheRow]
        BY <1>2, <1>t, <2>1 DEF PerformMigration
      <3>3. run'[m].stage = "starting" /\ run'[m].read.row = TheRow
        BY <3>2 DEF AtStage, NoRead
      <3>4. \A n \in Migrations : run'[n].stage \notin Running
        BY <1>e, <2>0, <3>1, <3>3
      <3>5. IF TheRow = None THEN DOMAIN state = {} ELSE TheRow \in DOMAIN state
        BY <1>t, TheRowIsOne, NoRunOfNone
      <3>6. \A n \in Starting' :
              IF run'[n].read.row = None THEN DOMAIN state' = {} ELSE run'[n].read.row \in DOMAIN state'
        <4> SUFFICES ASSUME NEW n \in Starting'
                     PROVE  IF run'[n].read.row = None THEN DOMAIN state = {} ELSE run'[n].read.row \in DOMAIN state
          BY <2>0
        <4>1. CASE n = m
          BY <3>3, <3>5, <4>1
        <4>2. CASE n # m
          BY <1>i, <1>s, <1>z, <1>y, <2>0, <4>2
        <4> QED
          BY <4>1, <4>2
      <3> QED
        BY <1>i, <2>0, <3>4, <3>6 DEF Alone
    <2>2. CASE ~(ActiveHostsAgree /\ MayStart)
      <3>1. run'[m] = AtStage("ended")
        BY <1>2, <1>t, <2>2 DEF PerformMigration
      <3> QED
        BY <1>1, <2>0, <3>1
    <2> QED
      BY <2>1, <2>2
  <1>3. ASSUME NEW m \in Migrations, MarkMigrationStarted(m) PROVE Alone'
    <2>1. Starting = {m} /\ \A n \in Migrations : run[n].stage \notin Running
      BY <1>3, <1>i DEF MarkMigrationStarted
    <2>2. PICK k : /\ DOMAIN state' = DOMAIN state \cup {k} /\ state'[k] = "MigrationInProgress"
                   /\ k = IF run[m].read.row = None THEN m ELSE run[m].read.row
      BY <1>3 DEF MarkMigrationStarted
    <2>3. DOMAIN state' = {k}
      BY <1>i, <2>1, <2>2
    <2>4. /\ run'[m] = [run[m] EXCEPT !.stage = "started", !.read = NoRead]
          /\ \A n \in Migrations : n # m => run'[n] = run[n]
      BY <1>3, <1>t DEF MarkMigrationStarted
    <2>5. run'[m].stage = "started" /\ run'[m].read = NoRead
      BY <1>t, <2>4 DEF Runs
    <2>6. Starting' = {}
      <3> SUFFICES ASSUME NEW n \in Migrations, run'[n].stage = "starting" PROVE FALSE
        BY <1>y, <1>z
      <3>1. n # m
        BY <2>5
      <3>2. n \in Starting
        BY <1>s, <2>4, <3>1
      <3> QED
        BY <2>1, <3>1, <3>2
    <2> QED
      BY <2>1, <2>2, <2>3, <2>4, <2>5, <2>6 DEF Alone
  \* Any other step is one of the only migration that runs.
  <1>4. ASSUME NEW m \in Migrations, Step(m), run[m].stage \in Running PROVE Alone'
    <2>1. /\ \A n \in Migrations : n # m => run'[n] = run[n] /\ run[n].stage \notin Running
          /\ run'[m].stage \in Running \cup {"ended"} /\ Starting = {}
          /\ DOMAIN state # {} /\ \A k \in DOMAIN state : state[k] = "MigrationInProgress"
      BY <1>4, <1>i, StepShape DEF IInv, RunsHosted
    <2>2. Starting' = {}
      BY <1>e, <1>s, <1>z, <1>y, <2>1
    <2>s. ~MarkMigrationStarted(m)
      BY <1>4, <1>e DEF MarkMigrationStarted, Starting
    <2>t. \A k, status : WriteState(k, status) => DOMAIN state' = DOMAIN state
      BY DEF WriteState
    <2>3. DOMAIN state' = DOMAIN state
      BY <1>4, <2>s, <2>t
      DEF Step, GetSnapshot, ReadState, InitializeMigrationProgress,
          LoadClients, SaveClient, MigrateHistory, MarkMigrationCompleted, Fail, WritesBack
    <2>w. WritesBack(m) => \A k \in DOMAIN state' : state'[k] = "MigrationInProgress"
      BY <1>4, <1>i, <2>1 DEF WritesBack, WriteState
    <2>4. ASSUME run'[m].stage \in Running PROVE \A k \in DOMAIN state' : state'[k] = "MigrationInProgress"
      <3>1. ~MarkMigrationCompleted(m) /\ ~Fail(m)
        BY <1>e, <1>t, <2>4 DEF MarkMigrationCompleted, Fail
      <3>3. state' = state \/ WritesBack(m)
        BY <1>4, <2>s, <3>1
        DEF Step, GetSnapshot, ReadState, InitializeMigrationProgress,
            LoadClients, SaveClient, MigrateHistory
      <3> QED
        BY <2>1, <2>w, <3>3
    <2>5. ASSUME run'[m].stage \in Running, run'[m].read # NoRead
          PROVE  run'[m].read.status = "MigrationInProgress"
      <3>1. CASE ReadState(m)
        <4>1. run'[m] = [run[m] EXCEPT !.read = [row |-> TheRow, status |-> StatusRead(TheRow)]]
          BY <1>t, <3>1 DEF ReadState
        <4>2. run'[m].read.status = state[TheRow]
          BY <1>t, <4>1 DEF StatusRead, Runs
        <4> QED
          BY <2>1, <4>2, TheRowIsOne
      <3>2. CASE GetSnapshot(m)
        <4>1. run'[m] = [run[m] EXCEPT !.stage = "begun"]
          BY <1>e, <1>t, <2>5, <3>2 DEF GetSnapshot
        <4>2. run'[m].read = run[m].read
          BY <1>t, <4>1 DEF Runs
        <4> QED
          BY <1>4, <1>i, <2>5, <4>2
      <3>3. CASE \/ InitializeMigrationProgress(m) \/ LoadClients(m)
                 \/ (\E c \in Clients : SaveClient(m, c)) \/ MigrateHistory(m)
        <4>1. \/ \E s : run'[m] = [run[m] EXCEPT !.stage = s, !.read = NoRead]
              \/ \E s, l : run'[m] = [run[m] EXCEPT !.stage = s, !.read = NoRead, !.loaded = l]
              \/ run'[m] = [run[m] EXCEPT !.read = NoRead]
          <5>1. CASE InitializeMigrationProgress(m)
            BY <1>t, <5>1 DEF InitializeMigrationProgress
          <5>2. CASE LoadClients(m)
            BY <1>t, <5>2 DEF LoadClients
          <5>3. ASSUME NEW c \in Clients, SaveClient(m, c)
                PROVE  \E s, l : run'[m] = [run[m] EXCEPT !.stage = s, !.read = NoRead, !.loaded = l]
            BY <1>t, <5>3 DEF SaveClient
          <5>4. CASE MigrateHistory(m)
            BY <1>t, <5>4 DEF MigrateHistory
          <5> QED
            BY <3>3, <5>1, <5>2, <5>3, <5>4
        <4>2. run'[m].read = NoRead
          BY <1>t, <4>1 DEF Runs
        <4> QED
          BY <2>5, <4>2
      <3>4. CASE MarkMigrationCompleted(m) \/ Fail(m)
        BY <1>e, <1>t, <2>5, <3>4 DEF MarkMigrationCompleted, Fail
      <3> QED
        BY <1>4, <2>s, <3>1, <3>2, <3>3, <3>4 DEF Step
    <2> QED
      BY <1>i, <2>1, <2>2, <2>3, <2>4, <2>5 DEF Alone
  <1>5. ASSUME NEW h \in Hosts, HostStep(h)
        PROVE  state' = state /\ \A m \in Migrations : run'[m] = run[m] \/ run'[m] = AtStage("ended")
    BY <1>5 DEF HostStep, Start, Reload, RemovePreviousSecret, Crash, ReadStatus, UpdateStatus
  <1>6. ASSUME NEW h \in Hosts, NEW c \in Clients, NEW y \in History, UpdateSettingValue(h, c, y)
        PROVE  state' = state /\ run' = run
    BY <1>6 DEF UpdateSettingValue
  <1>7. ASSUME NEW m \in Migrations, Step(m) PROVE MarkMigrationStarted(m) \/ run[m].stage \in Running
    BY <1>7
    DEF Step, GetSnapshot, ReadState, InitializeMigrationProgress,
        LoadClients, SaveClient, MigrateHistory, MarkMigrationCompleted, Fail, Running
  <1>8. UNCHANGED vars => state' = state /\ run' = run
    BY DEF vars
  <1> QED
    BY <1>1, <1>2, <1>3, <1>4, <1>5, <1>6, <1>7, <1>8, Steps

LEMMA AtMostOne ==
  ASSUME NEW S, \A x, y \in S : x = y
  PROVE  Cardinality(S) <= 1
  <1>1. S = {} \/ \E x : S = {x}
    OBVIOUS
  <1>2. CASE S = {}
    <2>1. Cardinality(S) = 0
      BY <1>2, FS_EmptySet
    <2> QED
      BY <2>1
  <1>3. ASSUME NEW x, S = {x} PROVE Cardinality(S) <= 1
    <2>1. Cardinality(S) = 1
      BY <1>3, FS_Singleton
    <2> QED
      BY <2>1
  <1> QED
    BY <1>1, <1>2, <1>3

LEMMA LockKept ==
  ASSUME IInv, [Next]_vars
  PROVE  LockedOutOnlyIfAbandoned'
  <1>t. run \in [Migrations -> Runs] /\ time \in Nat /\ DOMAIN state \subseteq Migrations /\ abandoned \in BOOLEAN
    BY BoundsAreNaturals DEF IInv, TypeOK
  <1>e. AtStage("ended").stage \notin Running
    BY DEF AtStage, Running
  <1> DEFINE Locked == \E k \in DOMAIN state : state[k] = "MigrationInProgress"
             Locked1 == \E k \in DOMAIN state' : state'[k] = "MigrationInProgress"
             Runs0 == \E m \in Migrations : run[m].stage \in Running
             Runs1 == \E m \in Migrations : run'[m].stage \in Running
  <1>i. Locked => Runs0 \/ abandoned \/ met # {}
    BY DEF IInv, LockedOutOnlyIfAbandoned
  <1>m. met \subseteq met' /\ (abandoned => abandoned')
    <2>1. ASSUME NEW f \in Hosts, HostStep(f) PROVE met' = met /\ (abandoned => abandoned')
      <3>1. ASSUME ~Crash(f) PROVE met' = met /\ abandoned' = abandoned
        BY <2>1, <3>1 DEF HostStep, Start, Reload, RemovePreviousSecret, ReadStatus, UpdateStatus
      <3>2. ASSUME Crash(f) PROVE met' = met /\ (abandoned => abandoned')
        BY <3>2 DEF Crash
      <3> QED
        BY <3>1, <3>2
    <2>2. ASSUME NEW m \in Migrations, Step(m) PROVE met \subseteq met' /\ (abandoned => abandoned')
      <3>1. ASSUME ~Fail(m) PROVE met \subseteq met' /\ abandoned' = abandoned
        BY <2>2, <3>1 DEF Step, MarkMigrationStarted, GetSnapshot, ReadState, InitializeMigrationProgress,
                          LoadClients, SaveClient, MigrateHistory, MarkMigrationCompleted
      <3>2. ASSUME Fail(m) PROVE met' = met /\ (abandoned => abandoned')
        BY <3>2 DEF Fail
      <3> QED
        BY <3>1, <3>2
    <2>3. ASSUME NEW f \in Hosts, NEW c \in Clients, NEW y \in History, UpdateSettingValue(f, c, y)
          PROVE  met' = met /\ abandoned' = abandoned
      BY <2>3 DEF UpdateSettingValue
    <2>4. ASSUME NEW f \in Hosts, NEW m \in Migrations, PerformMigration(m, f)
          PROVE  met' = met /\ abandoned' = abandoned
      BY <2>4 DEF PerformMigration
    <2>5. UNCHANGED vars => met' = met /\ abandoned' = abandoned
      BY DEF vars
    <2> QED
      BY <2>1, <2>2, <2>3, <2>4, <2>5, Steps
  <1>g. ASSUME ~abandoned' /\ met' = {} => (Locked1 => Runs1) PROVE LockedOutOnlyIfAbandoned'
    BY <1>g DEF LockedOutOnlyIfAbandoned
  <1> SUFFICES ASSUME ~abandoned', met' = {}, Locked1 PROVE Runs1
    BY <1>g
  <1>n. ~abandoned /\ met = {}
    BY <1>m, <1>t
  <1>1. ASSUME state' = state, run' = run PROVE Runs1
    BY <1>1, <1>i, <1>n
  <1>2. ASSUME NEW h \in Hosts, HostStep(h) PROVE Runs1
    <2>1. CASE Crash(h)
      <3>1. PICK m \in Migrations : run[m].stage \in Running
        BY <1>i, <1>n, <2>1 DEF Crash
      <3>2. run[m].host # h
        BY <2>1, <3>1 DEF Crash
      <3>3. run'[m] = run[m]
        BY <2>1, <3>2 DEF Crash
      <3> QED
        BY <3>1, <3>3
    <2>2. CASE ~Crash(h)
      BY <1>1, <1>2, <2>2 DEF HostStep, Start, Reload, RemovePreviousSecret, ReadStatus, UpdateStatus
    <2> QED
      BY <2>1, <2>2
  <1>3. ASSUME NEW m \in Migrations, NEW h \in Hosts, PerformMigration(m, h) PROVE Runs1
    <2>1. PICK n \in Migrations : run[n].stage \in Running
      BY <1>i, <1>n, <1>3 DEF PerformMigration
    <2>2. n <= time /\ m = time + 1 /\ n \in Nat
      BY <1>3, <2>1, BoundsAreNaturals DEF PerformMigration, IInv, RunsHosted, Migrations
    <2>3. run'[n] = run[n]
      BY <1>t, <1>3, <2>2 DEF PerformMigration
    <2> QED
      BY <2>1, <2>3
  <1>4. ASSUME NEW m \in Migrations, Step(m) PROVE Runs1
    <2>1. /\ run[m].stage \in Running \cup {"starting"}
          /\ \A n \in Migrations : n # m => run'[n] = run[n]
          /\ run'[m].stage \in Running \cup {"ended"}
      BY <1>4, StepShape
    <2> SUFFICES ASSUME run'[m].stage \notin Running PROVE Runs1
      OBVIOUS
    <2>u. Unique
      <3>1. \A k, l \in DOMAIN state : k = l
        BY <1>n DEF IInv, Alone
      <3> QED
        BY <3>1, AtMostOne DEF Unique
    <2>k. \A k \in DOMAIN state : k = TheRow
      BY <2>u, TheRowIsOne
    <2>2. CASE MarkMigrationStarted(m)
      <3>1. run'[m] = [run[m] EXCEPT !.stage = "started", !.read = NoRead]
        BY <1>t, <2>2 DEF MarkMigrationStarted
      <3>2. run'[m].stage = "started"
        BY <1>t, <3>1 DEF Runs
      <3> QED
        BY <3>2 DEF Running
    <2>3. CASE GetSnapshot(m)
      <3>1. state' = state /\ (Completed \/ run'[m] = [run[m] EXCEPT !.stage = "begun"])
        BY <1>t, <2>3 DEF GetSnapshot
      <3>2. CASE Completed
        BY <3>1, <3>2 DEF Completed
      <3>3. CASE run'[m] = [run[m] EXCEPT !.stage = "begun"]
        <4>1. run'[m].stage = "begun"
          BY <1>t, <3>3 DEF Runs
        <4> QED
          BY <4>1 DEF Running
      <3> QED
        BY <3>1, <3>2, <3>3
    <2>4. CASE MarkMigrationCompleted(m)
      BY <2>4, <2>k DEF MarkMigrationCompleted, WriteState
    <2>5. CASE Fail(m)
      <3>1. run[m].stage \notin {"started", "begun"} /\ config[run[m].host] # "new" /\ run[m].stage \in Running
        BY <1>t, <2>5 DEF Fail
      <3>2. IsRotationConfigured(run[m].host)
        BY <3>1 DEF IInv, RunsHosted, IsRotationConfigured
      <3>3. WriteState(TheRow, "MigrationFailed")
        BY <2>5, <2>u, <3>1, <3>2 DEF Fail, FailureIsMarked
      <3> QED
        BY <2>k, <3>3 DEF WriteState
    <2>6. CASE \/ ReadState(m) \/ InitializeMigrationProgress(m) \/ LoadClients(m)
               \/ (\E c \in Clients : SaveClient(m, c)) \/ MigrateHistory(m)
      <3>1. ASSUME NEW s \in Running, NEW r, NEW l
            PROVE  /\ [run[m] EXCEPT !.stage = s, !.read = r].stage \in Running
                   /\ [run[m] EXCEPT !.stage = s, !.read = r, !.loaded = l].stage \in Running
                   /\ [run[m] EXCEPT !.read = r].stage = run[m].stage
        BY <1>t DEF Runs
      <3>2. CASE ReadState(m)
        <4>1. \E r : run'[m] = [run[m] EXCEPT !.read = r]
          BY <1>t, <3>2 DEF ReadState
        <4>2. run[m].stage \in Running
          BY <3>2 DEF ReadState
        <4> QED
          BY <3>1, <4>1, <4>2
      <3>3. CASE InitializeMigrationProgress(m)
        <4>1. run'[m] = [run[m] EXCEPT !.stage = "loading", !.read = NoRead]
          BY <1>t, <3>3 DEF InitializeMigrationProgress
        <4> QED
          BY <3>1, <4>1 DEF Running
      <3>4. CASE LoadClients(m)
        <4>1. run'[m] = [run[m] EXCEPT !.stage = "saving", !.read = NoRead, !.loaded = Clients]
          BY <1>t, <3>4 DEF LoadClients
        <4> QED
          BY <3>1, <4>1 DEF Running
      <3>5. ASSUME NEW c \in Clients, SaveClient(m, c) PROVE Runs1
        <4>1. PICK s \in {"saving", "history"} :
                run'[m] = [run[m] EXCEPT !.stage = s, !.read = NoRead, !.loaded = Remaining(m, c)]
          BY <1>t, <3>5 DEF SaveClient
        <4> QED
          BY <3>1, <4>1 DEF Running
      <3>6. CASE MigrateHistory(m)
        <4>1. \/ run'[m] = [run[m] EXCEPT !.stage = "completing", !.read = NoRead]
              \/ run'[m] = [run[m] EXCEPT !.read = NoRead]
          BY <1>t, <3>6 DEF MigrateHistory
        <4>2. run[m].stage \in Running /\ "completing" \in Running
          BY <3>6 DEF MigrateHistory, Running
        <4> QED
          BY <3>1, <4>1, <4>2
      <3> QED
        BY <2>6, <3>2, <3>3, <3>4, <3>5, <3>6
    <2> QED
      BY <1>4, <2>2, <2>3, <2>4, <2>5, <2>6 DEF Step
  <1>5. ASSUME NEW h \in Hosts, NEW c \in Clients, NEW y \in History, UpdateSettingValue(h, c, y)
        PROVE  state' = state /\ run' = run
    BY <1>5 DEF UpdateSettingValue
  <1>6. UNCHANGED vars => state' = state /\ run' = run
    BY DEF vars
  <1> HIDE DEF Locked, Locked1, Runs0, Runs1
  <1> QED
    BY <1>1, <1>2, <1>3, <1>4, <1>5, <1>6, Steps

LEMMA Inductive == IInv /\ [Next]_vars => IInv'
  <1> SUFFICES ASSUME IInv, [Next]_vars PROVE IInv'
    OBVIOUS
  <1> QED
    BY TypesKept, HostsKept, HostedKept, DataKept, ReadableKept, AloneKept, LockKept DEF IInv

LEMMA Invariance == Spec => []IInv
  BY Initially, Inductive, PTL DEF Spec
-----------------------------------------------------------------------------
\* Every variable of the hosts, the data, the state and the migrations holds values of its kind.
THEOREM TypesOfSecretMigration == Spec => []TypeOK
  <1>1. IInv => TypeOK
    BY DEF IInv
  <1> QED
    BY <1>1, Invariance, PTL

\* Once a migration is complete nothing is encrypted with the old secret but what an instance
\* that has only that wrote since: PreviousSecret can be removed.
THEOREM MigratedDataStaysReadable == Spec => []StaysReadable
  <1>1. IInv => StaysReadable
    BY DEF IInv
  <1> QED
    BY <1>1, Invariance, PTL

\* A migration goes on only where the instances that have told of their secret twice have the same.
THEOREM OnlyAlignedHostsMigrate == Spec => MigrationsStartAligned
  <1>1. ASSUME IInv, [Next]_vars
        PROVE  [\A m \in Migrations : m \in Starting' \ Starting =>
                  \A g, h \in Hosts : /\ Up(g) /\ row[g].active /\ row[g].reports = 2
                                      /\ Up(h) /\ row[h].active /\ row[h].reports = 2
                                      => started[g] = started[h]]_vars
    <2> SUFFICES ASSUME NEW m \in Migrations, m \in Starting', m \notin Starting,
                        NEW g \in Hosts, Up(g), row[g].active, row[g].reports = 2,
                        NEW h \in Hosts, Up(h), row[h].active, row[h].reports = 2
                 PROVE  started[g] = started[h]
      OBVIOUS
    <2>t. run \in [Migrations -> Runs]
      BY <1>1 DEF IInv, TypeOK
    <2>s. run'[m].stage = "starting" /\ run[m].stage # "starting"
      BY DEF Starting
    <2>e. AtStage("ended").stage # "starting" /\ "starting" \notin Running \cup {"ended"}
      BY DEF AtStage, Running
    <2>1. ASSUME NEW f \in Hosts, HostStep(f) PROVE FALSE
      <3>1. run'[m] = run[m] \/ run'[m] = AtStage("ended")
        BY <2>1 DEF HostStep, Start, Reload, RemovePreviousSecret, Crash, ReadStatus, UpdateStatus
      <3> QED
        BY <2>s, <2>e, <3>1
    <2>2. ASSUME NEW n \in Migrations, Step(n) PROVE FALSE
      <3>1. run'[n].stage \in Running \cup {"ended"} /\ (n # m => run'[m] = run[m])
        BY <1>1, <2>2, StepShape
      <3> QED
        BY <2>s, <2>e, <3>1
    <2>3. \E n \in Migrations, f \in Hosts : PerformMigration(n, f)
      <3>1. run' # run
        BY <2>s
      <3> QED
        BY <1>1, <2>1, <2>2, <3>1, Steps DEF vars, UpdateSettingValue
    <2>4. ActiveHostsAgree
      BY <2>t, <2>3, <2>s, <2>e DEF PerformMigration
    <2>5. Clear(g) /\ Clear(h)
      BY <2>4 DEF ActiveHostsAgree, Clear
    <2> QED
      BY <1>1, <2>5 DEF IInv, DifferencesFound
  <1> QED
    BY <1>1, Invariance, PTL DEF Spec, MigrationsStartAligned

\* One migration runs at a time, and the state has one row, until two that started together met.
THEOREM MigrationsRunAlone == Spec => []OneMigrationAtATime
  <1>1. ASSUME IInv PROVE OneMigrationAtATime
    <2> SUFFICES ASSUME met = {}
                 PROVE  /\ Cardinality(DOMAIN state) <= 1
                        /\ Cardinality({m \in Migrations : run[m].stage \in Running}) <= 1
      BY DEF OneMigrationAtATime
    <2>2. \A k, l \in DOMAIN state : k = l
      BY <1>1 DEF IInv, Alone
    <2>3. \A k, l \in {m \in Migrations : run[m].stage \in Running} : k = l
      BY <1>1 DEF IInv, Alone
    <2> QED
      BY <2>2, <2>3, AtMostOne
  <1> QED
    BY <1>1, Invariance, PTL

\* The state keeps migrations out only while one runs, or after one was abandoned, or after two met.
THEOREM LockedOutByAbandonedOnly == Spec => []LockedOutOnlyIfAbandoned
  <1>1. IInv => LockedOutOnlyIfAbandoned
    BY DEF IInv
  <1> QED
    BY <1>1, Invariance, PTL
=============================================================================
