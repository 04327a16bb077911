--------------------------- MODULE SettingsReplica ---------------------------
(***************************************************************************)
(* What the client library promises of the values it hands to a process,   *)
(* without polls, requests or times: each process runs with one committed  *)
(* version of the settings as a whole, it only moves on to newer ones, and *)
(* what it falls back on when the API is gone is the last version some     *)
(* process stored, or the defaults of the settings class.                  *)
(***************************************************************************)
EXTENDS Integers

CONSTANT Runs              \* the processes

Default == -1              \* the defaults of the settings class

VARIABLES
    committed,   \* the version the API has committed
    stored,      \* the version in the offline file, or Default without one
    copy,        \* the version each process runs with
    source       \* where that version comes from

vars == <<committed, stored, copy, source>>

Init ==
    /\ committed = 0
    /\ stored = Default
    /\ copy = [r \in Runs |-> Default]
    /\ source = [r \in Runs |-> "none"]

\* The API commits a change.
Commit ==
    /\ committed' = committed + 1
    /\ UNCHANGED <<stored, copy, source>>

\* A process takes a committed version over, no older than one it already had
\* from the API, and may store it.
Pull(r) ==
    \E version \in 0..committed :
        /\ source[r] = "server" => copy[r] <= version
        /\ copy' = [copy EXCEPT ![r] = version]
        /\ source' = [source EXCEPT ![r] = "server"]
        /\ stored' \in {stored, version}
        /\ UNCHANGED committed

\* The API is gone: a process falls back on the stored version.
FallBack(r) ==
    /\ copy' = [copy EXCEPT ![r] = stored]
    /\ source' = [source EXCEPT ![r] = "offline"]
    /\ UNCHANGED <<committed, stored>>

\* The stored version is deleted.
Forget ==
    /\ stored' = Default
    /\ UNCHANGED <<committed, copy, source>>

\* A process ends.
Leave(r) ==
    /\ copy' = [copy EXCEPT ![r] = Default]
    /\ source' = [source EXCEPT ![r] = "none"]
    /\ UNCHANGED <<committed, stored>>

Next ==
    \/ Commit \/ Forget
    \/ \E r \in Runs : Pull(r) \/ FallBack(r) \/ Leave(r)

Spec == Init /\ [][Next]_vars
=============================================================================
