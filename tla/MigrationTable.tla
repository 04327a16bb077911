---------------------------- MODULE MigrationTable ----------------------------
(***************************************************************************)
(* What the migrations promise of a database, whatever instances over it   *)
(* start, fail or are killed: a migration is begun after the ones before   *)
(* it, but for those that were passed over; one instance carries it out,   *)
(* once each time it is begun; only what has been carried out completes,   *)
(* for good; one that fails may be begun again, and one that is abandoned  *)
(* is not.  There is no lock here, no row and no order of reading them.    *)
(***************************************************************************)
EXTENDS Integers

CONSTANTS
    Migrations,   \* numbers: a migration comes after the lower ones
    Instances

VARIABLES
    status,       \* "none", "begun", "carried out" or "complete"
    runners,      \* the instances at work on a migration
    passed        \* migrations that an instance has passed over

vars == <<status, runners, passed>>

Init ==
    /\ status = [m \in Migrations |-> "none"]
    /\ runners = [m \in Migrations |-> {}]
    /\ passed = {}

Becomes(m, new, by) ==
    /\ status' = [status EXCEPT ![m] = new]
    /\ runners' = [runners EXCEPT ![m] = by]
    /\ UNCHANGED passed

\* One instance comes to a migration that nobody has begun.
Begin(m, i) ==
    /\ status[m] = "none" /\ runners[m] = {}
    /\ \A k \in Migrations : k < m => (status[k] = "complete" \/ k \in passed)
    /\ Becomes(m, "begun", {i})

CarryOut(m, i) ==
    /\ status[m] = "begun" /\ runners[m] = {i}
    /\ Becomes(m, "carried out", {i})

Complete(m, i) ==
    /\ status[m] = "carried out" /\ runners[m] = {i}
    /\ Becomes(m, "complete", {})

\* It fails, and may be begun again.
GiveUp(m, i) ==
    /\ runners[m] = {i}
    /\ Becomes(m, "none", {})

\* The instance is killed, and the migration stays begun.
Abandon(m, i) ==
    /\ runners[m] = {i}
    /\ Becomes(m, "begun", {})

\* An instance goes on to the next one.
Pass(m) ==
    /\ status[m] # "complete"
    /\ passed' = passed \cup {m}
    /\ UNCHANGED <<status, runners>>

Next ==
    \E m \in Migrations :
        \/ Pass(m)
        \/ \E i \in Instances :
              Begin(m, i) \/ CarryOut(m, i) \/ Complete(m, i) \/ GiveUp(m, i) \/ Abandon(m, i)

Spec == Init /\ [][Next]_vars
=============================================================================
