------------------------- MODULE MCClientRegistration -------------------------
(* Small instances of ClientRegistration for TLC. *)
EXTENDS ClientRegistration, TLC

CONSTANTS r1, r2, r3, api, other, e1, e2, e3, e4, e5

OneApi == {api}
TwoApis == {api, other}

TwoRequests == {r1, r2}
ThreeRequests == {r1, r2, r3}

AllAtOneApi == [r \in Requests |-> api]
OneEach == [r \in Requests |-> IF r = r1 THEN api ELSE other]

FourEntries == {e1, e2, e3, e4}
FiveEntries == {e1, e2, e3, e4, e5}

\* Requests at one process are interchangeable, and so are entries.
Symmetry == Permutations(Requests) \cup Permutations(Entries)
EntrySymmetry == Permutations(Entries)
=============================================================================
