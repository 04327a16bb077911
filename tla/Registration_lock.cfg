CONSTANTS
    r1 = r1
    r2 = r2
    r3 = r3
    api = api
    other = other
    e1 = e1
    e2 = e2
    e3 = e3
    e4 = e4
    e5 = e5
    Requests <- ThreeRequests
    Apis <- OneApi
    At <- AllAtOneApi
    Entries <- FiveEntries
    ReadsWait = TRUE
SPECIFICATION Spec
INVARIANT OneRegistrationAtATime
INVARIANT WaitersWaitForSomeone
INVARIANT OneClientRow
SYMMETRY Symmetry
CHECK_DEADLOCK FALSE
