CONSTANTS
    r1 = r1
    r2 = r2
    r3 = r3
    api = api
    other = other
    e1 = e1
    e2 = e2
    e3 = e3
    e4 = e4
    e5 = e5
    Requests <- TwoRequests
    Apis <- TwoApis
    At <- OneEach
    Entries <- FourEntries
    ReadsWait = TRUE
SPECIFICATION Spec
INVARIANT OneClientRow
CHECK_DEADLOCK FALSE
