SPECIFICATION Spec
CONSTANTS
    Sessions = {s1}
    Polls = {p1, p2}
    Operators = {o1}
    Updates = {u1}
    Cleanups = {w1, w2}
    NoRow = NoRow
    MaxCleared = 1
    MaxFaults = 1
INVARIANTS
    OneRowPerClient
PROPERTIES
    ChangesStand
    RestartsHappen
    LiveProcessesAreShown
    OperatorsReachAgain
    WritersEnd
\* The process may be gone, and with it all that happens.
CHECK_DEADLOCK FALSE
