SPECIFICATION Spec
CONSTANTS
    e1 = e1
    e2 = e2
    s1 = s1
    s2 = s2
    Executions = {e1, e2}
    Sessions = {s1, s2}
    Lanes <- MCLanes
    MayAsk <- MCMayAsk
    Knows <- MCKnows
    AnySession = AnySession
    Nobody = Nobody
    MaxFaults = 1
INVARIANTS
    RunsOnceWithoutOverlap
    ReportsAreTrue
    HandedOutIsAccountedFor
PROPERTIES
    RequestsEnd
\* Between requests the processes poll and find nothing, which is no step of the model.
CHECK_DEADLOCK FALSE
