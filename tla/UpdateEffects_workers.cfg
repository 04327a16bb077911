SPECIFICATION Spec
CONSTANTS
    Instances = {a1, a2}
    Servers = {a1}
    Updates = {u1, u2}
    Scheduled = {u2}
    Hooks = {k1, k2}
    Matching = {u1}
    None = None
    MaxFaults = 1
INVARIANTS
    OnlyTimeoutsBreakTheLock
    CheckpointsHoldTheirChanges
    HooksAreAccountedFor
PROPERTIES
    OneCheckpointPerTrigger
    ChangesAreCheckpointed
\* All updates may be done.
CHECK_DEADLOCK FALSE
