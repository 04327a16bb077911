CONSTANTS
    a = a
    b = b
    Instances <- One
    Values <- TwoValues
    InitialValue = 0
    Horizon = 3
    MaxChanges = 5
    MaxEdits = 2
    MaxFaults = 1
SPECIFICATION FairSpec
INVARIANT NothingIsLost
INVARIANT TemporaryHasRevert
CHECK_DEADLOCK FALSE
PROPERTY DueChangesEnd
