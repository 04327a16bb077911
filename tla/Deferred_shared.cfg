CONSTANTS
    a = a
    b = b
    Instances <- Two
    Values <- TwoValues
    InitialValue = 0
    Horizon = 2
    MaxChanges = 5
    MaxEdits = 2
    MaxFaults = 0
SPECIFICATION Spec
INVARIANT DeletedStaysDeleted
INVARIANT AppliedOncePerInstance
SYMMETRY Symmetry
CHECK_DEADLOCK FALSE
