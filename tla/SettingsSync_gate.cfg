CONSTANTS
    r1 = r1
    l1 = l1
    l2 = l2
    Runs <- OneRun
    Lanes <- TwoLanes
    MaxWaiting = 1
    MaxUpdates = 2
    AllowOfflineSettings = TRUE
    OfflineChoices <- None
    LiveReloadChoices <- Forbid
    Background <- Scheduler
SPECIFICATION Spec
INVARIANT StaleValuesAreNoticed
PROPERTY ServerValuesNeverRegress
PROPERTY ImplementsReplica
SYMMETRY Symmetry
CHECK_DEADLOCK FALSE
