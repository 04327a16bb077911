CONSTANTS
    r1 = r1
    l1 = l1
    l2 = l2
    Runs <- OneRun
    Lanes <- OneLane
    MaxWaiting = 1
    MaxUpdates = 1
    AllowOfflineSettings = TRUE
    OfflineChoices <- Forbid
    LiveReloadChoices <- None
    Background <- Cleanup
SPECIFICATION FairSpec
PROPERTY ConnectedProcessesCatchUp
PROPERTY ForbiddenOfflineFileGoes
CHECK_DEADLOCK FALSE
