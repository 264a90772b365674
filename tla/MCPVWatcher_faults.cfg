SPECIFICATION FairSpec
CONSTANTS
    p1 = p1
    p2 = p2
    PVs <- MCTwoPVs
    Driver <- MCOwnOther
    provisionerName = "vpc.block"
    Faults <- MCFaults
    MaxRev <- MCThreeOne
    MaxRelists = 1
    MaxCrashes = 1
INVARIANTS
    TypeOK
    SavedIsGenuine
    SuccessMeansSaved
PROPERTIES
    UpdateIsHandled
    ImplementsAsyncSaver
CHECK_DEADLOCK FALSE
