SPECIFICATION Spec
CONSTANTS
    p1 = p1
    p2 = p2
    PVs <- MCOnePV
    Driver <- MCOwn
    provisionerName = "vpc.block"
    Faults <- MCNoFaults
    MaxRev <- MCFour
    MaxRelists = 0
    MaxCrashes = 0
INVARIANTS
    SuccessMeansCurrent
CHECK_DEADLOCK FALSE
