SPECIFICATION FairSpec
CONSTANTS
    p1 = p1
    p2 = p2
    PVs <- MCOnePV
    Driver <- MCOwn
    provisionerName = "vpc.block"
    Faults <- MCNoFaults
    MaxRev <- MCThree
    MaxRelists = 0
    MaxCrashes = 0
PROPERTIES
    BoundGetsTagged
CHECK_DEADLOCK FALSE
