SPECIFICATION FairSpec
CONSTANTS
    r1 = r1
    r2 = r2
    r3 = r3
    t1 = t1
    t2 = t2
    Requests <- MCRequests
    Targets <- MCTargets
INVARIANTS
    ReturnIsTruthful
    IndInv
    OverlapOnlyAfterTimeout
PROPERTIES
    CallReturns
CHECK_DEADLOCK FALSE
