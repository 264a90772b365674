SPECIFICATION FairSpec
CONSTANTS
    g1 = g1
    g2 = g2
    g3 = g3
    s1 = s1
    s2 = s2
    n1 = n1
    Nobody = Nobody
    Goroutines <- MCGoroutines
    Stores <- MCStores
    Names <- MCNames
    MaxHeld = 2
INVARIANTS
    TypeOK
    MutualExclusion
    NeverFatal
    IndInv
    OneMutexPerName
PROPERTIES
    MutexesAreStable
    UnlockReturns
    ImplementsFairNamedLocks
CHECK_DEADLOCK FALSE
