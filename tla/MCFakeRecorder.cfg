SPECIFICATION FairSpec
CONSTANTS
    g1 = g1
    g2 = g2
    g3 = g3
    Nobody = Nobody
    Goroutines <- MCGoroutines
    Methods <- FakeNodeInfo
    MaxCalls = 3
INVARIANTS
    RecordsAgree
    NumberIsOwn
PROPERTIES
    CallsReturn
CHECK_DEADLOCK FALSE
