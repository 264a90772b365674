SPECIFICATION ExpansionSpec
CONSTANTS
    g1 = g1
    g2 = g2
    Goroutines <- MCGoroutines
    Half = 20
    GiB = 4
    MaxSize = 19
INVARIANTS
    ResizeCovers
    RequestHonoured
    ExpansionInv
PROPERTIES
    NeverShrinks
    ExpansionIsExact
