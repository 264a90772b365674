SPECIFICATION KeySpec
CONSTANTS
    s1 = s1
    s2 = s2
    k1 = k1
    k2 = k2
    Sessions <- MCSessions
    Callers <- MCCallers
    MaxConnects = 2
INVARIANTS
    CloseEndsSingleUse
    KeyIsOwn
    CutCallHasNoKey
PROPERTIES
    CloseKeepsOthers
    CloseEndsCalls
