SPECIFICATION Spec
CONSTANTS
    g1 = g1
    g2 = g2
    Goroutines <- MCGoroutines
    Names <- MCNames
    Paths <- MCPaths
    MountPoints <- MCPaths
INVARIANTS
    FileWasMade
    DirWasMade
