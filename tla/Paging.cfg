SPECIFICATION Spec
CONSTANTS
    g1 = g1
    g2 = g2
    g3 = g3
    g4 = g4
    All = All
    Rows = {g1, g2, g3, g4}
    Names <- MCNames
    Limits <- MCLimits
    MaxLimit = 3
    MaxWrites = 2
    MaxPages = 6
CHECK_DEADLOCK FALSE
SYMMETRY Symmetric
INVARIANTS
    TypeOK
    WalkCovers
    HasMoreHonest
