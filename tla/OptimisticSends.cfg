SPECIFICATION SendsSpec
CONSTANTS
    a = a
    b = b
    Bodies <- MCBodies
    MaxSends = 2
    MaxRare = 2
SYMMETRY BodySymmetry
INVARIANTS
    OptimisticKept
    UnderwayShown
    ServerEntriesTrue
CHECK_DEADLOCK FALSE
