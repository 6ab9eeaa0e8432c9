SPECIFICATION SendsSpec
CONSTANTS
    a = a
    b = b
    Bodies <- MCBodies
    MaxSends = 2
    MaxRare = 2
SYMMETRY BodySymmetry
INVARIANT StaysVisiblyPending
CHECK_DEADLOCK FALSE
