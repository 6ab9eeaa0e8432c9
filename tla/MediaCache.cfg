SPECIFICATION CacheSpec
CONSTANTS
    Avatars = {a}
    Messages = {m}
    Workers = {w1, w2}
    Limit = 1
    Nothing = Nothing
SYMMETRY Interchangeable
INVARIANTS
    KeptThere
    NothingLeftCut
    BoundedWhenQuiet
CHECK_DEADLOCK FALSE
