CONSTANTS
    Ids <- MCIds
    Times <- MCTimes
    NoTime = NoTime
    NoRow = NoRow
SPECIFICATION StoreSpec
INVARIANTS
    SingleActive
    IdentitiesFresh
PROPERTIES
    InterruptedMutationsHeld
    WithdrawnStaysWithdrawn
    KeepsPromise
