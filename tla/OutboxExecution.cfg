CONSTANTS
    Ids <- MCIds
    Times <- MCTimes
    NoTime = NoTime
    NoRow = NoRow
    Admitted <- Mixed
    SendParts = 2
    Delays <- MCDelays
    MaxTime = 2
    MaxFaults = 1
    MaxActs = 1
SPECIFICATION FairExecSpec
CHECK_DEADLOCK FALSE
INVARIANTS
    CoordinatorOwnsActive
    MutationAppliedOnce
    UnsentMutationsUnsent
PROPERTIES
    StoreSpec
    PendingSettles
    RemovedOnlyWhenApplied
    CancellationNotReplayed
