SPECIFICATION FairDeliverySpec
CONSTANTS
    Scopes <- MCScopes
    Account = "account"
    NoEnvelope = NoEnvelope
    Envelopes <- BothEnvelopes
    Content <- BothContent
    Worlds <- BothWorlds
    Own <- OwnRequest
    MaxArrivals = 1
    MaxFaults = 1
    Capacity = 1
INVARIANTS
    DurableBeforeExposed
    CursorBackedByRecords
    ChangesInOrderOnce
    AcknowledgedWhenDelivered
    BarrierKeepsPrefix
PROPERTY
    LiveWorkDone
CHECK_DEADLOCK FALSE
