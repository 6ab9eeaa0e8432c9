SPECIFICATION RuntimeSpec
CONSTANTS
    Effects <- MCEffects
    NoEffect = "nothing"
    Quit = "quit"
    Outbox = "outbox"
    Kind <- MCKind
    Lane <- MCLane
    Limit <- MCLimit
    Remote <- MCRemote
    Transfers <- MCTransfers
    Serial <- MCSerial
    Priority <- MCPriority
    Group <- MCGroup
    NoGroup = "alone"
    FollowUp <- MCFollowUp
    Capacity = 3
    MailboxCapacity = 2
    MaxAsked = 3
    MaxCalls = 1
    MaxFaults = 1
INVARIANTS
    HeldOnceWithinCapacity
PROPERTIES
    LaneOrderKept
    NothingForgotten
    AcceptedFinished
    DrainsWhenDown
CHECK_DEADLOCK FALSE
