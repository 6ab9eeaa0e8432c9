SPECIFICATION DriverSpec
CONSTANTS
    Calls = {"a", "b", "big"}
    NoCall = "none"
    Capacity = 2
    MaxBadMessageRetries = 1
    Oversized = {"big"}
    Patient = {"a"}
    Outcomes = {"result"}
    MaxMessages = 4
    MaxAnswers = 2
    MaxPings = 1
INVARIANTS
    CallsHeldAndCounted
    SendsBounded
PROPERTIES
    KeepsRpcPromise
    CallsMoveOn
CHECK_DEADLOCK FALSE
