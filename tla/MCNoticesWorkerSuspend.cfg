SPECIFICATION Spec
CONSTANTS
    Flushes = {f1}
    Shutdowns = {s1}
    NoMsg = NoMsg
    QueueSize = 2
    ThrottleMax = 2
    MaxOffers = 3
INVARIANT
    SuspensionHolds
CHECK_DEADLOCK FALSE
