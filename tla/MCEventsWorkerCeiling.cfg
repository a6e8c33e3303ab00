SPECIFICATION Spec
CONSTANTS
    Flushes = {f1}
    Shutdown = Shutdown
    NoMsg = NoMsg
    Size <- MCSize
    ByteLimit = 3
    BatchSize = 2
    QueueSize = 2
    MaxRetries = 1
    ThrottleMax = 1
    Representable = TRUE
    MaxOffers = 3
INVARIANT
    BudgetBoundsOutstanding
CHECK_DEADLOCK FALSE
