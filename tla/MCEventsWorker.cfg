SPECIFICATION FairSpec
CONSTANTS
    Flushes = {f1}
    Shutdown = Shutdown
    NoMsg = NoMsg
    Size <- MCSize
    ByteLimit = 3
    BatchSize = 2
    QueueSize = 3
    MaxRetries = 1
    ThrottleMax = 1
    Representable = TRUE
    MaxOffers = 4
INVARIANTS
    TypeOK
    CountersAgree
    EveryLineCounted
    Fifo
    BatchesBounded
    BackoffRespected
PROPERTIES
    ShutdownLeavesNothing
    Implements
    FlushAnswered
    KeptIsMovedOn
CHECK_DEADLOCK FALSE
