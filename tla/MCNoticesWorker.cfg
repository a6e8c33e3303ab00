SPECIFICATION FairSpec
CONSTANTS
    Flushes = {f1}
    Shutdowns = {s1}
    NoMsg = NoMsg
    QueueSize = 2
    ThrottleMax = 2
    MaxOffers = 3
INVARIANT
    EveryNoticeCounted
PROPERTIES
    Implements
    CallsAnswered
    NoticeServed
CHECK_DEADLOCK FALSE
