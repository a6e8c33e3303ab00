SPECIFICATION Spec
CONSTANTS
    Unset = Unset
    Junk = Junk
    Values <- MCValues
    Raws <- MCRaws
    U8Max = 255
    U32Max = 65535
    UsizeMax = 65535
    U64Max = 131071
    UrgentMax = 5
    MaxRetryAfter = 86400
    Headers <- MCHeaders
    MaxCalls = 2
    MaxVariables = 2
INVARIANTS
    BuilderBeatsEnvironment
    NumbersKept
    ConfigUsable
    ServiceOnlyIfWanted
CHECK_DEADLOCK FALSE
