SPECIFICATION FairPanicSpec
CONSTANTS
    Threads = {t1, t2}
    Nobody = Nobody
    MaxClients = 2
    MaxPanics = 2
    MaxNesting = 2
INVARIANTS
    HookFollowsSlot
    GuardOwnsClient
    FlagsTrue
    EscapedAreFiled
PROPERTIES
    NoReportBehindGuard
    InitAndDropReturn
CHECK_DEADLOCK FALSE
