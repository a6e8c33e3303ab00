SPECIFICATION PanicSpec
CONSTANTS
    Threads = {t1}
    Nobody = Nobody
    MaxClients = 1
    MaxPanics = 1
    MaxNesting = 1
INVARIANT
    CaughtNotReported
CHECK_DEADLOCK FALSE
