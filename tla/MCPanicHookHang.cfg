SPECIFICATION FairPanicSpec
CONSTANTS
    Threads = {t1}
    Nobody = Nobody
    MaxClients = 1
    MaxPanics = 1
    MaxNesting = 1
PROPERTY
    PanicPathEnds
CHECK_DEADLOCK FALSE
