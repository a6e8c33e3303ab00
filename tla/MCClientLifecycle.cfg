SPECIFICATION ScenarioSpec
CONSTANTS
    Flushes = {f1}
    Shutdowns = {s1, s2}
    Last = s2
    Timeouts = {0, 2, 6}
    Floor = 1
    Horizon = 4
    MaxNotices = 1
    MaxEvents = 2
    MaxForks = 1
INVARIANTS
    NoOrphan
    FlushInTime
    ShutdownInTime
PROPERTIES
    FlushIsBarrier
    CallsReturn
CHECK_DEADLOCK FALSE
