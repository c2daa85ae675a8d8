SPECIFICATION Safe
CONSTANTS
    MaxNum = 2
    MinNum = 1
    max_checkTimes = 2
    ShortMod = 5
    MaxTasks = 3
    MaxThreads = 4
    Workless = {2}
    SlowStart = TRUE
    ShutdownCalls = {"release", "delete"}
INVARIANTS
    TypeOK
    QueueInOrder
    ExactlyOnce
    CountIsExact
PROPERTIES
    ImplementsTaskQueue
    ShutdownJoinsAll
    JoinUnderLockNeverEnds
CHECK_DEADLOCK FALSE
