SPECIFICATION Spec
CONSTANTS
    MaxNum = 2
    MinNum = 1
    max_checkTimes = 2
    ShortMod = 5
    MaxTasks = 3
    MaxThreads = 4
    Workless = {}
    SlowStart = FALSE
    ShutdownCalls = {}
PROPERTIES
    TaskRuns
CHECK_DEADLOCK FALSE
