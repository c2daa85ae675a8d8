SPECIFICATION Spec
CONSTANTS
    MaxNum = 2
    MinNum = 2
    max_checkTimes = 2
    ShortMod = 6
    MaxTasks = 3
    MaxThreads = 5
    Workless = {}
    SlowStart = FALSE
    ShutdownCalls = {}
PROPERTIES
    TaskRuns
