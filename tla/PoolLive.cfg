SPECIFICATION Spec
CONSTANTS
    MaxNum = 3
    MinNum = 1
    max_checkTimes = 2
    ShortMod = 6
    MaxTasks = 4
    MaxThreads = 5
    Workless = {}
    SlowStart = FALSE
    ShutdownCalls = {}
INVARIANTS
    ThreadsWithinMax
PROPERTIES
    AddTaskReturns
    TakenUnlessPoolEmpty
    SurplusLeaves
CHECK_DEADLOCK FALSE
