SPECIFICATION Spec
CONSTANTS
    Fd = {1, 2}
    Stream <- MCStream
    End <- MCEnd
    Base = 2
    BufLen = 8
    SplitHeader = FALSE
    MidClose = TRUE
    MaxTasks = 4
INVARIANT TasksAreRequests
CHECK_DEADLOCK FALSE
