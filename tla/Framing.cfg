SPECIFICATION Spec
CONSTANTS
    Fd = {1, 2}
    Stream <- MCStream
    End <- MCEnd
    Base = 2
    BufLen = 8
    SplitHeader = FALSE
    MidClose = FALSE
    MaxTasks = 4
INVARIANTS TypeOK TasksAreRequests CopiesInBounds
PROPERTY OnRecvReturns
CHECK_DEADLOCK FALSE
