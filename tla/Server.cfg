SPECIFICATION Spec
CONSTANTS
    Families = {"unix", "ipv4", "ipv6"}
    ListenFd = 9
    Fd = {1, 2}
    Requests <- MCRequests
    Patient = TRUE
INVARIANTS TypeOK RightClient AnsweredOnce
PROPERTIES AnswerArrives GoneIsClosed TcpNeverClosed OnlySignalWakes CloseReturns
CHECK_DEADLOCK FALSE
