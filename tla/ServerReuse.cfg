SPECIFICATION Safe
CONSTANTS
    Families = {"unix"}
    ListenFd = 9
    Fd = {1, 2}
    Requests <- MCReuse
    Patient = FALSE
INVARIANT RightClient
CHECK_DEADLOCK FALSE
