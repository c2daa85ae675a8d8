SPECIFICATION Spec
CONSTANTS
    Base = 3
    NumThreads = 2
    CmdData <- MCCmdData
    Answer <- MCAnswer
    SOCKETBUFFER_SIZE = 8
    SplitHeader = FALSE
    Faults = {"eof"}
INVARIANT ResponseWhole
CHECK_DEADLOCK FALSE
