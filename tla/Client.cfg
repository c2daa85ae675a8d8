SPECIFICATION Spec
CONSTANTS
    Base = 3
    NumThreads = 2
    CmdData <- MCCmdData
    Answer <- MCAnswer
    SOCKETBUFFER_SIZE = 8
    SplitHeader = FALSE
    Faults = {"refuse", "short", "reset", "eof"}
INVARIANTS TypeOK OwnAnswer IdsInRange OneInstance SentIsClosed ThrowsMidResponse
PROPERTY MainReturns
CHECK_DEADLOCK FALSE
