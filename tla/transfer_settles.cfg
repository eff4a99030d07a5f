CONSTANTS
    FileCount = 2
    size <- FiveAndThree
    CHUNK_SIZE = 2
    WINDOW_SIZE = 2
    FrameOverhead = 1
    MaxFileSize = 5
    Faults = {"cancelSend", "readFails"}
CHECK_DEADLOCK FALSE
SPECIFICATION FairSpec
INVARIANTS
    LimitEnforced
PROPERTIES
    SendSettles
    ReceiveSettles
