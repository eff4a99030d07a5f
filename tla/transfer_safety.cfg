CONSTANTS
    FileCount = 2
    size <- FiveAndEmpty
    CHUNK_SIZE = 2
    WINDOW_SIZE = 2
    FrameOverhead = 1
    MaxFileSize = 99
    Faults = {"cancelSend", "cancelReceive", "readFails", "writeFails", "senderDrops", "receiverDrops"}
CHECK_DEADLOCK FALSE
SPECIFICATION Spec
INVARIANTS
    TypeOK
    SavedWhole
    SentIsWritten
    AbortHonoured
    BacklogBounded
