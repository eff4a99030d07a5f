CONSTANTS
    RECONNECT_MAX_ATTEMPTS = 2
    Faults = {"host", "connectFails", "reap", "disconnect"}
    MaxConns = 4
    MaxSwaps = 0
CHECK_DEADLOCK FALSE
SPECIFICATION FairSpec
INVARIANTS
    TypeOK
    EpochsAgree
PROPERTIES
    ReconnectSettles
