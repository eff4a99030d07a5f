CONSTANTS
    RECONNECT_MAX_ATTEMPTS = 2
    MaxStarts = 3
CHECK_DEADLOCK FALSE
SPECIFICATION FairSpec
INVARIANTS
    TypeOK
    SocketsHeld
    PlayingIsHeld
    PairedIsConnected
PROPERTIES
    NoDeadEnd
