CONSTANTS
    c1 = c1
    c2 = c2
    c3 = c3
    i1 = i1
    i2 = i2
    Nil = Nil
    Conns = {c1, c2, c3}
    Sessions = {s1}
    Codes = {}
    IPs = {i1}
    Tokens = {t1}
    Requests = {"create_session", "join", "reconnect", "reconnect_token", "end_session"}
    clientIP <- OneAddress
    MaxSessionsPerIP = 3
    SessionInactivityTimeout = 2
    ReconnectGracePeriod = 1
    PairingCodeTTL = 1
    MaxPairingAttempts = 1
    MaxTime = 1
SPECIFICATION Spec
SYMMETRY AllConns
INVARIANTS
    TypeOK
    SlotOwned
PROPERTIES
    ImplementsSessionSlots
