CONSTANTS
    c1 = c1
    c2 = c2
    c3 = c3
    i1 = i1
    i2 = i2
    Nil = Nil
    Conns = {c1, c2}
    Sessions = {s1}
    Codes = {}
    IPs = {i1, i2}
    Tokens = {}
    Requests = {"create_session", "join", "end_session"}
    clientIP <- TwoAddresses
    MaxSessionsPerIP = 1
    SessionInactivityTimeout = 2
    ReconnectGracePeriod = 1
    PairingCodeTTL = 1
    MaxPairingAttempts = 1
    MaxTime = 0
SPECIFICATION Spec
INVARIANTS
    SlotsReturned
