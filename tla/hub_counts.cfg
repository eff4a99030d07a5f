CONSTANTS
    c1 = c1
    c2 = c2
    c3 = c3
    i1 = i1
    i2 = i2
    Nil = Nil
    Conns = {c1, c2, c3}
    Sessions = {s1, s2}
    Codes = {k1}
    IPs = {i1, i2}
    Tokens = {t1, Nil}
    Requests = {"create_code_session", "join_by_code", "create_session", "join", "reconnect", "reconnect_token", "malformed"}
    clientIP <- TwoAddresses
    MaxSessionsPerIP = 1
    SessionInactivityTimeout = 1
    ReconnectGracePeriod = 1
    PairingCodeTTL = 1
    MaxPairingAttempts = 1
    MaxTime = 0
SPECIFICATION Spec
INVARIANTS
    CountExact
