CONSTANTS
    i1 = i1
    Nil = Nil
    Conns = {c1, c2, c3, c4}
    Sessions = {s1, s2}
    Codes = {k1}
    IPs = {i1}
    Tokens = {}
    Requests = {"create_code_session", "join_by_code"}
    clientIP <- OneAddress
    MaxSessionsPerIP = 1
    SessionInactivityTimeout = 9
    ReconnectGracePeriod = 9
    PairingCodeTTL = 2
    MaxPairingAttempts = 2
    MaxTime = 3
SYMMETRY Symmetry
SPECIFICATION CodesSpec
INVARIANTS
    CodeMatchesOnce
    CodeLeadsHome
    GuessRateBounded
