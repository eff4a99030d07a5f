CONSTANTS
    RECONNECT_MAX_ATTEMPTS = 2
    Faults = {"swap"}
    MaxConns = 3
    MaxSwaps = 2
CHECK_DEADLOCK FALSE
SPECIFICATION Spec
INVARIANTS
    RolesComplement
