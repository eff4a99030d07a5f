CONSTANTS
    Codes = {k1, k2}
    MaxTries = 3
CHECK_DEADLOCK FALSE
SPECIFICATION Spec
INVARIANTS
    PairedMeansAgreed
    MismatchIsReal
    OneTagArrives
