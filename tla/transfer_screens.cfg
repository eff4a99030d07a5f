CONSTANTS
    b1 = b1
    b2 = b2
    Batches = {b1, b2}
    BatchSize = 2
    Names <- MCNames
    MaxRenders = 3
    MaxSockets = 3
    MaxReceivers = 1
    MaxFiles = 3
CHECK_DEADLOCK FALSE
SPECIFICATION Spec
SYMMETRY AnyBatch
INVARIANTS
    
    SentOnce
    FilesStayInSession
    OneListener
    NoOverwrite
