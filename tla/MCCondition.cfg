SPECIFICATION Spec
CONSTANTS
    Threads = {t1, t2, t3}
    NoThread = none
    Recursive = TRUE
    DepthMax = 2
    MaxSignals = 1
SYMMETRY Interchangeable
INVARIANTS
    TypeOK
    OwnershipAgrees
    NoLostWakeup
    NoMissedBroadcast
PROPERTIES
    ImplementsMutex
    WaitKeepsOwnership
CHECK_DEADLOCK FALSE
