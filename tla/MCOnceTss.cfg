SPECIFICATION Spec
CONSTANTS
    Threads = {t1, t2, t3}
    Flags = {f1}
    SlotCount = 2
    Iterations = 1
    MaxKeys = 2
    MaxSets = 2
SYMMETRY Interchangeable
INVARIANTS
    NoStrandedCaller
    PassedAfterInitializer
    ValuesRight
CHECK_DEADLOCK FALSE
