SPECIFICATION FairSpec
CONSTANTS
    Threads = {m, w1, w2}
    Main = m
    NoThread = none
    Capacity = 2
    MaxRegistrations = 3
    MaxWrites = 2
    HandlersCreate = FALSE
INVARIANTS
    DrainOrdered
    NoneForgotten
    
PROPERTIES
    ExitTerminates
CHECK_DEADLOCK FALSE
