SPECIFICATION Spec
CONSTANTS
    Controls = {c1, c2}
    Tids = {i1}
    Main = main
    None = none
    MaxThreads = 2
    MaxFaults = 0
    StaleHandles = FALSE
INVARIANTS
    HandleNamesThread
CHECK_DEADLOCK FALSE
