SPECIFICATION FairSpec
CONSTANTS
    Controls = {c1}
    Tids = {i1}
    Main = main
    None = none
    MaxThreads = 1
    MaxFaults = 0
    StaleHandles = FALSE
PROPERTIES
    DetachedReclaimed
CHECK_DEADLOCK FALSE
