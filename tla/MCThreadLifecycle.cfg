SPECIFICATION Spec
CONSTANTS
    Controls = {c1, c2}
    Tids = {i1, i2, i3}
    Main = main
    None = none
    MaxThreads = 3
    MaxFaults = 1
    StaleHandles = TRUE
SYMMETRY Interchangeable
INVARIANTS
    
    CountRight
    JoinerNotStranded
CHECK_DEADLOCK FALSE
