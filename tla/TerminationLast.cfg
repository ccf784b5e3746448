SPECIFICATION Spec
CONSTANTS
    Threads = {m, w1, w2}
    Main = m
    NoThread = none
    Capacity = 2
    MaxRegistrations = 1
    MaxWrites = 0
    HandlersCreate = TRUE
PROPERTIES
    LastThreadIsAlone
CHECK_DEADLOCK FALSE
