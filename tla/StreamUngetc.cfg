SPECIFICATION Spec
CONSTANTS
    Modes <- AllModes
    Contents <- TwoBytes
    Newline = "newline"
    Data <- SomeData
    PushedBack = "pushed"
    ReadSizes = {1, 2}
    Capacities = {1, 2}
    MaxFile = 4
    UngetUnbuffered = TRUE
PROPERTIES
    PushbackServedFirst
