SPECIFICATION LibrarySpec
CONSTANTS
    Threads = {t1, t2}
    NoOne = none
    Modes <- AllModes
    Contents <- TwoBytes
    Newline = "newline"
    Data <- OneLine
    PushedBack = "pushed"
    ReadSizes = {1, 2}
    Capacities = {1, 2}
    MaxFile = 4
    Files = {c1}
    Std = std
    Descriptors = {1, 2}
    Buffers = {b1}
    BufferKinds = {"inline", "owned"}
    OpenModes <- WriteModes
    BufferSize = 2
    MaxAccepted = 2
    MaxFaults = 1
    LocaleCells = {l1, l2}
    Categories = {"LC_CTYPE", "LC_NUMERIC"}
    Names = {"C", "C.UTF-8", ""}
    Environments <- Utf8Environment
    Children = {p1}
    Handlers = {1, 2}
    Roles <- TwoTriplets
    HandlerCapacity = 2
    ActionSlots = 2
    Locks = {"stdio"}
    Actions <- TwoActions
    Table <- TwoDescriptors
    MaxForks = 1
SYMMETRY Symmetry
PROPERTIES  ClassesRight  StringsRight CalendarRight 
INVARIANTS OutputKept PositionAgrees CacheConsistent StreamsAccounted LossReported OneEncoding ObjectsWhole LocaleFrozen
           ForkSafe SpawnApplied
CHECK_DEADLOCK FALSE
