SPECIFICATION Spec
CONSTANTS
    Threads = {t1, t2}
    Tags = {1, 2, 3}
    Align = 2
    Header = 2
    Break = 1
    Limit = 20
    WordMax = 31
    Sizes <- SomeSizes
    Arrays <- SomeArrays
SYMMETRY Interchangeable
INVARIANTS
    HeapWellFormed
    DataKept
    NothingLeaked
CHECK_DEADLOCK FALSE
