SPECIFICATION CarefulSpec
CONSTANTS
    MAX_HEAP = 64
    HeapLimits <- MCHeapLimits
    Garbage <- MCGarbage
    Ids <- MCIds
    Sizes <- MCSizes
    Fill <- MCFill
    CHUNKSIZE = 16
INVARIANTS
    HeapOK
    PayloadsDisjoint
    RoverOnBlock
    SearchComplete
PROPERTIES
    ImplementsContract
    CallsReturn
CHECK_DEADLOCK TRUE
