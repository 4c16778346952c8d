SPECIFICATION Spec
CONSTANTS
    MAX_HEAP = 64
    HeapLimits <- MCHeapLimits
    Garbage <- MCGarbage
    Ids <- MCIds
    Sizes <- MCSizes
    Fill <- MCFill
    CHUNKSIZE = 16
INVARIANTS
    TypeOK
    HeapOK
    PayloadsDisjoint
    RoverOnBlock
    SearchComplete
    SearchProgress
PROPERTIES
    ImplementsContract
    CallsReturn
CHECK_DEADLOCK TRUE
