SPECIFICATION Spec
CONSTANTS
    MAX_HEAP = 64
    HeapLimits <- MCHeapLimits
    Garbage <- MCGarbage
    Ids <- MCIds
    Sizes <- MCSizes
    Fill <- MCFill
    CHUNKSIZE = 16
INVARIANTS
    HeapOK
    RoverOnBlock
    SearchComplete
PROPERTIES
    SameChoicesAsDonguk
    CallsReturn
CHECK_DEADLOCK TRUE
