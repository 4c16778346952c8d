SPECIFICATION Spec
CONSTANTS
    MAX_HEAP = 72
    HeapLimits <- MCHeapLimits
    Garbage <- MCGarbage
    Ids <- MCIds
    Sizes <- MCSizes
    Fill <- MCFill
    CHUNKSIZE = 16
PROPERTIES
    LargestFound
CHECK_DEADLOCK TRUE
