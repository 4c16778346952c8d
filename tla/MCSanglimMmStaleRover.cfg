SPECIFICATION Spec
CONSTANTS
    MAX_HEAP = 64
    HeapLimits <- StaleHeapLimits
    Garbage <- ZeroGarbage
    Ids <- StaleIds
    Sizes <- StaleSizes
    Fill <- StaleFill
    CHUNKSIZE = 16
INVARIANTS
    PayloadsDisjoint
CHECK_DEADLOCK FALSE
