SPECIFICATION Spec
CONSTANTS
    MAX_HEAP = 64
    HeapLimits <- MCHeapLimits
    Garbage <- MCGarbage
    Ids <- MCIds
    Sizes <- MCSizes
    Fill <- MCFill
    CHUNKSIZE = 16
    kbest = 2
    maxsamples = 3
    epsilon = 1
    n = 2
    cyc_per_tick = 4
    WORD = 4
    Readings <- MCReadings
    Timings <- MCTimings
    Setups <- MCSetups
INVARIANTS
    PassesAlike
    UtilisationTrue
    BestOfSamples
    ReportTrue
CHECK_DEADLOCK FALSE
