SPECIFICATION Spec
CONSTANTS
    Ids <- MCIds
    Sizes <- MCSizes
    Addrs <- MCAddrs
    HeapLo = 8
    HeapHi = 23
INVARIANTS
    RangesMirrorBlocks
    NoFalseAlarm
    OnlyEnclosingMissed
CHECK_DEADLOCK TRUE
