SPECIFICATION Spec
CONSTANTS
    Ids <- LargeIds
    Sizes <- MCSizes
    Addrs <- MCAddrs
    HeapLo = 8
    HeapHi = 23
INVARIANTS
    NoFalseAlarm
CHECK_DEADLOCK TRUE
