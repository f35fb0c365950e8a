SPECIFICATION Spec
CONSTANTS
    Parts = {"wakes", "caps", "bands"}
    MaxTurns = 3
    MaxNow = 3
    MaxTwists = 2
INVARIANTS
    OutcomesInOrder
    SharedStateKept
PROPERTIES
    WakesOnce
    BandsKept
    WakesEnd
CHECK_DEADLOCK FALSE
