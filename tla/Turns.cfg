SPECIFICATION Spec
CONSTANTS
    MaxTurns = 2
    MaxTwists = 1
INVARIANTS
    BoundaryKept
    OpenTurnIsReal
    VerdictsAreReal
CHECK_DEADLOCK FALSE
