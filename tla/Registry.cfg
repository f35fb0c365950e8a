CONSTANTS
    Ids = {h1, h2}
    Names = {n1, n2}
    None = None
    MaxOps = 3
    MaxMishaps = 1
SPECIFICATION Spec
INVARIANTS
    OneNative
    RecordsHold
PROPERTIES
    OwnPanesOnly
CHECK_DEADLOCK FALSE
SYMMETRY Symmetry
