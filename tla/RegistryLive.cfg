CONSTANTS
    Ids = {h1}
    Names = {n1, n2}
    None = None
    MaxOps = 3
    MaxMishaps = 2
SPECIFICATION FairSpec
PROPERTIES
    StartupsEnd
CHECK_DEADLOCK FALSE
