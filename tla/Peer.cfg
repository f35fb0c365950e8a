SPECIFICATION Spec
CONSTANTS
    Messages = {m1, m2}
    MaxTwists = 2
INVARIANTS
    EnteredAsTold
PROPERTIES
    ProofsCount
    ProofSettles
CHECK_DEADLOCK FALSE
