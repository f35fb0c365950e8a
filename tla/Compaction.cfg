SPECIFICATION Spec
CONSTANTS
    Ids = {i1, i2}
    None = None
    Collars = {"claude", "codex"}
    MaxTime = 2
    MaxMishaps = 1
SYMMETRY Symmetry
INVARIANTS
    NotesRun
    NoticesAreTrue
    CompletionIsOwn
CHECK_DEADLOCK FALSE
