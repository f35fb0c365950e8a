CONSTANTS
  w1 = w1
  w2 = w2
  m1 = m1
  m2 = m2
  p1 = p1
  p2 = p2
  NoMsg = NoMsg
  Workers = {w1, w2}
  Sweeps = {p1}
  Msgs = {m1}
  Verdicts = {"delivered", "unverified"}
  MaxNotices = 2
  MaxTurns = 2
  MaxLeads = 2
  MaxCrashes = 1
SPECIFICATION Spec
INVARIANTS
    CountedOnce
    NoticeOnce
PROPERTIES
    NoticeIsDue
SYMMETRY Symmetry
