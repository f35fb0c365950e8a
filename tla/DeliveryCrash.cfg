CONSTANTS
  m1 = m1
  m2 = m2
  p1 = p1
  p2 = p2
  NoMsg = NoMsg
  NoProc = NoProc
  Rank <- MCRank
  Msgs = {m1, m2}
  Procs = {p1, p2}
  Notes = {m2}
  Hazardous = {m2}
  Expiring = {m1}
  MidTurn = FALSE
  MaxMishaps = 1
  Operator = {}
  Surfaces = {"idle"}
SPECIFICATION RunSpec
INVARIANTS
    FilesKept
    PastedOnce
    SendersTold
PROPERTIES
    ArrivalsSettle
