CONSTANTS
  m1 = m1
  m2 = m2
  p1 = p1
  p2 = p2
  NoMsg = NoMsg
  NoProc = NoProc
  Rank <- MCRank
  Msgs = {m1, m2}
  Procs = {p1}
  Notes = {m2}
  Hazardous = {m2}
  Expiring = {}
  MidTurn = TRUE
  MaxMishaps = 1
  Operator = {"types", "submits", "clears"}
  Surfaces = {"idle", "busy", "prompt"}
SPECIFICATION Spec
INVARIANTS
    TypeOK
    FailedNeverKeyed
    DeliveredIsProven
PROPERTIES
    KeepsReceipts
