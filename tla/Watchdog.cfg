CONSTANTS
  g1 = g1
  g2 = g2
  p1 = p1
  p2 = p2
  NoGen = NoGen
  NoProc = NoProc
  Procs = {p1, p2}
  Gens = {g1, g2}
  MaxTeams = 2
  MaxMishaps = 1
  Cancels = TRUE
  PromptArm = TRUE
  PromptSweep = TRUE
SPECIFICATION FairSpec
INVARIANTS
    NoStrayTimer
    TimerOrOutage
PROPERTIES
    TimersFollowAgents
CHECK_DEADLOCK FALSE
