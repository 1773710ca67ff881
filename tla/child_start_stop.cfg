SPECIFICATION FairSpec
CONSTANTS
  c1 = c1
  c2 = c2
  Callers <- TwoCallers
  Ops = {"Start", "Stop"}
  MaxSpawns = 2
  MaxCalls = 3
  Settles = FALSE
  Mode = "never"
  MaxAttempts = 1
  ResetAfter = 0
INVARIANTS SingleProcess NoPanic ClosedMeansReaped PidSettles
PROPERTIES StopEnds
CHECK_DEADLOCK FALSE
