SPECIFICATION Spec
CONSTANTS
  c1 = c1
  c2 = c2
  Callers <- OneCaller
  Ops = {"Start", "Stop"}
  MaxSpawns = 2
  MaxCalls = 3
  Settles = FALSE
  Mode = "never"
  MaxAttempts = 1
  ResetAfter = 0
SYMMETRY CallerSymmetry
INVARIANTS StoppingEnds
CHECK_DEADLOCK FALSE
