SPECIFICATION Spec
CONSTANTS
  c1 = c1
  c2 = c2
  Callers <- TwoCallers
  Ops = {"Start", "Stop", "Restart"}
  MaxSpawns = 2
  MaxCalls = 2
  Settles = FALSE
  Mode = "on-failure"
  MaxAttempts = 1
  ResetAfter = 1
SYMMETRY CallerSymmetry
INVARIANTS TypeOK WgBalance
CHECK_DEADLOCK FALSE
