SPECIFICATION Spec
CONSTANTS
  c1 = c1
  c2 = c2
  Callers <- OneCaller
  Ops = {"Start", "Restart"}
  MaxSpawns = 3
  MaxCalls = 2
  Settles = FALSE
  Mode = "never"
  MaxAttempts = 1
  ResetAfter = 0
SYMMETRY CallerSymmetry
INVARIANTS NoPanic
CHECK_DEADLOCK FALSE
