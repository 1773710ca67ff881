SPECIFICATION MortalSpec
CONSTANTS
  c1 = c1
  c2 = c2
  Callers <- OneCaller
  Ops = {"Start", "Stop"}
  MaxSpawns = 6
  MaxCalls = 3
  Settles = FALSE
  Mode = "on-failure"
  MaxAttempts = 1
  ResetAfter = 0
INVARIANTS RespawnBudget
PROPERTIES CrashLoopEnds
CHECK_DEADLOCK FALSE
