SPECIFICATION Spec
CONSTANTS
  c1 = c1
  c2 = c2
  Callers <- OneCaller
  Ops = {"Start", "Stop"}
  MaxSpawns = 3
  MaxCalls = 2
  Settles = FALSE
  Mode = "on-failure"
  MaxAttempts = 1
  ResetAfter = 0
PROPERTIES StopSticks
CHECK_DEADLOCK FALSE
