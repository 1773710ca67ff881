SPECIFICATION FairSpec
CONSTANTS
  u1 = u1
  u2 = u2
  Users = {u1, u2}
  MaxDaemons = 3
  MaxCommands = 4
  MaxCrashes = 1
  Orderly = TRUE
INVARIANTS OneDaemon RecordTrue
PROPERTIES NextStartWorks CommandsEnd
CHECK_DEADLOCK FALSE
