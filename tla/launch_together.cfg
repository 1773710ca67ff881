SPECIFICATION Spec
CONSTANTS
  u1 = u1
  u2 = u2
  Users = {u1, u2}
  MaxDaemons = 2
  MaxCommands = 2
  MaxCrashes = 0
  Orderly = FALSE
INVARIANTS Reachable
SYMMETRY UserSymmetry
CHECK_DEADLOCK FALSE
