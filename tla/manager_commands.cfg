SPECIFICATION Spec
CONSTANTS
  a = a
  b = b
  g1 = g1
  g2 = g2
  Projects = {a, b}
  Configs <- FileConfigs
  Cmds = {g1, g2}
  Ops = {"Start", "Stop", "Restart", "StartGroup", "StopAll", "Reload", "Close"}
  Alone = {"Reload", "Close"}
  Overlap = FALSE
  Settles = TRUE
  KeepsUp = TRUE
  EventCap = 1
  MaxChildren = 3
  MaxSpawns = 2
  MaxCommands = 7
SYMMETRY CmdSymmetry
INVARIANTS TypeOK Stoppable Reconciled StoreSettles CloseFinds
CHECK_DEADLOCK FALSE
