SPECIFICATION FairSpec
CONSTANTS
  p1 = p1
  p2 = p2
  Projects = {p1}
  RunStates = {"idle", "running"}
  Conns = {1, 2}
  EventCap = 1
  LogCap = 1
  CtrlCap = 2
  RingCap = 1
  MaxEvents = 2
INVARIANTS TypeOK Handoff LogOrder
CHECK_DEADLOCK FALSE
PROPERTIES ShutdownEnds NoGoroutineLeak
