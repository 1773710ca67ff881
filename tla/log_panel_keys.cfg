SPECIFICATION Spec
CONSTANTS
  Logs <- KeyLogs
  Sizes <- MCSizes
  Clicks = {}
  Keys = {"l", "j", "k", "G", "w", "b", "e", "g", "+", "-", "ctrl+d", "y", "f", ";", "i", "(", "2"}
  Filters = {}
  MaxCount = 2
  MaxTurns = 2
  Shrinks = FALSE
PROPERTIES MotionShowsCursor
CHECK_DEADLOCK FALSE
