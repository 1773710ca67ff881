SPECIFICATION Spec
CONSTANTS
  Logs <- MatchLogs
  Sizes <- MCSizes
  Clicks = {}
  Keys = {}
  Filters = {"b"}
  MaxCount = 0
  MaxTurns = 3
  Shrinks = FALSE
PROPERTIES MatchShown
CHECK_DEADLOCK FALSE
