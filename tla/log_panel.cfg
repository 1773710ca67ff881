SPECIFICATION Spec
CONSTANTS
  Logs <- MCLogs
  Sizes <- MCSizes
  Clicks <- MCClicks
  Keys = {"$", "v", "y", "g", "2", "w", "i"}
  Filters = {"a"}
  MaxCount = 2
  MaxTurns = 2
  Shrinks = FALSE
INVARIANTS SelectionShown ClickRoundTrip HitsAreMatches
PROPERTIES MotionShowsCursor CopiedWasShown
CHECK_DEADLOCK FALSE
