SPECIFICATION Spec
CONSTANTS
  Keys = {"ctrl+c", "esc", "enter", "x", ":", "?", "/", "g", "b", "a", "v", "paste"}
  MaxMail = 2
INVARIANTS ModeHasPane EscDelivered
PROPERTIES QuitDeliberate
CHECK_DEADLOCK FALSE
