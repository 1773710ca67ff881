SPECIFICATION Spec
CONSTANTS
  Cap = 2
  Values <- MCValues
  Zero = 0
  MaxMany = 0
  Streams <- MCStreams
  MaxLineSize = 4
  MaxSize = 2
  Backups = 2
  Faults = TRUE
  MaxLives = 2
INVARIANTS TypeOK ReadsDoNotMatter DiskHasLatest
PROPERTIES KeepsTail
CHECK_DEADLOCK FALSE
