SPECIFICATION CopiesSpec
CONSTANTS
  Contact <- MCContact
  LogMax = 2
  IdSpace = 3
  MaxTotal = 4
  MaxRetries = 1
  MaxEpoch = 4
  Overlap = FALSE
  Outlives = FALSE
  LossyCut = FALSE
  GivesUp = FALSE
  Impatient = FALSE
  Forgets = TRUE
  StoreMayFail = TRUE
  Chunks <- SomeChunks
  Circles <- SomeCircles
  Blocks = 5
  Held <- SomeHeld
  KeepFree = 2
  Slack = 1
  Estimate = 1
  MaxNew = 2
  NoTile = NoTile
  Timely = TRUE
  MaxSyncs = 3
  MaxFetches = 1
  MaxFaults = 1
INVARIANTS
  CopiesTypeOK
  NoSkip
  PlanKept
PROPERTIES
  CursorRight
  OnlyWholeTiles
CHECK_DEADLOCK FALSE
