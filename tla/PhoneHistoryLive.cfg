SPECIFICATION HistSpec
CONSTANTS
  HeardKey = {k1}
  EndAfter = 2
  FlushEvery = 1
  MayDie = FALSE
  MaxNotes = 2
  MaxBroken = 0
  LastTime = 5
INVARIANT LiveWhileHeard
CHECK_DEADLOCK FALSE
