SPECIFICATION KeptSpec
CONSTANTS
  Contact = {a, b}
  None = None
  LogMax = 2
  IdSpace = 3
  MaxTotal = 3
  FromV1 = TRUE
  Clock = 8
  LogSave = 2
  CutDuringWrite = FALSE
  PutMayFail = FALSE
  LastToggle = 2
  MaxPolicies = 3
  MaxRefusals = 1
  Drone = {"plain", "two", "left", "right"}
  IdsOf <- SomeIds
  AddrsOf <- SomeAddrs
  Unsaid = "none"
  ExpireAfter = 1
  MaxFrames = 4
  LastSecond = 3
  HeardKey = {k1, k2}
  EndAfter = 2
  FlushEvery = 1
  MayDie = TRUE
  MaxNotes = 3
  MaxBroken = 1
  LastTime = 5
INVARIANTS
  KeptTypeOK
  RingNumbered
  RxAsSet
  OneContact
  HistoryTrue
PROPERTIES
  Refinement
  SavedInTime
CHECK_DEADLOCK FALSE
