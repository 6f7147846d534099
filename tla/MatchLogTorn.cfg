SPECIFICATION Spec
CONSTANTS
  Contact = {a, b}
  None = None
  LogMax = 2
  IdSpace = 3
  MaxTotal = 3
  FromV1 = FALSE
  Clock = 8
  LogSave = 2
  CutDuringWrite = TRUE
  PutMayFail = FALSE
INVARIANT RingNumbered
