SPECIFICATION Spec
CONSTANTS
  Contact <- MCContact
  LogMax = 2
  IdSpace = 3
  MaxTotal = 3
  MaxRetries = 1
  MaxEpoch = 4
  Overlap = TRUE
  Outlives = FALSE
  LossyCut = FALSE
  GivesUp = FALSE
  Impatient = FALSE
  Forgets = FALSE
  StoreMayFail = FALSE
INVARIANTS NoSkip
CHECK_DEADLOCK FALSE
