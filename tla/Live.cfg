SPECIFICATION LiveSpec
CONSTANTS
  Contact <- MCContact
  LogMax = 2
  IdSpace = 3
  MaxTotal = 1
  MaxRetries = 1
  MaxEpoch = 1
  Overlap = TRUE
  Outlives = FALSE
  LossyCut = TRUE
  GivesUp = TRUE
  Impatient = FALSE
  Forgets = FALSE
  StoreMayFail = TRUE
  Hops <- SomeHops
  Swept = 3
  MaxTurns = 4
  MaxEnds = 2
  MaxRefused = 1
  net1 = net1
  psk1 = psk1
  ble = ble
  Ssid = {net1}
  Psk = {psk1}
  MaxSaved = 1
  Src = {ble}
  Jobs = {"tiles"}
  NoCred = NoCred
  MaxAsks = 1
INVARIANTS
  HandedOver
PROPERTIES
  PhaseRight
  StillSyncs
  SyncEnds
  HearsOn
CHECK_DEADLOCK FALSE
