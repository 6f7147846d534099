CONSTANTS
  craft1 = craft1
  craft2 = craft2
  m1 = m1
  m2 = m2
  m3 = m3
  m4 = m4
  Aircraft = {craft1, craft2}
  Address = {m1, m2, m3, m4}
  Heard <- HeardOn
  Says <- SaysWhat
  Slots = 2
  AltMacs = 2
  EventRoom = 1
  Expire = 2
  Clock = 17
  Start = 14
  None = None
  MaxTime = 5
  LastPage = 2
  Window = 2
  MaxSet = 3
  MaxLost = 2
  MaxOther = 1
SPECIFICATION ReceiverSpec
INVARIANTS
  ReceiverTypeOK
  NotAccused
SYMMETRY Symmetry
PROPERTIES
  IdentityKept
  KeptTillSilent
  GenuineSoon
  VerifiedOnce
