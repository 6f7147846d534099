SPECIFICATION MCAirSpec
CONSTANTS
  Advertiser = {1, 2, 3}
  Pieces <- SomePieces
  FragSlots = 2
  KeepFor = 1
  Never = Never
  MaxAds = 2
  MaxMissed = 1
  LastMs = 2
  Zones <- SomeZones
  InForce <- AnyOfThem
  Spots = {"a", "c"}
  Signed = {"s", "t"}
  Via = {1, 2}
  TfrMax = 2
  OneSecond = 2
  Nil = Nil
  MaxTables = 1
  LastMoment = 3
  Road <- SomeRoad
  MoveOf = 2
  SaveEvery = 2
  Wrap = 6
  Unset = Unset
  MaxCuts = 1
  LastHour = 6
  Hosts = {mac, phone}
  Seconds = {1, 2}
  Sets <- SomeSets
  LineRoom = 1
  SetRoom = 2
  KeepRange = 2
  KeepAge = 1
  MaxPushes = 2
  MaxLost = 1
  FeedEnd = 1
  Drones = 2
  Planes = 1
  Reports <- SomeReports
  MaxAlerts = 2
  FreshAge = 2
  PresentAge = 3
  StaleAge = 1
  ClearTime = 2
  LostAge = 3
  Unknown = Unknown
  Horizon = 3
  MaxSets = 2
  Turn <- SomeTurns
  Every <- SomeEvery
  StopRetry = 1
  StartRetry = 2
  TxWrap = 40
  NoPath = NoPath
  MaxFailed = 1
  MaxSwitched = 1
  LastReading = 5
  Paths = 3
  Period <- SomePeriods
  RetryIn = 1
  SlotWrap = 32
  MaxSet = 1
  MaxRefused = 2
  LastPass = 14
INVARIANTS
  ReceivedTypeOK
  
  HomeStored
  SetOfOnePush
  MostUrgentKept
  OnlyEnabled
  EachInTurn
PROPERTIES
  WholeReported
  AlertsTrue
CHECK_DEADLOCK FALSE
