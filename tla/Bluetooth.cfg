SPECIFICATION BluetoothSpec
CONSTANTS
  phone1 = phone1
  handle1 = handle1
  handle2 = handle2
  Phones = {phone1}
  Handles = {handle1, handle2}
  NoHandle = NoHandle
  Commands = {"feed_on", "log_get"}
  LineRoom = 2
  RxRoom = 1
  CtlRoom = 1
  FeedRoom = 1
  Records = 2
  PollMax = 1
  Deadline = 1
  MaxLag = 1
  MaxConns = 2
  MaxLines = 2
  Client = {"picker", "rid"}
  FilterOf <- SomeFilters
  Duty = {"low", "high"}
  MaxStarts = 2
  StartWindow = 2
  RestartEvery = 3
  RetryMin = 1
  RetryMax = 2
  NoScan = NoScan
  Unarmed = Unarmed
  MaxActs = 3
  MaxDown = 2
  MaxEvents = 4
INVARIANTS
  BluetoothTypeOK
  LinesRight
  ScanAsHeld
PROPERTIES
  PairingRight
  ScansOn
