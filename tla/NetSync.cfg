CONSTANTS
  net1 = net1
  net2 = net2
  psk1 = psk1
  ble = ble
  Ssid = {net1, net2}
  Psk = {psk1}
  MaxSaved = 2
  Src = {ble}
  Jobs = {"time"}
  NoCred = NoCred
  MaxAsks = 2
SPECIFICATION ClockSpec
INVARIANTS
  NetTypeOK
  JoinsOwed
  AsAsked
SYMMETRY Symmetry
