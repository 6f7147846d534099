CONSTANTS
  net1 = net1
  net2 = net2
  psk1 = psk1
  ble = ble
  Ssid = {net1}
  Psk = {psk1}
  MaxSaved = 1
  Src = {ble}
  Jobs = {"time"}
  NoCred = NoCred
  MaxAsks = 1
SPECIFICATION NetSpec
INVARIANTS
  PersonServed
SYMMETRY Symmetry
