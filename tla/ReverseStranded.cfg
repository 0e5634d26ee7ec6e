SPECIFICATION Spec
CONSTANTS
  Devices = {d1}
  Conns = {c1, c2}
  NoConn = NoConn
  NoDevice = NoDevice
  MaxLines = 3
  UeventCap = 2
  MaxEvents = 3
CHECK_DEADLOCK FALSE
INVARIANT EndRebinds
