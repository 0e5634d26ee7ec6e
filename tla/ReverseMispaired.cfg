SPECIFICATION Spec
CONSTANTS
  Devices = {d1, d2}
  Conns = {c1, c2, c3}
  NoConn = NoConn
  NoDevice = NoDevice
  MaxLines = 3
  UeventCap = 2
  MaxEvents = 3
CHECK_DEADLOCK FALSE
INVARIANT Paired
