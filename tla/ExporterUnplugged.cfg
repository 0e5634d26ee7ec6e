SPECIFICATION Spec
CONSTANTS
  Devices = {d1}
  Conns = {h1}
  Holders = {h1}
  NoLinger = {}
  Unbinders = {u1}
  NoConn = NoConn
  NoDevice = NoDevice
  Hotplug = {d1}
CHECK_DEADLOCK FALSE
INVARIANT DetachedIsDropped
