SPECIFICATION Spec
CONSTANTS
  Devices = {d1, d2}
  Conns = {h1, h2, h3}
  Holders = {h1, h2, h3}
  NoLinger = {h3}
  Unbinders = {u1}
  NoConn = NoConn
  NoDevice = NoDevice
  Hotplug = {}
SYMMETRY Symmetry
CHECK_DEADLOCK FALSE
INVARIANTS
  TypeOK
  DriverlessOwned
  ExportOwned
  HeldIsLive
  DetachedIsDropped
PROPERTY Kept
