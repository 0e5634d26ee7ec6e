SPECIFICATION FairSpec
CONSTANTS
  Devices = {d1, d2}
  Conns = {h1, h2}
  Holders = {h1, h2}
  NoLinger = {}
  Unbinders = {u1}
  NoConn = NoConn
  NoDevice = NoDevice
  Hotplug = {d2}
CHECK_DEADLOCK FALSE
PROPERTIES
  DriverSettles
  HangupComesHome
  UnbindReleases
