SPECIFICATION FairSpec
CONSTANTS
  Tick = 4
  Durations = {0, 1, 2, 3, 4, 7, 32, 120, 239, 240, 241}
CHECK_DEADLOCK FALSE
INVARIANTS
  TypeOK
  Spreads
  Forgives
  OneMoreSession
PROPERTIES
  StopsOnSignal
  NeverGivesUp
