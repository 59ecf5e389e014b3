SPECIFICATION FairSpec
CONSTANTS
  s1 = s1  s2 = s2  k1 = k1  k2 = k2
  None = None
  Symbols = {s1, s2}
  Channels = {k1, k2}
  QueueSize = 4
  WireSize = 1
  MaxTick = 2
  MaxFaults = 2
INVARIANTS
  TypeOK
  NothingMissed
PROPERTIES
  TicksForward
  TicksCatchUp
CHECK_DEADLOCK FALSE
