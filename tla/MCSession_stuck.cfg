SPECIFICATION FairSpec
CONSTANTS
  r1 = r1  m1 = m1  w1 = w1  h1 = h1  a1 = a1  a2 = a2  a3 = a3  a4 = a4
  None = None  Broken = Broken  Unset = Unset
  Threads = {h1}
  Role <- HistoryRole
  Accounts = {a1}
  Modeless = {}
  Incomplete = {}
  MaxMoves = 1
  MaxLogins = 2
  MaxFaults = 0
  MaxGen = 8
PROPERTIES
  ReadsResume
CHECK_DEADLOCK FALSE
