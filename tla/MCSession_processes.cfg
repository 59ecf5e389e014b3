SPECIFICATION ProcessSpec
CONSTANTS
  r1 = r1  m1 = m1  w1 = w1  h1 = h1  a1 = a1  a2 = a2  a3 = a3  a4 = a4
  None = None  Broken = Broken  Unset = Unset
  Threads = {r1, m1, w1, h1}
  Role <- AllRoles
  Accounts = {a1, a2, a3, a4}
  Modeless = {a3}
  Incomplete = {a4}
  MaxMoves = 1
  MaxLogins = 3
  MaxFaults = 1
  MaxGen = 16
INVARIANTS
  TypeOK
  ReadsAreTrue
  GenerationNamesAccount
PROPERTIES
  HealthFollows
  ProcessReadsResume
CHECK_DEADLOCK FALSE
