SPECIFICATION Spec
CONSTANTS
  j1 = j1  j2 = j2  k1 = k1  k2 = k2
  l1 = l1  l2 = l2  d1 = d1  d2 = d2  d3 = d3
  Jobs = {j1, j2}
  Tokens = {k1, k2}
  LastBar = 3
  NoToken = NoToken
  MaxRevisions = 1
  ChildCount = 3
  Logins = {l1, l2}
  DealsOf <- SharedIds
  OrdersOf <- OneOrder
  NoLogin = NoLogin
  MaxRuns = 3
  MaxUpsets = 3
  MaxPid = 4
  MaxRecords = 4
  LastTime = 5
  CallBudget = 1
  MaxMishaps = 2
INVARIANTS
  TypeOK
  CoverageIsTrue
  ReadyIsEarned
PROPERTIES
  EndIsAnswered
  TablesHoldWholeRuns
  LaunchIsAlone
  LoginIsNoticed
  GapsSettle
CHECK_DEADLOCK FALSE
