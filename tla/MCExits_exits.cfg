SPECIFICATION FairSpec
CONSTANTS
  t1 = t1  t2 = t2  a1 = a1  a2 = a2
  None = None
  Threads = {t1, t2}
  Accounts = {a1, a2}
  Home = a1
  Permitted = {"cancel", "close"}
  RecoveryUntil = 1
  MaxGen = 2
  MaxEpoch = 2
  MaxNow = 1
  MaxFaults = 1
INVARIANTS
  TypeOK
  ExitSentOnce
  SucceededExitIsReal
  FailureEscalates
PROPERTIES
  ExitIsAuthorized
  KillKeepsExits
  ExitsAnswered
CHECK_DEADLOCK FALSE
