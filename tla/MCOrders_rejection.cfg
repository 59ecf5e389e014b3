SPECIFICATION Spec
CONSTANTS
  t1 = t1  t2 = t2  t3 = t3
  c1 = c1  c2 = c2  p1 = p1  p2 = p2  g1 = g1  g2 = g2  a1 = a1  a2 = a2
  None = None
  Threads = {t1, t2}
  Clients = {c1}
  Payloads = {p1}
  ClientOf <- SinglePayload
  Grants = {g1}
  GrantClient <- OneGrantClient
  EntryFrom <- OpensAtZero
  EntryUntil <- ClosesAtOne
  Accounts = {a1, a2}
  DemoAccounts = {a1}
  MaxGen = 1
  MaxEpoch = 1
  MaxNow = 0
  MaxFaults = 0
PROPERTIES
  RecoveredRejectionStands
CHECK_DEADLOCK FALSE
