SPECIFICATION PublicationSpec
CONSTANTS
  w1 = w1  w2 = w2  a1 = a1  a2 = a2  a3 = a3  n1 = n1  n2 = n2
  None = None
  Workers = {w1, w2}
  Accounts = {a1, a2, a3}
  NameOf <- TwoNames
  Shallow = {a2}
  MaxSwitches = 2
  MaxFaults = 1
INVARIANTS
  TypeOK
  ServedFromOneSource
  MarkerNamesCsv
  NoLostUpdate
PROPERTY
  PublicationFollows
CHECK_DEADLOCK FALSE
