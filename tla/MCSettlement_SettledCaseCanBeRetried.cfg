SPECIFICATION Spec
CONSTANTS
  c1 = c1
  c2 = c2
  o1 = o1
  o2 = o2
  k1 = k1
  d1 = d1
  nobody = nobody
  Cases <- MCOneCase
  Operators <- MCOperators
  Contacts <- MCContacts
  Docs <- MCDocs
  Nobody = nobody
  MinDays = 1
  MaxDays = 1
  MaxTime = 2
  MaxLockWait = 0
  MaxAbandoned = 0
CHECK_DEADLOCK FALSE
INVARIANT SettledCaseCanBeRetried
