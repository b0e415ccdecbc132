SPECIFICATION Spec
CONSTANTS
  i1 = i1
  r1 = r1
  r2 = r2
  r3 = r3
  Nobody = Nobody
  Items <- MCItems
  Requests <- MCTwoRequests
  MaxBalance = 1
  MaxChanges = 3
CHECK_DEADLOCK FALSE
INVARIANTS FailedRemoveSurfaces
