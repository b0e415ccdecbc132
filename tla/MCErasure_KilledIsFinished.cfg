SPECIFICATION Spec
CONSTANTS
  q1 = q1
  q2 = q2
  d1 = d1
  d2 = d2
  u1 = u1
  u2 = u2
  nobody = nobody
  Requests <- MCRequests
  Drivers <- MCOneDriver
  Callers <- MCOneCaller
  Nobody = nobody
  MaxCrashes = 1
CHECK_DEADLOCK FALSE
INVARIANT KilledIsFinished
