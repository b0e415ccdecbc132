SPECIFICATION AccountSpec
CONSTANTS
  s1 = s1
  s2 = s2
  r1 = r1
  r2 = r2
  k1 = k1
  k2 = k2
  null = null
  Sessions <- MCSessions
  Codes <- MCCodes
  Handlers <- MCHandlers
  Null = null
  MaxTokens = 2
  MaxPasswords = 3
CHECK_DEADLOCK FALSE
SYMMETRY MCSymmetry
INVARIANT PasswordChangeEnds
PROPERTY CodesWorkOnce
