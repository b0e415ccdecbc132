SPECIFICATION LedgerSpec
CONSTANTS
  a1 = a1
  a2 = a2
  id1 = id1
  id2 = id2
  id3 = id3
  id4 = id4
  v1 = v1
  v2 = v2
  k1 = k1
  k2 = k2
  r1 = r1
  r2 = r2
  none = none
  Assets <- MCAssets
  Ids <- MCIds
  Values <- MCOneValue
  Contacts <- MCTwoContacts
  Attempts <- MCAttempts
  None = none
  Full = 1
  MaxDivergences = 1
CHECK_DEADLOCK FALSE
SYMMETRY MCSymmetry
INVARIANTS ProjectionIsFold
PROPERTIES AnswersTrue NoLostUpdate
