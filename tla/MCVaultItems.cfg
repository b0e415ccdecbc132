SPECIFICATION Spec
CONSTANTS
  i1 = i1
  h1 = h1
  h2 = h2
  s1 = s1
  s2 = s2
  r1 = r1
  r2 = r2
  w1 = w1
  w2 = w2
  Nobody = Nobody
  Items <- MCItems
  Handshakes <- MCHandshakes
  Sessions <- MCSessions
  Requests <- MCRequests
  Writers <- MCWriters
  MaxKeysets = 3
  MaxRevision = 4
CHECK_DEADLOCK FALSE
SYMMETRY MCSymmetry
INVARIANTS SiblingsEnd VersionTravels NothingLost ResetRetiresAll
PROPERTIES NoLostUpdate
