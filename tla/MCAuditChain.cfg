SPECIFICATION Spec
CONSTANTS
  e1 = e1
  e2 = e2
  bad = bad
  p1 = p1
  p2 = p2
  i1 = i1
  i2 = i2
  none = none
  Events <- MCEvents
  Malformed <- MCMalformed
  Partitions <- MCOnePartition
  Ingestors <- MCIngestors
  None = none
  Batch = 1
  MaxCopies = 1
  MaxFaults = 1
CHECK_DEADLOCK FALSE
INVARIANTS ChainUnbroken OncePerEvent NothingSkipped CorruptionFound
PROPERTIES EventuallyChained
