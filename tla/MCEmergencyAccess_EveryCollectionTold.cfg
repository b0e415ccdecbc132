SPECIFICATION Spec
CONSTANTS
  p1 = p1
  p2 = p2
  h1 = h1
  h2 = h2
  Nobody = Nobody
  Policies <- MCPolicies
  Handlers <- MCHandlers
  Wait = 1
  MaxTime = 2
CHECK_DEADLOCK FALSE
PROPERTIES EveryCollectionTold
