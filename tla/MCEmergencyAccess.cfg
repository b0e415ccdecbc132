SPECIFICATION Spec
CONSTANTS
  p1 = p1
  p2 = p2
  h1 = h1
  h2 = h2
  Nobody = Nobody
  Policies <- MCPolicies
  Handlers <- MCHandlers
  Wait = 1
  MaxTime = 1
CHECK_DEADLOCK FALSE
SYMMETRY MCSymmetry
INVARIANTS ToldOnce NeverStuck
PROPERTIES OneEscrow CollectedAfterWait SettlementComesFirst
