SPECIFICATION Spec
CONSTANTS
  o1 = o1
  both = both
  g1 = g1
  g2 = g2
  g3 = g3
  d1 = d1
  t1 = t1
  h1 = h1
  h2 = h2
  Nobody = Nobody
  Executors <- MCExecutors
  Operators <- MCOperators
  Handlers <- MCHandlers
  LastStage = 1
  Grants <- MCOneGrant
  Dists <- MCDists
  Tasks <- MCTasks
CHECK_DEADLOCK FALSE
PROPERTIES RequestsFinish
