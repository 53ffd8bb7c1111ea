SPECIFICATION Spec
CONSTANTS
  c1 = c1
  c2 = c2
  sup = sup
  g1 = g1
  g2 = g2
  g3 = g3
  nothing = nothing
  Caller <- OneCaller
  Supervisor = sup
  Gen <- TwoGens
  First = g1
  Nothing = nothing
  Capacity = 1
  MaxBacklog = 1
  MaxFaults = 1
CHECK_DEADLOCK FALSE
INVARIANT TypeOK
INVARIANT OneProcess
PROPERTY FailureSparesSuccessor
PROPERTY ComesBack
PROPERTY CallsEnd
