CONSTANTS
  cp0 = cp0  cp1 = cp1  cp2 = cp2  w0 = w0  w1 = w1
  small = small  large = large  None = None
  Node = {cp0, cp1, cp2, w0, w1}
  Size = {small, large}
  CPs <- ThreeCPs
  Workers <- TwoWorkers
  Scenarios <- AllScenarios
SPECIFICATION ClusterSpec
CHECK_DEADLOCK FALSE
INVARIANTS
  Converged
  QuorumKept
  DeleteFindsAll
  
