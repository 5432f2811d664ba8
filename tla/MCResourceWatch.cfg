CONSTANTS
  k1 = k1
  k2 = k2
  n1 = n1
  n2 = n2
  Kind = {k1, k2}
  Name = {n1, n2}
  Spec = {s1, s2}
  Status = {up}
  None = None
  MaxErrs = 2
  Scenarios <- AllScenarios
SPECIFICATION WatchSpec
CHECK_DEADLOCK FALSE
INVARIANTS
  InStep
PROPERTIES
  CatchesUp
