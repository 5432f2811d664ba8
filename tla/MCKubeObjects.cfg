CONSTANTS
  a = a
  b = b
  c1 = c1
  c2 = c2
  n1 = n1
  n2 = n2
  v1 = v1
  v2 = v2
  Item = {a, b}
  Cluster = {c1, c2}
  Namespace = {n1, n2}
  Api = {v1, v2}
  Specs <- MCSpecs
  Getter = {g1, g2}
  None = None
  Scenarios <- AllScenarios
SPECIFICATION KubeSpec
CHECK_DEADLOCK FALSE
INVARIANTS
  Tracked
  LastSucceeded
