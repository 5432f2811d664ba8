CONSTANTS
  vm = vm
  cluster = cluster
  Resource = {vm, cluster}
  Composite = {cluster}
  Spec = {s1, s2}
  None = None
  MinBackoff = 1
  MaxBackoff = 3
  Scenarios <- AllScenarios
SPECIFICATION ReconcilerSpec
PROPERTIES
  BackoffKept
  DriftNoticed
  AppliesGoOn
