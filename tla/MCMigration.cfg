CONSTANTS
  Controller = {src, dst}
  Manifest = {m1, m2}
  Child = Child
  None = None
  Identity = {i1, i2}
  Scenarios <- AllScenarios
SYMMETRY Symmetric
SPECIFICATION MigrationSpec
CHECK_DEADLOCK FALSE
INVARIANTS
  ReleasedIsUnmanaged
  HandedOver
  MirrorFollows
