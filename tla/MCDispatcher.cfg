CONSTANTS
  a = a  b = b  c = c  v1 = v1  v2 = v2  v3 = v3  None = None
  Op = {2, 3, 4}
  Task = {2, 3, 4}
  Concurrency = {2}
  Resource = {a, b, c}
  Value = {v1, v2, v3}
  Retain = 1
  Second = 2
  Refs <- RefsToChild
  Unserved = {}
  Planner = {a}
  Emits <- CChildOfA
  Forced = {}
  Requests <- ApplyAndDelete
  CrossOp = {TRUE}
  MaxStops = 1
SPECIFICATION Spec
SYMMETRY Manifests
INVARIANTS
  TypeOK
  OneInFlightPerResource
  ExecutingRowIsRunning
  NoOrphanRunning
  DependentsWait
  RefsFresh
  CanceledOnlyByUser
  RetentionBound
PROPERTIES
  SavedUnlessCanceled
  ImplementsOpLifecycle
