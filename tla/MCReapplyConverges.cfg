CONSTANTS
  a = a  b = b  c = c  v1 = v1  v2 = v2  v3 = v3  None = None
  Op = {1, 2, 3}
  Task = {1, 2, 3}
  Concurrency = {2}
  Resource = {a, b}
  Value = {v1, v2, v3}
  Retain = 0
  Second = 1
  Refs <- RefsBtoA
  Unserved = {}
  Planner = {}
  Emits <- NoChildren
  Forced = {}
  Requests <- ApplyAndDelete
  CrossOp = {TRUE}
  MaxStops = 0
SPECIFICATION Spec
PROPERTY
  ReapplyConverges
