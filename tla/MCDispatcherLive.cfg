CONSTANTS
  a = a  b = b  c = c  v1 = v1  v2 = v2  v3 = v3  None = None
  Op = {1, 2}
  Task = {1, 2}
  Concurrency = {2}
  Resource = {a, b, c}
  Value = {v1, v2, v3}
  Retain = 0
  Second = 1
  Refs <- RefsBothWays
  Unserved = {c}
  Planner = {b}
  Emits <- NoChildren
  Forced = {v1}
  Requests <- AnyKind
  CrossOp = {TRUE, FALSE}
  MaxStops = 2
SPECIFICATION FairSpec
PROPERTIES
  EventuallyTerminal
  ShutdownCompletes
