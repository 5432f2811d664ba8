CONSTANTS
  Task = {1, 2, 3}
  Concurrency = {0, 2}
SPECIFICATION GraphSpec
INVARIANTS
  GraphTypeOK
  DependenciesFirst
  WithinLimit
  SerialRunsLowestReady
  ReturnIsAccurate
PROPERTIES
  NoLaunchAfterFailure
  CallReturns
  ImplementsTaskGraph
