CONSTANTS
  Operation = {o1}
  Probe = {p1}
  Handshake = Handshake
  Configure = Configure
  Shutdown = Shutdown
  InCap = 1
  OutCap = 1
  Faults <- AllFaults
  None = None
  Broken = Broken
  Garbage = Garbage
SPECIFICATION PluginSpec
CHECK_DEADLOCK FALSE
INVARIANTS
  OwnAnswer
  RoomForReply
PROPERTIES
  CallsReturn
  StopEnds
