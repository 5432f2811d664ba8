CONSTANTS
  a = a  s1 = s1  s2 = s2  None = None  Broken = Broken  ticker = ticker  webhook = webhook
  Resource = {a}
  Spec = {s1, s2}
  Dir <- OneDir
  Slot = {1, 2}
  Puller = {ticker, webhook}
  Modes <- AllModes
  Client <- ByClient
  EditedTo = {s1, Broken, None}
  Upstream = {s1, None}
  MaxCommits = 3
SYMMETRY Pullers
SPECIFICATION GitOpsSpec
CHECK_DEADLOCK FALSE
INVARIANTS
  SettledAgree
  PulledIsSynced
