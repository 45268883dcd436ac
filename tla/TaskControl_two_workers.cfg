SPECIFICATION Spec
\* With its starts and commands used up the instance rests.
CHECK_DEADLOCK FALSE
CONSTANTS
  t1 = t1  t2 = t2  a1 = a1  l1 = l1  l2 = l2  NONE = NONE
  Task = {t1, t2}
  Artifact = {a1}
  LaneOf <- TwoLanes
  ArtifactsOf <- SharedArtifact
  WriteTask = {}
  StaleSource = {}
  Expirable = {}
  ApprovalId = {x1, x2}
  Clerk = {k1}
  Pausable = {t1}
  Proc = {w1, c1}
  Service = {}
  Worker = {w1}
  ReadOnly = {}
  MaxTasks = 2
  MaxStarts = 1
  MaxCommands = 1
  StartsApart = FALSE
  LongRuns = FALSE
PROPERTIES
  RecoveryOnlyInterrupted
