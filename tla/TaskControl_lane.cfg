SPECIFICATION FairSpec
\* With its starts and commands used up the instance rests.
CHECK_DEADLOCK FALSE
CONSTANTS
  t1 = t1  t2 = t2  a1 = a1  l1 = l1  l2 = l2  NONE = NONE
  Task = {t1, t2}
  Artifact = {a1}
  LaneOf <- OneLane
  ArtifactsOf <- SharedArtifact
  WriteTask = {t1}
  StaleSource = {t2}
  Expirable = {t2}
  ApprovalId = {x1, x2}
  Clerk = {k1, k2}
  Pausable = {t2}
  Proc = {s1}
  Service = {s1}
  Worker = {}
  ReadOnly = {}
  MaxTasks = 2
  MaxStarts = 2
  MaxCommands = 2
  StartsApart = TRUE
  LongRuns = FALSE
INVARIANTS
  TypeOK
  AwaitingNamesItsApproval
  ApprovedBeforeClaim
  NoOrphanWhileServing
PROPERTIES
  RunsEnd
