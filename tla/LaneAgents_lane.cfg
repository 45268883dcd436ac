SPECIFICATION Spec
CONSTANTS
  r1 = r1
  h1 = h1
  s1 = s1
  c1 = c1
  NONE = NONE
  Run = {r1}
  Hand = {h1}
  Service = {s1}
  Command = {c1}
  ProcOf <- OneService
  RunLimit = 3
  FailLimit = 2
  MaxBatch = 2
  MaxTasks = 4
  MaxUpsets = 2
CONSTRAINT Uncrossed
CHECK_DEADLOCK FALSE
INVARIANTS
  TypeOK
  LineageKept
  RunOwnsAgent
  AgentRunsBounded
  StartupHeals
  PauseStands
