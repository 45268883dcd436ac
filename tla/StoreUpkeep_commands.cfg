SPECIFICATION Spec
CONSTANTS
  c1 = c1  c2 = c2  f1 = f1  f2 = f2  l1 = l1  l2 = l2  g1 = g1  NONE = NONE
  Cmd = {c1, c2}
  Handovers <- TwoHandovers
  Skipped = {}
  Lane = {l1, l2}
  Fold <- OwnNames
  Legacy = {g1}
  Retention = 0
  LastDay = 1
  MaxStarts = 6
  MaxUpsets = 2
CONSTRAINT Bounded
SYMMETRY Symmetry
CHECK_DEADLOCK FALSE
INVARIANTS
  TypeOK
  ImportedOnce
  BootstrapKeepsLanes
PROPERTIES
  RetentionKept
