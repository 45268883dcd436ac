SPECIFICATION FairSpec
CONSTANTS
  c1 = c1  c2 = c2  budget = budget  NONE = NONE
  Cell = {c1, c2}
  MaxPolls = 1
  NumRules = 2
  ErrorRule <- OneRule
  ValueRule <- OneRule
  Locus <- Places
  Settings <- SomeSettings
  Widenable <- OneRule
  Waivers <- SomeWaivers
  MaxWaivers = 1
  LastDay = 1
  Budget = budget
INVARIANTS
  TypeOK
  ZeroIsEarned
  OneEngineValues
  NothingLeftBehind
PROPERTIES
  LintEnds
