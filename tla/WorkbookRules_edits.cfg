SPECIFICATION Spec
CONSTANTS
  NONE = NONE
  NumSheets = 2
  NumRows = 2
  NumCols = 3
  Contents <- SomeContents
  Headers <- SomeHeaders
  NameSets <- SomeNames
  Tokens <- SomeTokens
  MaxTokens = 6
  MaxEdits = 3
  Aggregates <- SomeAggregates
  Allowed <- SomeAllowed
  Exempt <- SomeExempt
  SectionLimit = 1
CHECK_DEADLOCK FALSE
INVARIANTS
  LiteralsPlaced
  
  AggregatedTextFound
  InputsAreRead
  AxesAgree
