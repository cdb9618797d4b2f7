CONSTANTS
  InitialCapacity = 2
  MaximumCapacity = 40
  MaxRetries = 4
  Sizes <- SizesAtTheEdges
SPECIFICATION Spec
INVARIANTS
  TypeOK
  OutcomeHonest
  ReportedListIsRead
  SilentListIsRead
PROPERTIES
  Promise
  FetchReturns
CHECK_DEADLOCK FALSE
