CONSTANTS
  InitialCapacity = 2
  MaximumCapacity = 40
  MaxAttempts = 5
  Headroom = 1
  KnownCounts <- FewAndMany
  Sizes <- SizesAtTheEdges
SPECIFICATION Spec
INVARIANTS
  TypeOK
  ValuesAreBacked
  ReportedListIsRead
  SilentListIsRead
PROPERTIES
  Promise
  QueryReturns
CHECK_DEADLOCK FALSE
