CONSTANTS
  NumTypes = 3
  Schema <- ThreeTypes
  StatTypes <- FirstTwo
  FocusedNames <- NamedAttrs
  Focus <- FocusTypes
  ReadLists <- SwitchLists
  Filters <- FilterMatches
  Statuses <- KnownStatuses
SPECIFICATION Spec
INVARIANTS
  TypeOK
  QuestionsByFormat
  ExcludedIsSpared
  NothingPassedOver
  CountsAreHonest
CHECK_DEADLOCK FALSE
