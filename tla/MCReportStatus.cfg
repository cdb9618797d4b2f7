CONSTANTS
  NumTypes = 3
  Schema <- ThreeTypes
  StatTypes <- FirstTwo
  FocusedNames <- NamedAttrs
  Focus <- FocusTypes
  ReadLists <- SwitchLists
  Filters <- FilterMatches
  Statuses <- AllStatuses
SPECIFICATION Spec
INVARIANT PlainStatusIsNamed
CHECK_DEADLOCK FALSE
