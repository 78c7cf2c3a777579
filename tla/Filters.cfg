CONSTANTS
  Groups <- Names
  Filters <- Lists
  Behind <- Garbage
SPECIFICATION FilterSpec
INVARIANTS
  OptedOutNeverRuns
  OptedInRuns
  NothingElseSelected
CHECK_DEADLOCK FALSE
