CONSTANTS
  SIZE_OF_RESULT_BUFFER = 10
  Top = 14
  Foreign = 85
  Levels <- OnlyNames
  IntAsserts <- StatusInts
  MemAsserts <- StatusMems
  Strings <- NameStrings
  WRITE_TEST_NAME = FALSE
  MaxCalls = 7
SPECIFICATION Spec
INVARIANTS
  AllResultsRead
CHECK_DEADLOCK FALSE
