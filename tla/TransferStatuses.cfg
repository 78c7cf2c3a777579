CONSTANTS
  SIZE_OF_RESULT_BUFFER = 2
  Top = 6
  Foreign = 85
  Levels <- OnlyStatuses
  IntAsserts <- StatusInts
  MemAsserts <- StatusMems
  Strings <- StatusStrings
  WRITE_TEST_NAME = TRUE
  MaxCalls = 11
SPECIFICATION Spec
INVARIANTS
  BufferTypeOK
  OutsideUntouched
  BufferHoldsTheRest
CHECK_DEADLOCK FALSE
