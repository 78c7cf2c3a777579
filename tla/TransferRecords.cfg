CONSTANTS
  SIZE_OF_RESULT_BUFFER = 20
  Top = 50
  Foreign = 0
  Levels <- AllRecords
  IntAsserts <- RecordInts
  MemAsserts <- RecordMems
  Strings <- RecordStrings
  WRITE_TEST_NAME = TRUE
  MaxCalls = 5
SPECIFICATION FairSpec
INVARIANTS
  BufferHoldsTheRest
  GroupsAreCounted
PROPERTIES
  ImplementsChannel
  StoppedTargetIsAnswered
  FinishedRunIsClosed
CHECK_DEADLOCK FALSE
