CONSTANTS
  SIZE_OF_RESULT_BUFFER = 21
  Top = 31
  Foreign = 0
  Levels <- RecordLevels
  IntAsserts <- SomeInts
  MemAsserts <- SomeMems
  Strings <- SomeStrings
SPECIFICATION BufferSpec
INVARIANTS
  RecordsInside StoppedCallFits
  TailIsClean
PROPERTIES
  OnlyDrainedWhenStopped
