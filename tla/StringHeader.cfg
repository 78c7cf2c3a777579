CONSTANTS
  SIZE_OF_RESULT_BUFFER = 17
  Top = 25
  Foreign = 85
  Levels <- OnlyNames
  IntAsserts <- SomeInts
  MemAsserts <- SomeMems
  Strings <- SomeStrings
SPECIFICATION BufferSpec
INVARIANTS
  OutsideUntouched
