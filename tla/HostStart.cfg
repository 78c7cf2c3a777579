SPECIFICATION FairSpec
CONSTANTS
  Options <- EveryOption
  Targets <- SomeTargets
  MaxStops = 3
INVARIANTS
  TypeOK
  LevelBeforeTests
  ObservedRun
  OnlyUnknownRefused
  TestModeNeverCrashes
  FailureIsReported
PROPERTIES
  HostEnds
CHECK_DEADLOCK FALSE
