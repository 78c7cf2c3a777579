SPECIFICATION FairSpec
CONSTANTS
  Faults <- EveryFault
  MaxFaults = 1
  MaxSignals = 1
  Prompt = TRUE
INVARIANTS
  TypeOK
  NoOrphans
  OwnShutdownNotBlamed
PROPERTIES
  FailureEnds
CHECK_DEADLOCK FALSE
