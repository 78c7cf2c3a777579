CONSTANTS
  Programs <- RacePrograms
  Prompt = FALSE
  targetTimeout = TRUE
  MaxTimeouts = 1
  Signals = FALSE
SPECIFICATION Spec
INVARIANTS
  BatchesOnce
CHECK_DEADLOCK FALSE
