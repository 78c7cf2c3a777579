CONSTANTS
  Programs <- AbortPrograms
  Prompt = TRUE
  targetTimeout = FALSE
  MaxTimeouts = 0
  Signals = TRUE
SPECIFICATION Spec
INVARIANTS
  NothingRefused
  EndLosesNothing
  OnlyLastTwice
CHECK_DEADLOCK FALSE
