CONSTANTS
  Programs <- PromptPrograms
  Prompt = TRUE
  targetTimeout = TRUE
  MaxTimeouts = 3
  Signals = FALSE
SPECIFICATION FairSpec
INVARIANTS
  StopsHandledInOrder
  BatchesAnalysed
  CallsAreReplaced
  EndsWithFinish
  NeverCrashes
PROPERTIES
  RunEnds
CHECK_DEADLOCK FALSE
