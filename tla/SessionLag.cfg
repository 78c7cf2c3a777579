CONSTANTS
  Programs <- ResultPrograms
  Prompt = FALSE
  targetTimeout = FALSE
  MaxTimeouts = 0
  Signals = FALSE
SPECIFICATION Spec
INVARIANTS
  StopsHandledInOrder
  NothingRefused
  ValuesAreAwaited
  BatchesAnalysed
CHECK_DEADLOCK FALSE
