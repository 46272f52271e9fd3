SPECIFICATION Spec
CONSTANTS
  Docs = 3
  Workers = 2
  Prompt = FALSE
  MaxCalls = 2
  MaxFaults = 1
INVARIANT Kept
CHECK_DEADLOCK FALSE
