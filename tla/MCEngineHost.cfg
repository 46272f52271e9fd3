SPECIFICATION FairSpec
CONSTANTS
  Docs = 3
  Workers = 2
  Prompt = TRUE
  MaxCalls = 2
  MaxFaults = 1
INVARIANTS OneServes Kept
PROPERTIES Settled TabsFollow
CHECK_DEADLOCK FALSE
