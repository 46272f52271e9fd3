SPECIFICATION FairSpec
CONSTANTS
  v1 = v1
  v2 = v2
  Value = {v1}
  Refusals = {{}, {2}}
  Coalesce = TRUE
  Overlap = TRUE
  Busy = TRUE
  MaxBatch = 2
  MaxOps = 2
  MaxAdd = 1
  MaxSeq = 2
  MaxFaults = 1
  MaxStream = 2
INVARIANTS CreatedOnce
PROPERTIES OperationsKept Settles
CHECK_DEADLOCK FALSE
