SPECIFICATION Spec
CONSTANTS
  v1 = v1
  v2 = v2
  Value = {v1, v2}
  Refusals = {{}}
  Coalesce = FALSE
  Overlap = TRUE
  Busy = FALSE
  MaxBatch = 2
  MaxOps = 2
  MaxAdd = 1
  MaxSeq = 2
  MaxFaults = 1
  MaxStream = 2
INVARIANT NoTwins
SYMMETRY Symmetry
CHECK_DEADLOCK FALSE
