SPECIFICATION Spec
CONSTANTS
  v1 = v1
  v2 = v2
  Value = {v1, v2}
  Refusals = {{}}
  Coalesce = FALSE
  Overlap = FALSE
  Busy = FALSE
  MaxBatch = 2
  MaxOps = 2
  MaxAdd = 1
  MaxSeq = 2
  MaxFaults = 2
  MaxStream = 2
INVARIANTS SolvesOnce DeletionWins Converged
PROPERTIES AppliedInOrder
SYMMETRY Symmetry
CHECK_DEADLOCK FALSE
