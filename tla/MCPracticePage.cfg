SPECIFICATION Spec
CONSTANTS
  Contexts = {k1, k2, k3}
  Puzzle <- MCPuzzle
  Opening <- MCOpening
  Events = {k1}
  First = k1
  Inspection = TRUE
  MaxAttempts = 2
  MaxMoves = 1
  MaxFaults = 1
  k1 = k1
  k2 = k2
  k3 = k3
INVARIANTS KeptOnce ScramblesMatch Shown StartsFair NothingStuck
CHECK_DEADLOCK FALSE
