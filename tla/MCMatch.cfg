SPECIFICATION Spec
CONSTANTS
  Points = 1
  Sets = 1
  Times = {1, 2}
  MaxSolves = 2
  MaxSockets = 2
  MaxActs = 1
INVARIANTS Mirrors ScrambleComes SameScramble EndsRight
PROPERTIES SolvedStay
CHECK_DEADLOCK FALSE
