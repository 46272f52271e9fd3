SPECIFICATION FairSpec
CONSTANTS
  d1 = d1
  Device = {d1}
  PageSize = 1
  Race = FALSE
  MaxSeq = 4
  MaxFaults = 2
INVARIANTS WakeKept NoGap
PROPERTY ToldEverything
CHECK_DEADLOCK FALSE
