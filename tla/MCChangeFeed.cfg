SPECIFICATION FairSpec
CONSTANTS
  e1 = e1
  g1 = g1
  v1 = v1
  v2 = v2
  d1 = d1
  Absent = Absent
  Entity = {e1, g1}
  Guarded = {g1}
  Value = {v1, v2}
  Device = {d1}
  PageSize = 1
  MergeSize = 2
  MaxSeq = 3
  MaxStream = 1
INVARIANTS StaleIsPending CaughtUp
PROPERTIES CursorForward PullEnds
