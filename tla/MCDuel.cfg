SPECIFICATION Spec
CONSTANTS
  d1 = d1
  d2 = d2
  e1 = e1
  e2 = e2
  Device = {d1, d2}
  Guest = {}
  Event = {e1}
  Rounds = 2
  QueueMax = 4
  MaxSockets = 2
  MaxRaces = 2
  MaxGames = 2
  MaxActs = 4
INVARIANTS SeatsAgree BattlesCounted Mirrors
PROPERTY RoundsKept
SYMMETRY Symmetry
CHECK_DEADLOCK FALSE
