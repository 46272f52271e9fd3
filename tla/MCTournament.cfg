SPECIFICATION Spec
CONSTANTS
  Player = {p1, p2, p3, p4, p5}
  Nobody = Nobody
  MaxPlayers = 5
  MaxStops = 1
  MaxPurges = 1
SYMMETRY Symmetry
INVARIANTS BracketHolds NeverStuck RoundsInOrder LastStanding
PROPERTIES ResultsStay
CHECK_DEADLOCK FALSE
