SPECIFICATION Spec
CONSTANTS
  w1 = w1
  w2 = w2
  Workers = {w1, w2}
  Setups <- Usual
  Fatal <- Breaks
  MaxRounds = 2
INVARIANTS
  DemosTypeOK
  ParamIsAlive
  ReleasedOnce
  ReleasesAreDue
PROPERTIES
  RunEnds
CHECK_DEADLOCK FALSE
