SPECIFICATION Spec
CONSTANTS
  Workers = {w1, w2}
  MaxMoves = 1
  ForceSendMax = 2
  Unit = 1
  MaxAge = 2
  MaxInFlight = 2
  MaxReloads = 2
  MaxLate = 1
  MaxBoth = 1
INVARIANT HideWins
PROPERTIES NoStepBack Settles
