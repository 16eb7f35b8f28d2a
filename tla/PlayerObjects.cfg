CONSTANTS
  Peer = {p}
  Me = me
  Budgets <- MCBudgets
SPECIFICATION Spec
CHECK_DEADLOCK FALSE
INVARIANTS BallsThere ObjectsGoWithPlayers
PROPERTY LabelsFollow
