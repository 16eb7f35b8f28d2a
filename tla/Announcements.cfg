CONSTANTS
  Conn = {m, h, s}
  Mod = {m, s}
  Spectator = {s}
  Op = {h}
  Map = {m1}
  NoMap = NoMap
  Sector = {0, 1}
  Text = {"", "t"}
  forced_cheat <- MCForced
  Budgets <- MCBudgets
SPECIFICATION Spec
CHECK_DEADLOCK FALSE
INVARIANTS RosterKnown MapsNamed CheatsKnown PlacesKnown BulletinKnown
PROPERTY AllSettle
