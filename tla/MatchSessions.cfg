SPECIFICATION Spec
CONSTANTS
  p1 = p1
  p2 = p2
  m1 = m1
  m2 = m2
  Player = {p1, p2}
  Map = {m1, m2}
  Operators = {p1}
  force_restart_level = FALSE
  serious_warning_as_dnf = TRUE
  Commands = {"countdown", "countdown-forced", "dnf"}
  MaxJoins = 3
  MaxPlayed = 2
  MaxLoads = 1
  MaxTyped = 1
INVARIANTS TypeOK RanksArePlaces ForfeitersListed MirrorsServer
CHECK_DEADLOCK FALSE
SYMMETRY Maps
