SPECIFICATION Spec
CONSTANTS
  Addr = {a, b}
  NoAddr = NoAddr
  FirstAddr = {a}
  MaxCommands = 3
  MaxLogins = 1
CHECK_DEADLOCK FALSE
INVARIANTS ConnectedIsAccepted WhereAsked
PROPERTIES GivenBack GivesUp
