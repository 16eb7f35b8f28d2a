SPECIFICATION Spec
CONSTANTS
  MaxReceived = 4
  MaxConnections = 2
  ONCE_RECV_MSG_COUNT = 2
  SleepIsLong = TRUE
INVARIANTS
  InOrder
  SavedByStop
PROPERTIES
  StopEnds
  LogSpec
CHECK_DEADLOCK FALSE
