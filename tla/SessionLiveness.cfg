SPECIFICATION FairSpec
CONSTANTS
  c1 = c1
  c2 = c2
  foo = foo
  u1 = u1
  u2 = u2
  Conn = {c1, c2}
  NoConn = NoConn
  Word = {foo}
  Uuid = {u1, u2}
  NoUuid = NoUuid
  NoNick = NoNick
  Logins <- TwoPlayers
  Requests = {}
  ConfigFiles <- PlainConfigs
  Commands = {"stop"}
  ONCE_RECV_MSG_COUNT = 1
  MaxRequests = 1
PROPERTIES
  GoneAreRemoved
  LoginsAnswered
  StopHalts
CHECK_DEADLOCK FALSE
