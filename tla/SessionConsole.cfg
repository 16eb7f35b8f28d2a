SPECIFICATION Spec
CONSTANTS
  c1 = c1
  c2 = c2
  foo = foo
  u1 = u1
  u2 = u2
  Conn = {c1, c2}
  NoConn = NoConn
  Word = {foo}
  Uuid = {u1, u2}
  NoUuid = NoUuid
  NoNick = NoNick
  Logins <- TwoPlayers
  Requests = {}
  ConfigFiles <- ReloadedConfigs
  Commands = {"kick", "ban", "op", "deop", "reload", "unban", "stop"}
  ONCE_RECV_MSG_COUNT = 2
  MaxRequests = 1
SYMMETRY ConnSymmetry
INVARIANTS
  TicksForTwo
  ViewersOnline
CHECK_DEADLOCK FALSE
