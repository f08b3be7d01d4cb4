SPECIFICATION GFairSpec
CONSTANTS
  Sock = {s1, s2}
  User = {u1}
  Acceptor = acc
  Listening = FALSE
  LongMax = 4
  NoSock = NoSock
  NoThread = NoThread
  MayDisconnectAll = TRUE
PROPERTY DisconnectAllReturns
CHECK_DEADLOCK FALSE
