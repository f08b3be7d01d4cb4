SPECIFICATION GFairSpec
CONSTANTS
  Sock = {s1, s2}
  User = {u1}
  Acceptor = acc
  Listening = FALSE
  LongMax = 4
  NoSock = NoSock
  NoThread = NoThread
  MayDisconnectAll = FALSE
INVARIANT ReaderFindsSentMap
PROPERTIES BrokenIsDropped BroadcastReturns
CHECK_DEADLOCK FALSE
