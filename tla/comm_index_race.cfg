SPECIFICATION FairSpec
CONSTANTS
  Sock = {s1, s2}
  User = {u1, u2}
  Acceptor = acc
  Listening = FALSE
  LongMax = 4
  NoSock = NoSock
  NoThread = NoThread
CHECK_DEADLOCK FALSE
INVARIANT OwnIndexReturned
