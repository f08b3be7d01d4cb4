SPECIFICATION GSpec
CONSTANTS
  Sock = {s1, s2}
  User = {u1}
  Acceptor = acc
  Listening = TRUE
  LongMax = 4
  NoSock = NoSock
  NoThread = NoThread
  MayDisconnectAll = TRUE
INVARIANTS OneIndexPerSocket ReaderClosesOwn NotifiedAtMostOnce
PROPERTIES CommunicatorSpec SentMapForgotten
SYMMETRY Symmetry
CHECK_DEADLOCK FALSE
