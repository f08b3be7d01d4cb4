SPECIFICATION FairSpec
CONSTANTS
  Conn = {c1}
  App = {a1, a2}
  Dispatcher = {d1}
  MaxMsg = 2
  MaxBusy = 1
  MaxPush = 1
  None = None
PROPERTY ResentAfterRest
CHECK_DEADLOCK FALSE
