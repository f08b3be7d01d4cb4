SPECIFICATION FairSpec
CONSTANTS
  Conn = {c1}
  App = {a1, a2}
  Dispatcher = {d1, d2}
  MaxMsg = 2
  MaxBusy = 2
  MaxPush = 1
  None = None
INVARIANTS OneCopy NothingLost AnswerMatched
PROPERTY AnswerStored
CHECK_DEADLOCK FALSE
