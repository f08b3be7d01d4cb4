SPECIFICATION Spec
CONSTANTS
  Conn = {c1, c2}
  App = {a1, a2}
  Dispatcher = {d1}
  MaxMsg = 2
  MaxBusy = 1
  MaxPush = 0
  None = None
INVARIANT BusyDiscarded
CHECK_DEADLOCK FALSE
