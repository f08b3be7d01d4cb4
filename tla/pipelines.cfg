SPECIFICATION PipeSpec
CONSTANTS
  Consumer = {c1, c2}
  Producer = {p1, p2}
  Item = {x1, x2, x3}
  NoItem = NoItem
  NoConsumer = NoConsumer
  Caller = {l1, l2}
  Worker = w
  FileWorker = f
  Stopper = s
  PoolSize = 2
  MaxOnce = 1
  MaxLog = 3
  NoThread = NoThread
  NoSlot = NoSlot
INVARIANTS HandledOnce LogInOrder
PROPERTIES FifoSpec EveryItemTaken StopWithItemsJoins EmptyStopStrands CallReturns MessageWritten PlainStopReturns
CHECK_DEADLOCK FALSE
