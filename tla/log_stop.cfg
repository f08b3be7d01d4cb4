SPECIFICATION FairSpec
CONSTANTS
  Caller = {c1, c2}
  Worker = w
  FileWorker = f
  Stopper = s
  PoolSize = 2
  MaxOnce = 1
  MaxLog = 3
  NoThread = NoThread
  NoSlot = NoSlot
PROPERTY StopReturns
CHECK_DEADLOCK FALSE
