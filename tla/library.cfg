SPECIFICATION LibSpec
CONSTANTS
  Base = 2
  HeaderSize = 2
  Body <- Bodies
  MaxSend = 3
  Services = 2
  Dealing = {d1, d2}
  Communicator = {c1, c2}
  MaxDeals = 2
  XmlThread = {x1, x2}
  XmlNobody = XmlNobody
  XmlQuery = {node}
  XmlValueQuery = {value}
  XmlBadQuery = {bad}
  MaxXmlCalls = 3
  MaxDownloads = 3
  MaxProgress = 1
  WaitSecs = 3
  MaxChanges = 4
  Directives = {"Y", "m", "H", "I", "p", "M", "S"}
  Literals = {"-", "m"}
  MaxItems = 3
  BufferSize = 8
  Dates <- SomeDates
  Part = {"root", "ROOT", "a", "b", ""}
  LowerOf <- MCLowerOf
  Name <- MCName
  Root <- MCRoot
  Empty = ""
  Config = {v0, v1}
  Default = v0
  NoConfig = NoConfig
  Callback = {k}
  MaxChange = 3
INVARIANTS PoolRoundRobin XmlSafe TimeRoundTrip TreeInv CallbackRooted
PROPERTIES FramesInOrder FrameOrBroken PoolServed XmlCallReturns DownloadOutcome ServiceAnswer OnlySubtreeChanges TopFollowsRoot
CHECK_DEADLOCK FALSE
