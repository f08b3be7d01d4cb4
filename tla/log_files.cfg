SPECIFICATION Spec
CONSTANTS
  Logger = {l1, l2}
  Writer = {w1, w2}
  First = w1
  Shared = Shared
  NoName = NoName
  YearDays = 2
  SplitWhenDate = TRUE
  SizeLimit = 2
  MsgMax = 2
  KeepDays = 1
  MaxDay = 2
  MaxMsg = 3
SYMMETRY Symmetry
INVARIANTS LostOnlyOnFailure SizeBounded UnifiedUntilSplit
PROPERTIES FreshFile DayOfFile
CHECK_DEADLOCK FALSE
