SPECIFICATION Spec
CONSTANTS
  Part = {"root", "a", "b", "c", ""}
  LowerOf <- MCLowerOf
  Name <- MCPlainName
  Root <- MCRoot
  Empty = ""
  Config = {c0, c1}
  Default = c0
  NoConfig = NoConfig
  Callback = {k}
  MaxChange = 3
PROPERTY ChildrenFollow
CHECK_DEADLOCK FALSE
