SPECIFICATION Spec
CONSTANTS
  IoCall = {"query"}
  FuncCall = {"handler"}
  FullMode = FALSE
  Enabled = TRUE
  MinDuration = 2
  MinDurations = {1}
  U64 = 16
  TraceId = {}
  t1 = t1
  Fiber = {main}
  Main = main
  main = main
  Bailouts = FALSE
  MaxDepth = 3
  MaxSpans = 4
  MaxClock = 2
  MaxRequests = 1
CHECK_DEADLOCK FALSE
INVARIANTS
  TypeOK
  ParentIsInnermost
  FilterKeepsAncestors
  IntervalsNest
  NestInv
