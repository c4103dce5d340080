SPECIFICATION Spec
CONSTANTS
  IoCall = {"query"}
  FuncCall = {"handler"}
  FullMode = FALSE
  Enabled = TRUE
  MinDuration = 0
  MinDurations = {}
  U64 = 16
  TraceId = {t1}
  t1 = t1
  Fiber = {main}
  Main = main
  main = main
  Bailouts = TRUE
  MaxDepth = 2
  MaxSpans = 4
  MaxClock = 2
  MaxRequests = 1
CHECK_DEADLOCK FALSE
INVARIANTS
  ParentIsInnermost
