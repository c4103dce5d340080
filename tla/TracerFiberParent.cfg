SPECIFICATION Spec
CONSTANTS
  IoCall = {}
  FuncCall = {"handler"}
  FullMode = TRUE
  Enabled = TRUE
  MinDuration = 0
  MinDurations = {}
  U64 = 16
  TraceId = {t1}
  t1 = t1
  Fiber = {main, f1}
  Main = main
  main = main
  Bailouts = FALSE
  MaxDepth = 2
  MaxSpans = 4
  MaxClock = 2
  MaxRequests = 1
  f1 = f1
CHECK_DEADLOCK FALSE
INVARIANTS
  RestoredParentIsOpen
