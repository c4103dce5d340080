SPECIFICATION Spec
CONSTANTS
  IoCall = {"query"}
  FuncCall = {"handler"}
  FullMode = FALSE
  Enabled = TRUE
  MinDuration = 0
  MinDurations <- BelowZero
  U64 = 16
  TraceId = {t1}
  t1 = t1
  Fiber = {main, f1}
  f1 = f1
  Main = main
  main = main
  Bailouts = TRUE
  MaxDepth = 2
  MaxSpans = 3
  MaxClock = 1
  MaxRequests = 2
CHECK_DEADLOCK FALSE
INVARIANTS
  OneTree
  TreeInv
  RootOnce
  TraceOfOwnRequest
  UntracedIsSilent
