SPECIFICATION ExportSpec
CONSTANTS
  IoCall = {}
  FuncCall = {"handler"}
  FullMode = TRUE
  Enabled = TRUE
  MinDuration = 1
  MinDurations = {}
  U64 = 16
  TraceId = {}
  Fiber = {main, f1}
  Main = main
  main = main
  f1 = f1
  Bailouts = FALSE
  MaxDepth = 2
  MaxSpans = 3
  MaxClock = 1
  MaxRequests = 2
CHECK_DEADLOCK FALSE
INVARIANTS
  NoOrphans
  RootClosesTrace
  Accounted
  WholeTrees
  ExportInv
