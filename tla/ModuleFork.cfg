SPECIFICATION ForkSpec
CONSTANTS
  Process = {p1, p2}
  Thread = {main, t1}
  Main = main
  main = main
  Pid = {1, 2}
  Inode = {i1, i2}
  None = None
  Zts = {}
  Sapis = {"cli", "fpm"}
  BufferSizes <- OneSize
  Width = 30
  SpanSize = 131072
  MaxIds = 2
  MaxSpans = 1
CHECK_DEADLOCK FALSE
INVARIANT
  OneRingPerWorker
