SPECIFICATION Spec
CONSTANTS
  Process = {p1, p2}
  Thread = {main, t1}
  Main = main
  main = main
  Pid = {pid1, pid2}
  Inode = {i1, i2}
  None = None
  Zts = {p2}
  Sapis = {"cli", "fpm"}
  BufferSizes <- OneSize
  Width = 30
  SpanSize = 131072
  MaxIds = 2
  MaxSpans = 2
CHECK_DEADLOCK FALSE
INVARIANTS
  TypeOK
  OneRingPerWorker
  RingIsFindable
  HeaderFirst
  NoStrayFiles
  HostInv
SYMMETRY PidSymmetry
