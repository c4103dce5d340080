SPECIFICATION FairSpec
CONSTANTS
  Process = {p1, p2}
  Thread = {main}
  Main = main
  main = main
  Pid = {1, 2}
  Inode = {i1, i2}
  None = None
  Zts = {}
  Sapis = {"cli", "fpm"}
  BufferSizes <- Sizes
  Width = 30
  SpanSize = 65536
  MaxIds = 1
  MaxSpans = 2
CHECK_DEADLOCK FALSE
INVARIANTS
  CapacityIsRounded
  LostOnlyByExitOrReuse
  InOrder
PROPERTY
  Drained
