SPECIFICATION FairSpec
CONSTANTS
  Process = {p1, p2}
  Thread = {main}
  Main = main
  main = main
  Pid = {1}
  Inode = {i1, i2}
  None = None
  Zts = {}
  Sapis = {"cli"}
  BufferSizes <- OneSize
  Width = 30
  SpanSize = 131072
  MaxIds = 1
  MaxSpans = 1
CHECK_DEADLOCK FALSE
PROPERTY
  CliIsDrained
