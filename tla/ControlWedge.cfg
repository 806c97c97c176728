SPECIFICATION FairSpec
CONSTANTS
  Ctls = {c1, c2}
  RunIDs = {r1}
  Names = {}
  SendCap = 1
  ReadCap = 1
  PoolCount = 1
  NoCtl = NoCtl
  NoRun = NoRun
PROPERTIES
  ReplacementStarts
CHECK_DEADLOCK FALSE
