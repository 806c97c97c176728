SPECIFICATION OrderedSpec
CONSTANTS
  Ctls = {c1, c2}
  RunIDs = {r1}
  Names = {n1}
  SendCap = 1
  ReadCap = 1
  PoolCount = 2
  NoCtl = NoCtl
  NoRun = NoRun
PROPERTIES
  ShutdownEndsOrHangs
  LoginStartsOrHangs
  SilentClientCollected
CHECK_DEADLOCK FALSE
