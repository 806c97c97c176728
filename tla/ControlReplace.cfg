SPECIFICATION Spec
CONSTANTS
  Ctls = {c1, c2, c3}
  RunIDs = {r1}
  Names = {n1}
  SendCap = 1
  ReadCap = 1
  PoolCount = 0
  NoCtl = NoCtl
  NoRun = NoRun
SYMMETRY Symmetry
INVARIANTS
  NamesOwnedByLive
  LatestIsRegistered
  NoSendOnClosed
  WrongRunIDOnlyIfSuperseded
PROPERTIES
  ImplementsRegistry
CHECK_DEADLOCK FALSE
