SPECIFICATION OrderedSpec
CONSTANTS
  MaxCtl = 2
  Cfgs = {e, a, b}
  EmptyCfg = e
  First = a
  Admins = {r1, r2}
  r1 = r1
  r2 = r2
  MaxReloads = 2
INVARIANTS
  OneConnected
  ReloadReaches
PROPERTIES
  VisitorComesUp
  CloseEndsService
CHECK_DEADLOCK FALSE
