SPECIFICATION FairSpec
CONSTANTS
  Conns = {w1, w2}
  None = None
PROPERTIES
  BrokenIsReplaced
  ClosedProxyEnds
CHECK_DEADLOCK FALSE
