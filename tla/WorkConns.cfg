SPECIFICATION OrderedSpec
CONSTANTS
  Conns = {w1, w2, w3}
  Users = {u1, u2}
  PoolCount = 1
  PoolCap = 2
  SendCap = 1
  NoConn = NoConn
INVARIANTS
  OneOwner
  NothingStranded
  JoinedIsStartedOrExhausted
PROPERTIES
  UserAnswered
CHECK_DEADLOCK FALSE
