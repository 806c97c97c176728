SPECIFICATION StartedSpec
CONSTANTS
  Cap = 1
  Wrappers = {w1, w2}
  w1 = w1
  w2 = w2
  NoWrapper = none
PROPERTIES
  ControlEnds
CHECK_DEADLOCK FALSE
