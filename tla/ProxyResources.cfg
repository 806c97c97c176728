SPECIFICATION Spec
CONSTANTS
  c1 = c1
  c2 = c2
  Ctls = {c1, c2}
  Menus <- MCMenus
  Ports = {"p1", "p2"}
  Objs = {1, 2, 3, 4}
  MaxPortsPerClient = 1
  None = None
INVARIANTS
  NothingLeaks
  
  PortsUsedExact
  PanicNeedsStray
CHECK_DEADLOCK FALSE
