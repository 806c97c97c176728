SPECIFICATION Spec
INVARIANTS
  OnlyOvertaken
  HoleAgrees
PROPERTIES
  TunnelCollapses
  UserServed
  HoleEnds
  SudpEnds
CHECK_DEADLOCK FALSE
