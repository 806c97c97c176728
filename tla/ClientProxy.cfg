SPECIFICATION FairHistorySpec
CONSTANTS
  Wrappers = {w1, w2}
  Monitored = {w1}
  MaxFailed = 2
  MaxInFlight = 2
  None = None
INVARIANTS
  WithdrawnIsClosed
  QuietMeansAgreement
PROPERTIES
  UnhealthyIsRemovedUnlessMixed
  HealthyRuns
  ImplementsTurns
CHECK_DEADLOCK FALSE
