SPECIFICATION Spec
CONSTANTS
  NoEpan = NoEpan
  Epans = {e1, e2}
  RescanAfter = 2
  ResetAfter = 4
  EventBuffer = 2
  EpanBuffer = 2
  MaxReports = 1
  MaxJoins = 2
  MaxFaults = 2
  LateJoins = TRUE
CHECK_DEADLOCK FALSE
PROPERTIES
  SuccessMeansSession
