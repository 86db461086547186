\* Set-up, loss, ladder, restart and shutdown with two faults and two Epans.
SPECIFICATION FairSpec
CONSTANTS
  NoEpan = NoEpan
  Epans = {e1, e2}
  RescanAfter = 2
  ResetAfter = 4
  EventBuffer = 2
  EpanBuffer = 1
  MaxReports = 2
  MaxJoins = 1
  MaxFaults = 2
  LateJoins = FALSE
CHECK_DEADLOCK FALSE
INVARIANTS
  TypeOK
  LossNeverForgotten
  NoSilentOutage
  OnlyAbandonedScansLeaveEpans
PROPERTIES
  Recovers
  CloseStopsAll
