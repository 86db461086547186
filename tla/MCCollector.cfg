\* Jobs, notifications and meta refreshes in every order, partial answers too,
\* and shutdown at any moment.
SPECIFICATION FairSpec
CONSTANTS
  Coefs = {3}
  Units = {u1}
  NoUnit = NoUnit
  Services = {"total", "min1", "scheduled", "power"}
  InfBuffer = 1
  MaxRuns = 2
CHECK_DEADLOCK FALSE
INVARIANTS
  TypeOK
  UnitNeverWrong
  MinuteConvertedAlike
PROPERTIES
  NotificationsDrained
  ShutdownCompletes
