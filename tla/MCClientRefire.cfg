\* The claim of client_test.go:217 about the watchdog, which the code breaks.
SPECIFICATION Spec
CONSTANTS
  Callers = {c1}
  TIDSpace = 8
  InfBuffer = 1
  RxBuffer = 1
  DeadLinkAfter = 2
  Unsolicited = {}
  MaxReq = 4
  MaxTime = 5
CHECK_DEADLOCK FALSE
PROPERTIES
  SingleTimeoutNeverRefires
