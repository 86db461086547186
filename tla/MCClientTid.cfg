\* Correlation and the watchdog: two callers, TIDs that wrap, late and
\* duplicated answers, a link that answers, falls silent and recovers.
SPECIFICATION Spec
CONSTANTS
  Callers = {c1, c2}
  TIDSpace = 3
  InfBuffer = 1
  RxBuffer = 1
  DeadLinkAfter = 1
  Unsolicited = {}
  MaxReq = 3
  MaxTime = 2
SYMMETRY Symmetry
CHECK_DEADLOCK FALSE
INVARIANTS
  TypeOK
  OneOutstanding
  AnswerMatchesRequest
  CorrelationInv
  ReconnectsSpaced
PROPERTIES
  KeepsPromise
  ReconnectOnlyWhenSilent
