\* Progress: requests and Run's own replies contend for the send lock, the
\* meter may never answer, infCh may never be read, the process may stop.
SPECIFICATION FairSpec
CONSTANTS
  Callers = {c1, c2}
  TIDSpace = 3
  InfBuffer = 1
  RxBuffer = 1
  DeadLinkAfter = 1
  Unsolicited = {"infc", "request"}
  MaxReq = 2
  MaxTime = 0
CHECK_DEADLOCK FALSE
PROPERTIES
  EveryRequestReturns
  ReceiverComesBack
