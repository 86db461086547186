SPECIFICATION FairSpec
CONSTANTS
  MaxLine = 1
  RxSize = 1
  MaxInfcs = 1
  MaxFaults = 2
INVARIANTS TypeOK CleanShutdown
CHECK_DEADLOCK FALSE
PROPERTIES ProcessEnds ReaderComesBack ServiceGoesOn
