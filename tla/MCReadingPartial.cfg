SPECIFICATION Spec
CONSTANTS
  Watts <- MCWatts
  Amps <- MCAmps
  Raws <- MCRaws
  Coefs <- MCCoefs
  Units <- MCUnits
  MapBase <- MCMapBase
  MapExtra <- MCMapExtra
  JobTime = 0
  MaxTime = 59
CHECK_DEADLOCK FALSE
INVARIANT PartialAnswerUsed
