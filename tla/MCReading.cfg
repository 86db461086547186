SPECIFICATION Spec
CONSTANTS
  Watts <- MCWatts
  Amps <- MCAmps
  Raws <- MCRaws
  Coefs <- MCCoefs
  Units <- MCUnits
  MapBase <- MCMapBase
  MapExtra <- MCMapExtra
  JobTime = 24
  MaxTime = 130
CHECK_DEADLOCK FALSE
INVARIANTS TypeOK StoredIsMeasured FullAnswerStored DamagedDropped
PROPERTY EachHalfHourPolledOnce
