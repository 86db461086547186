\* A partial answer to refreshMeta leaves the coefficient out.
SPECIFICATION Spec
CONSTANTS
  Coefs = {3}
  Units = {u1}
  NoUnit = NoUnit
  Services = {"total"}
  InfBuffer = 1
  MaxRuns = 3
CHECK_DEADLOCK FALSE
INVARIANTS
  OneOnlyWithoutCoefficient
