\* What reader.go:95 says of SKLL64, against an EVENT that comes before its answer.
SPECIFICATION Spec
CONSTANTS
  Scripts <- ConnectOnly
  ResultBuffer = 2
  ResponseBuffer = 3
  Fields = 2
  MaxCommands = 3
  MaxEvents = 1
  MaxFaults = 0
CHECK_DEADLOCK FALSE
INVARIANTS
  AddressIsAnAddress
