\* Four registers as in the SoC, arbiters of 2 to 7 lines, frames of 3 bytes.
SPECIFICATION UnitSpec
CONSTANTS
  Data = {0, 1, 2}
  Bytes = {0}
  ZERO = 0
  DATA_DEPTH = 4
  PTR_SPAN = 4
  MaxLines = 7
  MaxBytes = 3
  MsgBytes = {{}, {1, 3, 4, 6}}
  Noise = {{}, {3, 4}, {0, 7}}
INVARIANTS
  TypeOK
  StateMatchesPointers
  FlagsMatchCount
  AddressesMatchCount
  GrantIsRoundRobin
  AnyGrantIsAnyRequest
  CrcIsDivision
  BurstsAreDetected
PROPERTIES
  ImplementsQueue
  PassedOverGetsCloser
