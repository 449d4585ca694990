SPECIFICATION Spec
CONSTANTS
  LengthBytes = 2
  IsText <- NoTopBit
  Streams <- PiecesAndRest
CHECK_DEADLOCK FALSE
INVARIANTS
  TypeOK
  MirrorsProtocol
  StoresUpToBreak
  RoundTrips
