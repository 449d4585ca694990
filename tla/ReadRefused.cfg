SPECIFICATION Spec
CONSTANTS
  Reader = reader
  Background = {b1, b2}
  DPs = {d1}
  Attempts = 3
  KeyValid = TRUE
  MaxFaults = 1
  MaxAir = 1
  MaxAcked = 0
INVARIANT RefusedReadDisconnects
CHECK_DEADLOCK FALSE
