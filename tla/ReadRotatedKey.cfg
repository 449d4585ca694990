SPECIFICATION Spec
CONSTANTS
  Reader = reader
  Background = {b1}
  DPs = {d1}
  Attempts = 2
  KeyValid = FALSE
  MaxFaults = 0
  MaxAir = 1
  MaxAcked = 0
INVARIANT RotatedKeySurfaces
CHECK_DEADLOCK FALSE
