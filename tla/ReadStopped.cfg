SPECIFICATION Spec
CONSTANTS
  Reader = reader
  Background = {b1, b2, b3}
  DPs = {d1}
  Attempts = 3
  KeyValid = TRUE
  MaxFaults = 2
  MaxAir = 1
  MaxAcked = 0
SYMMETRY Symmetry
PROPERTY DisconnectIsLast
CHECK_DEADLOCK FALSE
