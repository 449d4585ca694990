SPECIFICATION Spec
CONSTANTS
  Reader = reader
  Background = {b1, b2, b3}
  DPs = {d1}
  Attempts = 3
  KeyValid = TRUE
  MaxFaults = 1
  MaxAir = 1
  MaxAcked = 0
PROPERTIES ReadContract LockIsGranted StopQuiesces
CHECK_DEADLOCK FALSE
