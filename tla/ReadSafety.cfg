SPECIFICATION Spec
CONSTANTS
  Reader = reader
  Background = {b1, b2, b3}
  DPs = {d1}
  Attempts = 3
  KeyValid = TRUE
  MaxFaults = 2
  MaxAir = 1
  MaxAcked = 1
SYMMETRY Symmetry
INVARIANTS TypeOK LockDiscipline PairedImpliesLink AnswersMatch TuyaErrorOnlyFromStatus ReturnsOnlyPaired
CHECK_DEADLOCK FALSE
