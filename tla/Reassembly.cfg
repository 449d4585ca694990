SPECIFICATION Spec
CONSTANTS
  GATT_MTU = 20
  Ends <- CutByCodec
  MaxMessages = 4
  MaxLost = 3
CHECK_DEADLOCK FALSE
INVARIANTS
  TypeOK
  NeverSpliced
PROPERTY IsChannel
