SPECIFICATION Spec
CONSTANTS
  b1 = b1
  b2 = b2
  c1 = c1
  c2 = c2
  w = w
  p1 = p1
  p2 = p2
  None = None
  Boards <- TwoBoards
  Coordinators <- TwoEntries
  Watches <- OneWatch
  Own <- OwnBoard
  ProductId <- OwnProduct
  Macs <- FirstOrNone
  Advert <- Adverts
  Rssi <- Signals
  Attempts = 3
INVARIANTS
  TypeOK
  OwnData
  FreshResult
  OvertakenOnce
PROPERTIES
  ReadersGoOn
