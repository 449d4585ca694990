SPECIFICATION Spec
CONSTANTS
  f1 = f1
  f2 = f2
  b1 = b1
  b2 = b2
  a1 = a1
  a2 = a2
  Flows <- TwoFlows
  Boards <- TwoBoards
  Accounts <- TwoAccounts
  Listing <- PartAndAll
  MacShown <- FirstBoard
  MaxKey = 1
  NoBoard = NoBoard
  NoAccount = NoAccount
  NoEntry = NoEntry
SYMMETRY FlowSymmetry
INVARIANTS
  TypeOK
  NoReloadLoop
  AccountListsDevice
  ManualIsOwnBoard
PROPERTIES
  NeverReplaced
