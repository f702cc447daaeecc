SPECIFICATION FairSpec
CONSTANTS
  s = s
  c = c
  pre = pre
  new = new
  Address = {s, c, pre, new}
  Precompiles = {pre}
  NoAccount = NoAccount
  World0 <- MCWorld0
  From = s
  Coinbase = s
  Fresh = {new}
  TxGas = 4
  Vals = {0, 1}
  Reqs = {9}
  MaxDepth = 3
  Div = 3
  CallValue = 1
  NewAccountGas = 1
  Stipend = 1
  CreateGas = 1
  DepositGas = 1
CHECK_DEADLOCK FALSE
INVARIANTS
  TypeOK
  Restorable
  StaticIsReadOnly
  NothingMinted
  CodeSurvives
  NoOrphanStorage
PROPERTIES
  GasNotMade
  TransactionEnds
