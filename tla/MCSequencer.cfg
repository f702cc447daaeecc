SPECIFICATION Spec
CONSTANTS
  a = a
  b = b
  Address = {a, b}
  NoAddress = NoAddress
  Tx <- MCTx
  Gases = {}
  Counts = {}
  Word = 32
  GasLimit = 3
  BaseFee = 0
  Coinbase = b
  Refunds = {0}
  Moves = {0}
  Ephemeral = {}
  Funds <- MCFunds
  maxTxs = 2
  delay = 1
  window = 1
  MaxUint64 = 4
  MaxExpressQueue = 1
  MaxBatch = 2
  Times = {0, 4}
  Message <- MCMessage
  MaxInbox = 1
  MaxBlocks = 2
CHECK_DEADLOCK FALSE
INVARIANTS
  Conservation
  NoDoubleExecution
  NoncesAccounted
  NoncesFollow
  GasSuffices
  DepositsAccounted
PROPERTIES
  TakenOnTime
  ProduceBlockReturns
