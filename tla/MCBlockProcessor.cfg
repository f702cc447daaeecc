SPECIFICATION MCSpec
CONSTANTS
  a = a
  b = b
  Address = {a, b}
  Tx <- MCTx
  Word = 64
  GasLimit = 8
  BaseFee = 1
  Coinbase = b
  Refunds = {0, 2}
  Moves = {0, 1}
  Ephemeral = {a, b}
  Funds <- MCFunds
  MaxBlocks = 2
CHECK_DEADLOCK FALSE
INVARIANTS
  Conservation
PROPERTIES
  FailedBlockUndone
