SPECIFICATION PoolSpec
CONSTANTS
  a = a
  b = b
  Address = {a, b}
  Tx <- MCTx
  Gases = {4, 6}
  Counts <- MCCounts
INVARIANTS
  IndexAgreement
  BatchSorted
  WithinBudget
  BatchWithinGas
PROPERTIES
  NoSilentLoss
