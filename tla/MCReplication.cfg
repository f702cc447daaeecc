SPECIFICATION FairSpec
CONSTANTS
  lead = lead
  f = f
  Node = {lead, f}
  Leader = lead
  Links <- Pair
  Origin <- MCOrigin
  Tx <- AnyTx
  Credit = Credit
  BaseFee = 1
  Cap = 1
  MaxFrame = 1
  MaxNumber = 2
  MaxDeposits = 1
  MaxCatchUps = 1
CHECK_DEADLOCK FALSE
INVARIANTS
  SameBatches
  AgreementUntilTrouble
PROPERTIES
  Refines
  CatchUpServesUntilTrouble
