SPECIFICATION Spec
CONSTANTS
  KeyLen = 64
  Address = {1, 2}
  Slot = {1, 2, 3, 4}
  Value = {1, 2, 3}
  ValueLen <- MCValueLen
  AddrKey <- MCAddrKey
  SlotKey <- MCSlotKey
  Cells <- MCCells
  Account <- MCAccount
  ZeroHash = "zero"
  EmptyCodeHash = "empty"
  MaxAge = 1
CHECK_DEADLOCK FALSE
INVARIANTS
  RootsAreCanonical
  ProofsShowExactly
  VerifiersAgree
  ReservationHolds
