SPECIFICATION Spec
CONSTANTS
  B = 3
  Overhead = 1
  PerByte = 1
  Params <- MCParams
  Redeems <- MCRedeems
  NoTicket = NoTicket
  MaxCreates = 2
CHECK_DEADLOCK FALSE
INVARIANTS
  QuoteIsExact
  OncePerSubmission
