SPECIFICATION Spec
CONSTANTS
  Limbs = 3
  LimbBits = 4
  ByteBits = 2
  stackMax = 4
  memMax = 12
  MaxUint32 = 13
  Keccak256 <- MCKeccak256
  maxReplayCode = 20
  maxWitnessSteps = 40
  witnessGas = 11000
  Programs <- MCPrograms
  Gases = {0, 3, 8, 14, 24}
  Requests <- MCRequests
CHECK_DEADLOCK FALSE
INVARIANTS
  ArithmeticExact
  FramesStaySound
  WitnessesVerify
  ContractAgrees
