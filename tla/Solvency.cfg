SPECIFICATION Spec
CONSTANTS
  RentExempt = 1
  Amounts <- OneAmount
  Genesis <- SixPools
  MaxSlots = 3
  MaxLag = 1
  MaxErrors = 1
  NoResult = NoResult
  Reserves <- ThreeReserves
  NoClaim = NoClaim
  MaxRows = 2
INVARIANTS VerdictIsEarned YesMeansSolvent VerifiedIsUpheld ConsensusIsOfVerdicts
CHECK_DEADLOCK FALSE
