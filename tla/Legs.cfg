SPECIFICATION Spec
CONSTANTS
  ethereum = ethereum
  solana = solana
  hot = hot
  cold = cold
  Chains <- BothChains
  FineChains <- FineOnes
  Fine = 2
  Addresses <- BothAddresses
  REGISTRY <- Issuers
  Bitcoin <- ThreeStates
  MaxMoves = 3
  NoRow = NoRow
  RateUnit = 2
  Blocks <- EightBlocks
  MaxBlocks = 4
  Signers = {alice, bob}
  Subjects = {jito, msol}
  TTL_SLOTS = 1
  MAX_TTL_SLOTS = 2
  MaxSlot = 3
  MaxSigned = 1
  None = None
INVARIANTS CoverageWithinSkew RowsHoldAtTheBlock AuthorizedMeansSigned
CHECK_DEADLOCK FALSE
