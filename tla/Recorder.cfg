SPECIFICATION Spec
CONSTANTS
  Pages = 2
  PageSize = 1
  MarketAt <- MCMarket
  LiveGap = 2
  Runs = {r1, r2}
  HoursBack = 1
  MaxTime = 2
  MaxUpdates = 3
  MaxLag = 1
  Trailing = 2
  NoClaim = NoClaim
  NoProof = NoProof
INVARIANTS RootProvesTheLog ProvenIsOmitted OmissionIsProven
PROPERTIES LogOnlyGrows
CHECK_DEADLOCK FALSE
