SPECIFICATION Spec
CONSTANTS
  market = market
  vaultB = vaultB
  router = router
  alice = alice
  bob = bob
  Accounts <- AllAccounts
  Boundary <- TheBoundary
  Intermediaries <- TheRouter
  Code <- CodeOf
  FromBlock = 1
  ToBlock = 3
  Step = 2
  Samples = 2
  Reserve = 9
  Unit = 12
  Histories <- Mixed
  NoReport = NoReport
  Vaults <- FourVaults
  PageSize = 2
  STOP_BEFORE = 2
  STORE_BEFORE = 3
  MAX_PAGES = 5
  SaveEvery = 2
  SAMPLES = 2
  MaxGrowth = 2
  MaxCrashes = 1
  NoSummary = NoSummary
  Whole = 20
  Lt = 15
  Bonus = 2
  Cf = 10
  Band = 1
  Fair = 2
  GapStep = 2
  MaxGap = 10
  Sizes <- ThreeSizes
  Depths <- ThreeDepths
  Lenders <- FiveBooks
  NoSeizure = NoSeizure
INVARIANTS LedgerIsWhole CommitsForGood WindowIsWhole DeclineIsReal StrandedHadNoBuyer
CHECK_DEADLOCK FALSE
