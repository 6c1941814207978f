SPECIFICATION Spec
CONSTANTS
  Tracked <- Board
  Flags <- AllFlags
  MaxWeek = 2
  MaxClaims = 4
  MaxRuns = 3
  None = None
\* The bounds are reached and nothing is left to do.
CHECK_DEADLOCK FALSE
INVARIANTS TypeOK EvidenceIsFrozen BoardShowsLog AnchorIsOnChain
PROPERTIES AppendOnly
