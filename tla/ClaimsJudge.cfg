SPECIFICATION Spec
CONSTANTS
  Pages = 3
  PageSize = 1
  MarketAt <- Weekend
  LiveGap = 2
  MaxTime = 2
  MaxUpdates = 4
  MaxLag = 1
  Trailing = 2
  MaxRows = 2
  MaxRulings = 1
\* The bounds are reached and nothing is left to do.
CHECK_DEADLOCK FALSE
INVARIANTS TypeOK RulingIsTrue HonestClaimStands
