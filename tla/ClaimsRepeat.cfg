SPECIFICATION Spec
CONSTANTS
  Pages = 2
  PageSize = 2
  MarketAt <- BellRings
  LiveGap = 2
  MaxTime = 1
  MaxUpdates = 5
  MaxLag = 0
  Trailing = 1
  MaxRows = 1
  MaxRulings = 2
\* The bounds are reached and nothing is left to do.
CHECK_DEADLOCK FALSE
INVARIANTS RulingIsRepeatable
