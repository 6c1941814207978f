SPECIFICATION FeedSpec
CONSTANTS
  Spans <- YearAndTurns
\* The clock stops at the end of its span.
CHECK_DEADLOCK FALSE
INVARIANTS OpenBetweenBells LastCloseIsLatest ProgramAgrees NextFlipIsNextBell
