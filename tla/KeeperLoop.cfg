SPECIFICATION FairSpec
CONSTANTS
  Flips <- Bells
  Poll = 3
  Retry = 3
  Floor = 2
  Grace = 1
  Heartbeat = 5
  MaxRpc = 2
  MaxLag = 2
  MaxLead = 1
  Starts <- DawnOrMidday
  MaxTime = 20
  MaxFails = 1
  MaxSuspends = 1
INVARIANTS NoticesWithinPoll StalenessBounded
PROPERTIES CatchesUp
