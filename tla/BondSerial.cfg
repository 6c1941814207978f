SPECIFICATION Spec
CONSTANTS
  claimA = claimA
  claimB = claimB
  honest = honest
  gamed = gamed
  alice = alice
  bob = bob
  carol = carol
  None = None
  Claims <- TwoClaims
  Nodes <- ThreeNodes
  Bodies <- TwoBodies
  FalseBodies <- OneLie
  Stakes <- TwoSizes
  WindowSecs <- OneTick
  MaxTime = 2
  Overlap = FALSE
  MaxThrows = 0
\* Every claim settled and the clock at its bound: nothing is left to do.
CHECK_DEADLOCK FALSE
INVARIANTS TypeOK AwaitedIsBonded Conservation
PROPERTIES EscrowSpec SettledForGood
