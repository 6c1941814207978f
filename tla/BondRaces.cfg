SPECIFICATION Spec
CONSTANTS
  claimA = claimA
  claimB = claimB
  honest = honest
  gamed = gamed
  alice = alice
  bob = bob
  carol = carol
  None = None
  Claims <- TwoClaims
  Nodes <- ThreeNodes
  Bodies <- TwoBodies
  FalseBodies <- OneLie
  Stakes <- OneSize
  WindowSecs <- OneTick
  MaxTime = 1
  Overlap = TRUE
  MaxThrows = 1
\* Every claim settled and the clock at its bound: nothing is left to do.
CHECK_DEADLOCK FALSE
SYMMETRY NodeSymmetry
INVARIANTS HonestyIsFree
