SPECIFICATION Spec
CONSTANTS
  Rent = 1
  Amounts <- OneAmount
  Genesis <- FivePools
  MaxSlots = 5
  MaxLag = 1
  MaxErrors = 2
\* The check is over once it has rendered its verdict.
CHECK_DEADLOCK FALSE
INVARIANTS TypeOK GreenIsEarned RedIsEarned
