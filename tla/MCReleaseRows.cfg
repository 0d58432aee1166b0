SPECIFICATION ReleaseSpec
CONSTANTS
  N = 3
  Plans <- MCCrossed
  Matrices <- MCMatrices
  MaxInflight = 2
  MaxForwards = 1
INVARIANT ReceivesItsOwnRows
CHECK_DEADLOCK FALSE
