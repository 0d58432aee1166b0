SPECIFICATION ReleaseSpec
CONSTANTS
  N = 3
  Plans <- MCPlans
  Matrices <- MCMatrices
  MaxInflight = 2
  MaxForwards = 2
INVARIANTS RequestsPair DeliveredIsComplete RowsAreSentOnce MismatchedEdgesAreSilent OneWindowAtATime
PROPERTY ReleaseEndsOrRaises
CHECK_DEADLOCK FALSE
