SPECIFICATION LaneSpec
CONSTANTS
  Ranks = {r1, r2}
  LastLayer = 2
  Digests = {d1, d2}
  MaxQueue = 2
  None = None
INVARIANT FallBackIsConsistent
CHECK_DEADLOCK FALSE
