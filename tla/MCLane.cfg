SPECIFICATION LaneSpec
CONSTANTS
  Ranks = {r1, r2}
  LastLayer = 2
  Digests = {d1, d2}
  MaxQueue = 1
  None = None
INVARIANTS PublishedPlansAgree OutcomesAgree LaneSlotsAgree
PROPERTY ForwardEndsOrDiverges
CHECK_DEADLOCK FALSE
