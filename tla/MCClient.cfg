SPECIFICATION ClientSpec
CONSTANTS
  Streams = {s1}
  Generations = {1, 2}
  Layers = {l1}
  Digests = {d1}
  Sessions = {0, 1, 2}
  Versions = {1, 2}
  NoItem = NoItem
  MaxQueue = 1
  MaxDrained = 2
  MaxSubmits <- MCSubmits
INVARIANTS QueueCoversPending ReadyIsCurrent
PROPERTIES PublishedIsNewest BuildingEnds CloseStopsWorker
