SPECIFICATION Spec
CONSTANTS
  Stream = s1
  Streams = {s1}
  Generations = {1, 2}
  Layers = {1, 2}
  Digests = {d1}
  Sessions = {0, 1}
  Versions = {1, 2, 3, 4}
  NoItem = NoItem
  MaxQueue = 1
INVARIANTS WaitingTaskMayPublish ClaimIsOfThisLayer
  CleanBetweenForwards OpenSlotIsPublishable HookFindsItsPlan
PROPERTIES PlanLifecycleHolds
CHECK_DEADLOCK FALSE
