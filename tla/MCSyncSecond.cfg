SPECIFICATION SyncSpec
CONSTANTS
  Group <- MCSecond
  Matrices <- MCPair
  BucketSizes = {0}
  Policies = {"phase_barrier_fifo"}
  Layers = 1
INVARIANT RootPlansThePhase
CHECK_DEADLOCK FALSE
