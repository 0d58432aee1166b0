SPECIFICATION SyncSpec
CONSTANTS
  Group <- MCGroup
  Matrices <- MCMatrices
  BucketSizes = {0, 2}
  Policies = {"phase_barrier_fifo", "trivial_reverse_bucket"}
  Layers = 2
INVARIANTS CollectivesAgree PhasesDoNotOverlap
PROPERTIES ExchangesNatively ExchangeEnds
CHECK_DEADLOCK FALSE
