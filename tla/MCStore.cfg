SPECIFICATION StoreSpec
CONSTANTS
  Streams = {s1}
  Generations = {1, 2}
  Layers = {l1}
  Digests = {d1, d2}
  Sessions = {1}
  Versions = {1, 2}
  NoItem = NoItem
SYMMETRY DigestSymmetry
INVARIANT NothingBelowFloor
PROPERTIES DigestIsStable StagesInOrder RecordIsKept
