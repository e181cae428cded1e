CONSTANTS
  NLayers = 2
  Blocks <- MCBlocks
  Reqs = {r1}
  Listed = {1, 2}
  PreemptedAt = "scheduler"
  Loads <- MCLoads
  Finishes <- MCFinishes
  MaxSteps = 3
  MaxOffload = 1
SPECIFICATION FairSpec
INVARIANTS TypeOK SavedIsStored KernelsReadCurrent
PROPERTY OffloadReachesDram
CHECK_DEADLOCK FALSE
