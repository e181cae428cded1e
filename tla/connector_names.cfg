CONSTANTS
  NLayers = 2
  Blocks <- MCBlocks
  Reqs = {r1}
  Listed = {}
  PreemptedAt = "scheduler"
  Loads <- MCLoads
  Finishes <- MCFinishes
  MaxSteps = 3
  MaxOffload = 1
SPECIFICATION FairSpec
\* So it is with Listed = {1, 2} and PreemptedAt = "worker".
PROPERTY PreemptedReachesDram
CHECK_DEADLOCK FALSE
