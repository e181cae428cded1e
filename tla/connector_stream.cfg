CONSTANTS
  NLayers = 2
  Blocks <- MCBlocks
  Reqs = {r1}
  Listed = {1, 2}
  PreemptedAt = "scheduler"
  Loads <- MCLoads
  Finishes <- MCFinishes
  MaxSteps = 2
  MaxOffload = 2
SPECIFICATION Spec
\* OffloadIsOwners in its place is refuted as well.
INVARIANT SavedAfterForward
CHECK_DEADLOCK FALSE
