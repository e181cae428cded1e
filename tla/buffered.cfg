SPECIFICATION Spec
CONSTANTS
  NLayers = 2
  BlockSize = 2
  SinkTokens = 1
  Budget = 5
  FirstLen = 3
  Grain = 2
  MaxEvict = 2
  Kinds = {"scored", "fifo"}
  IngestAny = {"scored"}
  DirtyRestart = FALSE
  Faults = {"grow", "evict", "build"}
  MaxTokens = 9
  MaxConv = 2
  MaxQueue = 5
INVARIANTS
  TypeOK
  Accounts
PROPERTIES
  ScoredMakesRoom
  KeepsLog
CHECK_DEADLOCK FALSE
