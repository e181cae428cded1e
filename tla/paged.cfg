SPECIFICATION Spec
CONSTANTS
  NLayers = 2
  BlockSize = 2
  SinkTokens = 1
  Budget = 4
  SsdDir = TRUE
  MaxEvict = 2
  MaxPromote = 1
  MaxSpill = 1
  SpillFrom = 2
  Faults = {"promote", "pin", "save", "load"}
  AllocMayFail = {"naive"}
  MaxTokens = 3
  MaxAccess = 1
  MaxIds = 5
INVARIANTS
  TypeOK
  SinksStay
  TierMirrored
PROPERTIES
  ColdGoFirst
  KeepsLog
CHECK_DEADLOCK FALSE
