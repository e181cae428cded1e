SPECIFICATION Spec
CONSTANTS
  r1 = r1
  r2 = r2
  Requests = {r1}
  NLayers = 1
  NHeads = 2
  TokensPerBlock = 2
  MaxBlocksPerHead = 2
  GpuSlabs = 2
  DramSlabs = 1
  MaxTokens = 4
  TokenLimit <- Alone
  Faults = {}
  RetryAfterError = TRUE
  ChunkedPrefill = FALSE
  Pinnable = {}
  NoSlab = NoSlab
  Junk = Junk
INVARIANTS
  TokenCountIsStored
