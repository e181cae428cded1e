SPECIFICATION Spec
CONSTANTS
  r1 = r1
  r2 = r2
  Requests = {r1}
  NLayers = 1
  NHeads = 2
  TokensPerBlock = 2
  MaxBlocksPerHead = 1
  GpuSlabs = 4
  DramSlabs = 2
  MaxTokens = 4
  TokenLimit <- Alone
  Faults = {}
  RetryAfterError = FALSE
  ChunkedPrefill = FALSE
  Pinnable = {}
  NoSlab = NoSlab
  Junk = Junk
INVARIANTS
  Lossless
