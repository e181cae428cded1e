SPECIFICATION Spec
CONSTANTS
  r1 = r1
  r2 = r2
  Requests = {r1, r2}
  NLayers = 1
  NHeads = 2
  TokensPerBlock = 2
  MaxBlocksPerHead = 2
  GpuSlabs = 2
  DramSlabs = 1
  MaxTokens = 3
  TokenLimit <- LongAndShort
  Faults <- ReportedFaults
  RetryAfterError = FALSE
  ChunkedPrefill = FALSE
  Pinnable <- FirstBlock
  NoSlab = NoSlab
  Junk = Junk
INVARIANTS
  TypeOK
  SlabOwnership
  HomeAgrees
  CountersAgree
PROPERTIES
  PinnedStays
  StoreSpec
