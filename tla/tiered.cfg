SPECIFICATION Spec
CONSTANTS
  b1 = b1
  b2 = b2
  b3 = b3
  g1 = g1
  g2 = g2
  d1 = d1
  d2 = d2
  n1 = n1
  n2 = n2
  t1 = t1
  t2 = t2
  Blocks = {b1, b2, b3}
  Threads = {t1}
  GpuBufs = {g1}
  DramBufs = {d1, d2}
  NvmBufs = {n1, n2}
  MaxBlocks = 2
  Batch = 2
  Pinned = {b3}
  Exclusive = TRUE
  NoBuf = NoBuf
  NoBlock = NoBlock
INVARIANTS
  TypeOK
  BufferOwnership
  LruListed
  Readable
PROPERTIES
  MovesSpec
