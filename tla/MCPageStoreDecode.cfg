SPECIFICATION Spec
CONSTANTS
  t1 = t1  t2 = t2  r1 = r1
  Threads = {t1, t2}
  EntriesPerChunk = 2
  MaxChunks = 1
  ChunkBytes = 1
  MaxDecodedBytes = 8
  Hinted = TRUE
  WorkingBytes = 4
  ProbeBytes = 4
  SlotBytes = 0
  RootBytes = 0
  CacheCapacity = 6
  PageSize = 2
  EvictRounds = 2
  RetainHeadroom = 2
  RootOf <- Root
  Databases <- Decoding
INVARIANTS ReadsFit
