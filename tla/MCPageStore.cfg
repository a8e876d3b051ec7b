SPECIFICATION FairSpec
CONSTANTS
  t1 = t1  t2 = t2  r1 = r1
  Threads = {t1, t2}
  EntriesPerChunk = 1
  MaxChunks = 1
  ChunkBytes = 1
  MaxDecodedBytes = 4
  Hinted = TRUE
  WorkingBytes = 1
  ProbeBytes = 1
  SlotBytes = 1
  RootBytes = 1
  CacheCapacity = 4
  PageSize = 2
  EvictRounds = 2
  RetainHeadroom = 1
  RootOf <- Root
  Databases <- All
INVARIANTS MemoryCovered PlainReadsFit RefusedWhenBare ChunksOnce
PROPERTIES RootsLast CallsReturn
