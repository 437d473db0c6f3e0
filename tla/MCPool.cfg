SPECIFICATION Spec
CONSTANTS
  Align = 2
  PoolHdr = 6
  DataHdr = 4
  PoolSize = 10
  MaxFromPool = 16
  LargeRec = 2
  CleanupRec = 4
  FileRec = 2
  FailLimit = 0
  ScanLimit = 1
  MaxBlocks = 4
  c1 = c1
  c2 = c2
  f1 = f1
  NULL = NULL
  Sizes <- MCSizes
  Chunks <- MCChunks
  Files <- MCFiles
  MaxRegions = 5
  MaxCleanups = 2
SYMMETRY ChunkSymmetry
INVARIANTS
  TypeOK
  AllocationsInBounds
  AllocationsDisjoint
  LargeListExact
  FilesClosedOnce
  RecordsIntact
  SkippedBlocksFailedOften
CHECK_DEADLOCK FALSE
