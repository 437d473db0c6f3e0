SPECIFICATION Spec
CONSTANTS
  Align = 2
  PoolHdr = 6
  DataHdr = 4
  PoolSize = 14
  MaxFromPool = 4
  LargeRec = 2
  FailLimit = 0
  MaxBlocks = 2
  NULL = NULL
  a1 = a1
  a2 = a2
  Absent = Absent
  Junk = Junk
  Arrays <- MCArrays
  ArrayRec = 4
  ElemSize = 1
  InitialSizes <- MCInitialSizes
  PushCounts <- MCPushCounts
  OtherSizes <- MCOtherSizes
  MaxElems = 4
  MaxOthers = 2
  MaxChunks = 1
INVARIANTS
  TypeOK
  InUseIsReserved
PROPERTY KeepsItsElements
CHECK_DEADLOCK FALSE
