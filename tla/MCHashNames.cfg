SPECIFICATION Spec
CONSTANTS
  KeyRange = 1048576
  Pointer = 8
  Cacheline = 16
  MaxBucket = 80
  ManyBuckets = 4
  FewEach = 4
  LastSizes = 2
  Keys <- MCKeys
  Hinits <- MCHinits
  Queries <- MCQueries
  MaxCalls = 4
  MaxDepth = 4
INVARIANTS
  LookupMatches
  BucketsHoldTheirNames
  RefusedForAReason
CHECK_DEADLOCK FALSE
