CONSTANTS
  Key = {1, 2, 3, 4, 5, 6, 7, 8}
  Sentinel = 99
  Lists <- MCLists
  Lengths = {1, 7, 8}
  SizeT = 16
  insert_count = 2
  BucketSize = 2
  OverAlloc = 0
  HASH <- MCHash
  SegmentSize = 2
  ModelIndex = FALSE
  ModelScale = 1
SPECIFICATION Spec
INVARIANTS
  ChainInv
  NoUndefinedRead
PROPERTIES
  ImplementsLookupTable
