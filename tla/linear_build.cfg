CONSTANTS
  Key = {1, 2, 3, 4, 5, 6}
  Sentinel = 99
  Lists <- MCLists
  Lengths = {1, 3, 4, 5, 6}
  SizeT = 16
  insert_count = 2
  BucketSize = 2
  OverAlloc = 10075
  HASH <- MCHash
  ProbeInsert = 2
  ProbeLookup = 2
SPECIFICATION Spec
INVARIANTS
  TypeOK
  TableInv
  ThrowsOnlyWhenFull
PROPERTIES
  ImplementsLookupTable
