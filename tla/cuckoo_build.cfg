CONSTANTS
  Key = {0, 1, 2, 3, 4, 5}
  Sentinel = 99
  None = 98
  Lists <- MCLists
  Lengths = {1, 4, 5, 6}
  SizeT = 16
  insert_count = 2
  BucketSize = 2
  OverAlloc = 0
  H1 <- MCH1
  H2 <- MCH2
  KickingFn = {"balanced", "biased"}
  Threshold = 1
  RngMax = 3
  MaxKickCycleLength = 3
SPECIFICATION FairSpec
INVARIANTS
  CuckooInv
  ThrowsOnlyWhenCrowded
PROPERTIES
  ImplementsLookupTable
  Terminates
