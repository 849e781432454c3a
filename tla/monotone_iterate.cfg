CONSTANTS
  Key = {1, 2, 3, 4, 5, 6, 7}
  Sentinel = 99
  None = None
  Lists <- MCLists
  MaxLen = 6
  BucketSize = 2
  MODEL <- MCModel
SPECIFICATION Spec
PROPERTIES
  ImplementsOrderedTable
  IterationEnds
