CONSTANTS
  Key = {0, 1}
  NumR = 5
  NumS = 2
  NumThreads = 3
  num_buckets = 2
  HASH <- MCHASH
  BUCKET_SIZE = 2
  OVERFLOW_BUF_SIZE = 1
  RUN_NUMS = 2
  SINGLE_TUPLE_PER_BUCKET = FALSE
SPECIFICATION FairSpec
INVARIANTS
  TypeOK
  LatchExclusion
  EveryTupleOnce
  ChainsFillFromTheFront
  BuildsIntoAllocatedTable
PROPERTIES
  ImplementsHashJoin
  Termination
