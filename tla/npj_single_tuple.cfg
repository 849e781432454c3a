CONSTANTS
  Key = {1, 2}
  NumR = 2
  NumS = 1
  NumThreads = 1
  num_buckets = 1
  HASH <- MCHASH
  BUCKET_SIZE = 2
  OVERFLOW_BUF_SIZE = 2
  RUN_NUMS = 1
  SINGLE_TUPLE_PER_BUCKET = TRUE
SPECIFICATION Spec
INVARIANTS
  JoinResult
