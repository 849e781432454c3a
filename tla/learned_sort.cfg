SPECIFICATION Spec
CONSTANTS
    DEFAULT_BATCH_SZ = 2
    DEFAULT_FANOUT = 2
    DEFAULT_THRESHOLD = 2
    DEFAULT_SAMPLING_RATE = 50
    DEFAULT_ARCH = 3
    MIN_SORTING_SIZE = 4
    Lanes = 3
    SIMDStateSize = 2
    EXC_CNT_THRESHOLD = 2
    BATCH_SZ_EXP = 2
    Jobs <- MCJobs
INVARIANTS
    ResidueIsPacked
    PartitionsFit
    ReadBeforeWritten
    SortsTheRelation
PROPERTIES
    ImplementsBoundedBuckets
    SortEnds
CHECK_DEADLOCK FALSE
