SPECIFICATION Spec
CONSTANTS
    V = 1
    Programs = {"kernels", "vector", "multiway"}
    MultiwayCallsMade <- MultiwayCalls
INVARIANTS
    NetworksSort
    MergesIntoOutput
    KernelsMergeAPrefix
    ChunksKeepTheItems
    ChunksInPlace
    Complete
    PathsSorted
    ItemsConserved
PROPERTIES
    EveryStepProgresses
    ImplementsSortedArray
    RoundsMakeProgress
