CONSTANTS
  Id = {"wiki", "uniform"}
  Sizes = {3}
  File <- MCFile
  InRange <- MCInRange
  Offset <- MCOffset
  Value = {4, 5, 7}
  MaxKey = 7
  Plan <- PlanAll
  dataset_size = 3
  MaxCalls = 2
  Iterations = 4
  Margin = 1
  AddMax = 1
  Null = Null
SPECIFICATION FairSpec
INVARIANTS
  SetupMatchesCall
PROPERTIES
  DatasetsAreStable
  EveryCallReturns
