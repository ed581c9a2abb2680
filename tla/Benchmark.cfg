CONSTANTS
  r1 = r1  r2 = r2
  NoRunner = NoRunner
  Runner = {r1, r2}
  SampleCount = 3
SPECIFICATION FairSpec
INVARIANTS
  RunnerInvariant
  CollectionCanBeReviewed
  SpendingIsAccountedFor
  RunsEndTidily
PROPERTIES
  EveryRunEnds
  ImplementsBudget
CHECK_DEADLOCK FALSE
