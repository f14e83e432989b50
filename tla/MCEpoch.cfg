CONSTANTS
  MaxChallengers = 1
  Budget = 2
  MaxParallel = 2
  Latency <- MCLatency
  MaxDisruptions = 2
SPECIFICATION Spec
INVARIANTS
  SelectionCoversBudget TrajectoryOrder InputProvenance BestIsBest
  EpochInv
PROPERTIES
  WorkIsKept
CHECK_DEADLOCK FALSE
