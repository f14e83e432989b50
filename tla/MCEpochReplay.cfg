CONSTANTS
  MaxChallengers = 1
  Budget = 4
  MaxParallel = 2
  Latency <- MCLatency
  MaxDisruptions = 2
SPECIFICATION FairReplaySpec
INVARIANTS ReplayIsAccepted
PROPERTIES CompletesOrIsCut
CHECK_DEADLOCK FALSE
