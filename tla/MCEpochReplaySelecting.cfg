CONSTANTS
  MaxChallengers = 1
  Budget = 2
  MaxParallel = 2
  Latency <- MCLatency
  MaxDisruptions = 1
SPECIFICATION FairReplaySpec
PROPERTIES EpochCompletes
CHECK_DEADLOCK FALSE
