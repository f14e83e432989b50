SPECIFICATION FairSpec
CONSTANTS
  Controller = {c1, c2}
  NoOne = NoOne
  NoReport = NoReport
  MaxRetries = 1
  MaxDisruptions = 2
INVARIANTS AttemptInv AcceptedIsEarned RetryBudget CandidateKeepsItsReport
PROPERTIES ContractIsKept AttemptSettlesOrOrphans
CHECK_DEADLOCK FALSE
