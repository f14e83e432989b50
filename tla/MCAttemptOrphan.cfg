SPECIFICATION FairSpec
CONSTANTS
  Controller = {c1, c2}
  NoOne = NoOne
  NoReport = NoReport
  MaxRetries = 0
  MaxDisruptions = 1
PROPERTIES AttemptSettles
CHECK_DEADLOCK FALSE
