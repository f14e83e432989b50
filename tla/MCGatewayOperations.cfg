SPECIFICATION Spec
CONSTANTS
  a1 = a1
  a2 = a2
  Attempt = {a1, a2}
  Key = {"evaluate", "probe", "ready", "pivot"}
  Kind <- MCKind
  Candidate <- MCCandidate
  Usable <- MCUsable
  Arms <- MCArms
  Handler = {h1, h2}
  None = None
  Dead = Dead
  NoOne = NoOne
  Shared = Shared
  MaxGeneration = 1
  MaxCalls = 1
  MaxRequests <- MCRequests
  MaxJobs = 2
  MaxFaults <- MCFaults
SYMMETRY Symmetry
INVARIANTS OneExecution SettledIsVerdict AnswerIsItsOwn OneEarnedReport QuotaCountsRequests GatewayInv
PROPERTIES ResultsAreImmutable ReportWaitsForCalls
CHECK_DEADLOCK FALSE
