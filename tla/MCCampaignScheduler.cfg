SPECIFICATION FairSpec
CONSTANTS
  control = control
  evolving = evolving
  plain = plain
  c1 = c1
  c2 = c2
  r1 = r1
  r2 = r2
  r3 = r3
  Campaign = {c1, c2}
  Lineage = {control, evolving, plain}
  Run = {r1, r2, r3}
  CampaignOf <- MCCampaignOf
  Observer <- MCObserver
  Evolves <- MCEvolves
  Begin <- MCBegin
  Serves <- MCServes
  Target <- MCTarget
  Finalize <- MCFinalize
  None = None
  Dead = Dead
  MaxEpoch = 2
  MaxFaults = 1
INVARIANTS
  ReferenceIsExactPrefix ObserverLeads SuccessorRunsNext CompletedIsQuiescent
  EvidenceIsCumulative
PROPERTIES PollsEnd
CHECK_DEADLOCK FALSE
