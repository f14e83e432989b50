SPECIFICATION Spec
CONSTANTS
  control = control
  evolving = evolving
  plain = plain
  c1 = c1
  c2 = c2
  r1 = r1
  r2 = r2
  r3 = r3
  Campaign = {c1, c2}
  Lineage = {control, evolving}
  Run = {r1, r2}
  CampaignOf <- MCCampaignOf
  Observer <- MCObserver
  Evolves <- MCEvolves
  Begin <- MCBegin
  Serves <- MCServes
  Target <- MCTarget
  Finalize <- MCFinalizeAll
  None = None
  Dead = Dead
  MaxEpoch = 1
  MaxFaults = 0
INVARIANTS WaitIsEnough
CHECK_DEADLOCK FALSE
