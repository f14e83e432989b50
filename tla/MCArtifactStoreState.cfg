SPECIFICATION Spec
CONSTANTS
  evidence = evidence
  trace = trace
  state = state
  image = image
  Digest = {evidence, trace, state, image}
  Sealable = {evidence, trace, state}
  State = {state}
  Names <- MCNames
  Embeds <- MCEmbeds
  Quotable = {state}
  Process = {p1, p2}
  None = None
  Limit = 1
  MaxStarts = 2
  MaxFaults = 1
INVARIANTS ReferencesResolve
CHECK_DEADLOCK FALSE
