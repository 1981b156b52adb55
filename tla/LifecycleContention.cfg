SPECIFICATION Spec
CONSTANTS
  i1 = i1
  i2 = i2
  q1 = q1
  q2 = q2
  t1 = t1
  NoOne = NoOne
  Incidents <- MCOneIncident
  Requests <- MCOneRequest
  Targets <- MCOneTarget
  MaxActions = 2
  MaxParallel = 1
  MaxPerIncident = 2
  Autonomous = TRUE
  Profiles <- MCAnyProfile
  TopologyEdits = TRUE
INVARIANTS OneServiceCallPerIncident
PROPERTIES ResolvedAfterWrites KeepsLife
