SPECIFICATION FairSpec
CONSTANTS
  web = web
  few = few
  daemon = daemon
  NoKnob = NoKnob
  Targets <- MCTargets
  Knobs <- MCKnobs
  Names <- MCNames
  MaxChoices = 1
  Needs <- MCNeeds
  Permitted <- MCTargets
  MaxSteps = 3
  MaxModelCalls = 4
  MaxPerIncident = 2
  MaxAttempts = 2
  Checks <- MCChecks
  MaxRows = 1
  MaxObs = 1
  MaxRuns = 2
  Results <- MCResults
  Modes <- MCBothModes
INVARIANTS TypeOK NoRepeatBetweenWrites OfferedIsAccepted WithinBudget
PROPERTIES RunsEnd
CHECK_DEADLOCK FALSE
