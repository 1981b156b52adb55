CONSTANTS
  r1 = r1
  r2 = r2
  cpu = cpu
  tailscale = tailscale
  web = web
  api = api
  db = db
  cron = cron
  c1 = c1
  c2 = c2
  i1 = i1
  i2 = i2
  q1 = q1
  q2 = q2
  Requests <- MCRequests
  Signals <- MCSignals
  Optional <- MCOptional
  Policies <- MCPolicies
  NoRequest = NoRequest
  MaxAge = 2
  MaxParallel = 1
  ToolTimeout = 1
  Services <- MCServices
  Application = web
  Checked <- MCChecked
  Topologies <- MCTopologies
  MaxPlan = 2
  MaxChecks = 2
  CheckTimeout = 2
  ContextChars = 4000
  Slack = 32
  MinShare = 100
  MaxWeight = 1800
  Reserve = 128
  Hole = 2
  Shortest = 40
  Callers <- MCCallers
  Contexts <- MCContexts
  SystemChars = 2000
  SchemaChars <- MCSchemaChars
  ContextTokens = 2048
  OutputTokens = 384
  RepairChars = 9100
  ModelTimeout = 2
  Incidents <- MCIncidents
  Nothing = Nothing
  Slots <- MCSlots
  MaxVersion = 2
  MaxNow = 10
SPECIFICATION ReadsSpec
INVARIANTS
  TypeOK
  ServedFresh
  CallsBounded
  HealthyThroughout
  MetricsAgree
  PromptWithinBudget
PROPERTIES
  PollKeepsSelection
  ReadsEnd
CHECK_DEADLOCK FALSE
