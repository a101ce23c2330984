SPECIFICATION ProgressSpec
CHECK_DEADLOCK FALSE
CONSTANTS
  \* the review gate
  ReviewIds = {v1}
  DecisionKeys = {k1}
  MigrationKeys = {1}
  People = {ann, bob}
  Plans = {y1}
  Rules = {q1}
  CallIds = {c1, c2}
  Costs = {1}
  ModelLimit = 2
  ToolLimit = 2
  CostLimit = 2
  Ttl = 2
  Backoff = 1
  Additions <- MCAdditions
  MaxOverdue = 1
  MaxTransients = 2
  MaxCrashes = 1
  NoCall = NoCall
  NoPerson = NoPerson
  NoKey = NoKey
  NoReason = NoReason
  \* the import
  Workers = {w1, w2}
  Facts = 2
  PageSize = 1
  Exports = {e1}
  Corrections = {}
  MaxOther = 0
  MaxStops = 1
  \* sandboxes
  Executors = {w1, w2}
  Steps = {s1}
  Contents = {d1}
  NoContent = NoContent
  Capacity = 1
  SandboxLease = 1
  MaxKeys = 2
  MaxSbTime = 1
  MaxExecCrashes = 1
PROPERTIES
  GateComesToRest
  ImportsComplete
  GivenBack
