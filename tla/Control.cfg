SPECIFICATION ControlSpec
SYMMETRY SymControl
CONSTANTS
  x1 = x1
  x2 = x2
  y1 = y1
  y2 = y2
  k1 = k1
  k2 = k2
  v1 = v1
  v2 = v2
  \* the review gate
  ReviewIds = {v1, v2}
  DecisionKeys = {k1, k2}
  MigrationKeys = {1}
  People = {x1, x2}
  Plans = {y1, y2}
  Rules = {q1}
  CallIds = {c1}
  Costs = {1}
  ModelLimit = 2
  ToolLimit = 1
  CostLimit = 2
  Ttl = 2
  Backoff = 1
  Additions <- MCAdditions
  MaxOverdue = 1
  MaxTransients = 1
  MaxCrashes = 1
  NoCall = NoCall
  NoPerson = NoPerson
  NoKey = NoKey
  NoReason = NoReason
  \* the grants
  admin1 = admin1
  admin2 = admin2
  user = user
  ann = ann
  bob = bob
  Callers = {admin1, admin2, user}
  Subjects = {ann, bob}
  SubjectOf <- MCSubjectOf
  Scopes <- MCScopes
  InBound = {admin1, user}
  Grantable = {"case:read", "review:decide"}
  MaxRevision = 2
  MaxTtl = 1
  NoSubject = NoSubject
  \* the dispatch order
  busy = busy
  quiet = quiet
  a1 = a1
  Tenants <- MCTenants
  Runs <- MCRuns
  Pollers = {x1, x2}
  TenantOf <- MCTenantOf
  Priority <- MCPriority
  TenantLimit = 1
  GlobalLimit = 2
  \* the retry budget
  Producers = {x1, x2}
  Keys = {y1, y2}
  MaxBudget = 4
  MaxUnits = 2
INVARIANTS
  BudgetConserved
  ReleasedIsResumable
  ActsUnderGrant
  ListingMatchesAccess
  NoTenantStarves
  RetriesAccounted
PROPERTIES
  DecisionsRouteOnce
  NoEscalation
