SPECIFICATION OpsSpec
SYMMETRY SymOperations
CHECK_DEADLOCK FALSE
CONSTANTS
  x1 = x1
  x2 = x2
  x3 = x3
  \* backups
  Names = {x1, x2, x3}
  Reuse = FALSE
  KeepLast = 1
  KeepDaily = 2
  DayLength = 2
  Rpo = 2
  DrillEvery = 2
  MaxBkTime = 3
  MaxCrashes = 1
  MaxDrills = 2
  \* the WAL archive
  SegBytes = 2
  SegsPerLog = 3
  MaxSeg = 4
  MaxTimeline = 2
  MaxWalTime = 4
  MaxDeleted = 1
  LagLimit = 1
  \* the review list
  Actions = {a1, a2}
  Margin = 3
  Limit = 2
  MaxOpen = 1
  MaxGap = 1
  FromCopy = FALSE
  MaxTime = 5
INVARIANTS
  HolesAreRight
  CoveredRollsForward
PROPERTIES
  RetentionSparesTheNewest
  StatusIsRight
  ListIsComplete
