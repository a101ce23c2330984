SPECIFICATION LeaseSpec
SYMMETRY SymLeases
CHECK_DEADLOCK FALSE
CONSTANTS
  x1 = x1
  x2 = x2
  t1 = t1
  t2 = t2
  k1 = k1
  k2 = k2
  \* sandboxes
  Executors = {x1, x2}
  Steps = {s1}
  Contents = {c1, c2}
  NoContent = NoContent
  Capacity = 1
  SandboxLease = 1
  MaxKeys = 2
  MaxSbTime = 2
  MaxExecCrashes = 1
  \* signing keys
  Threads = {x1, x2}
  Nobody = Nobody
  Tokens = {t1, t2}
  Kids = {k1, k2}
  KidOf <- MCKidOf
  IssuedAt <- MCIssuedAt
  ExpiresAt <- MCExpiresAt
  MaxLifetime = 9
  Skew = 0
  JwksCache = 1
  Cooldown = 1
  Timeout = 1
  MaxSkTime = 4
  \* token verdicts
  Callers = {x1, x2}
  Bearers = {t1, t2}
  Expiry <- MCExpiresAt
  Ttl = 2
  MaxEntries = 1
  CallTimeout = 1
  ClockSkew = 1
  MaxClock = 4
INVARIANTS
  CapacityHeld
  RecordedIsAttributable
  RetiredKeysFade
  TrustEnds
