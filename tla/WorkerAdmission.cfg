SPECIFICATION Spec
SYMMETRY SymWorkersAndRuns
CONSTANTS
  r1 = r1
  r2 = r2
  w1 = w1
  w2 = w2
  o1 = o1
  tA = tA
  Runs = {r1, r2}
  Workers = {w1, w2}
  Owners = {o1}
  Tenants = {tA}
  NoOwner = NoOwner
  NoRun = NoRun
  GlobalScope = global
  TenantOf <- MCTenantOf
  OwnerOf <- MCSharedOwner
  Lease = 2
  MaxDelay = 0
  MaxLimit = 2
  Configurable = {global, tA}
  Drift = 1
  MaxSteps = 2
  MaxVersion = 2
  MaxFaults = 1
PROPERTIES
  NoOverAdmission
