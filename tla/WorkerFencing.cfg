SPECIFICATION Spec
SYMMETRY SymWorkers
CONSTANTS
  r1 = r1
  r2 = r2
  w1 = w1
  w2 = w2
  o1 = o1
  tA = tA
  Runs = {r1}
  Workers = {w1, w2}
  Owners = {o1}
  Tenants = {tA}
  NoOwner = NoOwner
  NoRun = NoRun
  GlobalScope = global
  TenantOf <- MCTenantOf1
  OwnerOf <- MCSharedOwner
  Lease = 2
  MaxDelay = 1
  MaxLimit = 1
  Configurable = {}
  Drift = 1
  MaxSteps = 2
  MaxVersion = 4
  MaxFaults = 2
INVARIANTS
  FenceIsUnique
  HolderIsCurrent
  CheckpointsFollowFence
