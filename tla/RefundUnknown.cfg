SPECIFICATION Spec
CONSTANTS
  d1 = d1
  d2 = d2
  ops = ops
  operator = operator
  Dispatchers = {d1, d2}
  Deciders = {ops, operator}
  ProviderWorker = provider
  ReviewWorker = review
  ApprovalWorker = approvalWorker
  Daemons = {daemon1}
  Owners = {provider, review, approvalWorker, daemon1}
  NoOwner = NoOwner
  Nobody = Nobody
  Lease = 1
  MaxDelay = 0
  WaitLength = 2
  MaxSignal = 1
  MaxInstant = 4
  Lag = 1
  MaxToken = 5
SYMMETRY SymRefund
INVARIANT
  UnknownIsRecorded
CHECK_DEADLOCK FALSE
