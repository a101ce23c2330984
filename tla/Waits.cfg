SPECIFICATION Spec
CONSTANTS
  h1 = h1
  h2 = h2
  Owners = {h1, h2}
  NoOwner = NoOwner
  Lease = 1
  MaxDelay = 0
  WaitLength = 1
  MaxSignal = 2
  MaxInstant = 3
  MaxGeneration = 2
  Lag = 1
SYMMETRY SymHosts
INVARIANTS
  ParkedIsOpen
  WakeupMatchesWait
  NoLostReply
PROPERTIES
  WakesOnce
