SPECIFICATION DeliverySpec
CONSTANTS
  i1 = i1
  i2 = i2
  i3 = i3
  o1 = o1
  p1 = p1
  p2 = p2
  w1 = w1
  w2 = w2
  MaxSeq = 3
  Ids = {i1, i2, i3}
  NoEvent = NoEvent
  Owners = {o1}
  NoOwner = NoOwner
  Lease = 1
  RetryDelay = 1
  Writers = {w1, w2}
  Publishers = {p1, p2}
  OwnerOf <- MCSharedOwner
  Tails = {t1, t2}
  TailLimit = 2
  NoClaim = NoClaim
  MaxFaults = 2
SYMMETRY Sym
INVARIANTS
  AckedIsSent
  TailIsComplete
  BufferIsPastGap
PROPERTIES
  InOrderStream
