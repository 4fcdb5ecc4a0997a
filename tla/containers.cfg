SPECIFICATION ContainersSpec
CONSTANTS
  a = a
  b = b
  c = c
  d = d
  e = e
  f = f
  g = g
  Producers <- TwoProducers
  Consumers <- TwoConsumers
  Quotas <- NoNodeReused
  TagCount = 4
SYMMETRY Interchangeable
INVARIANT TypesOK
INVARIANT NothingLost
INVARIANT TailInList
INVARIANT CountersAgree
INVARIANT ChunksWhole
PROPERTY QueueImplementsFifo
PROPERTY StackImplementsStack
PROPERTY PoolImplementsPool
