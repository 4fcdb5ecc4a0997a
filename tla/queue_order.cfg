SPECIFICATION Spec
CONSTANTS
  p1 = p1
  p2 = p2
  c1 = c1
  Producers <- TwoProducers
  Consumers <- OneConsumer
  Quotas <- NodeReused
  TagCount = 8
INVARIANT InOrder
