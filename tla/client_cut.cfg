SPECIFICATION Spec
CONSTANTS
  ByteValues = 4
  ExclusiveOr <- XorOfBits
  FixedKey = 2
  mCapacity = 2
  RandKeys = {3}
  Contents <- TwoContents
  MaxSockets = 2
  MaxCalls = 0
  Replies <- TwoReplies
  BufferSize = 9
INVARIANT AssertionsHold
CHECK_DEADLOCK FALSE
