SPECIFICATION Spec
CONSTANTS
  ByteValues = 4
  ExclusiveOr <- XorOfBits
  FixedKey = 2
  mCapacity = 2
  RandKeys = {3}
  Contents <- TwoContents
  MaxSockets = 2
  MaxCalls = 2
  Replies <- TwoReplies
  BufferSize = 5
INVARIANT TypeOK
INVARIANT WireDecodes
INVARIANT ReceivesWhole
INVARIANT ClosesItsSocket
INVARIANT OneReceiver
CHECK_DEADLOCK FALSE
