SPECIFICATION Spec
CONSTANTS
  k1 = k1
  acceptor = acceptor
  w1 = w1
  w2 = w2
  a1 = a1
  a2 = a2
  p1 = p1
  p2 = p2
  NoKey = NoKey
  NoID = NoID
  NoPacket = NoPacket
  Acceptor = acceptor
  Keys <- OneKey
  Workers <- TwoWorkers
  AppThreads <- OneApp
  Ops <- NoAddr
  Packets <- TwoPackets
  MaxWsaBuf = 1
  MaxAccept = 2
  MaxCalls = 2
SYMMETRY Interchangeable
INVARIANT TypeOK
INVARIANT CountIsHolders
INVARIANT NoUseAfterRelease
INVARIANT OneReceiver
INVARIANT HandlersInOrder
INVARIANT KeyHasOneOwner
INVARIANT OneSender
INVARIANT PacketAccounting
INVARIANT NoCrash
PROPERTY FrozenWhileReleased
PROPERTY ImplementsService
