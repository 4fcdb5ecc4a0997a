SPECIFICATION FairSpec
CONSTANTS
  k1 = k1
  acceptor = acceptor
  w1 = w1
  w2 = w2
  a1 = a1
  a2 = a2
  p1 = p1
  p2 = p2
  NoKey = NoKey
  NoID = NoID
  NoPacket = NoPacket
  Acceptor = acceptor
  Keys <- OneKey
  Workers <- OneWorker
  AppThreads <- OneApp
  Ops <- AllOps
  Packets <- OnePacket
  MaxWsaBuf = 1
  MaxAccept = 2
  MaxCalls = 1
PROPERTY ResetIsReleased
PROPERTY DisconnectReleases
