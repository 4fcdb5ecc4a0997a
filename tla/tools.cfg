SPECIFICATION ToolsSpec
CONSTANTS
  a = a
  b = b
  Deployments <- SixDeployments
  HeaderSize = 2
  mCapacity = 7
  MaxBytes = 32
INVARIANT TypesOK
INVARIANT PacketsWhole
INVARIANT BytesKept
INVARIANT PeekIsOldest
INVARIANT DirectWriteIsSafe
INVARIANT NoLostWakeup
INVARIANT AssertIsLogged
INVARIANT ReadsWhatIsWritten
PROPERTY PacketsHandled
