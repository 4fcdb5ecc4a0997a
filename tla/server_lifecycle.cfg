SPECIFICATION FairSpec
CONSTANTS
  a = a
  b = b
  Workers <- TwoWorkers
  MaxSessionCount = 2
  IdCount = 4
  MaxAccepts = 2
  MaxStarts = 2
INVARIANT TypeOK
INVARIANT NoticesSuffice
INVARIANT WorkersServe
INVARIANT CrashHasCause
PROPERTY ShutdownReturns
