SPECIFICATION Spec
CONSTANTS
  a = a
  b = b
  Workers <- TwoWorkers
  MaxSessionCount = 2
  IdCount = 4
  MaxAccepts = 3
  MaxStarts = 2
INVARIANT SlotHasOneSession
