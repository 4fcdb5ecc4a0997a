SPECIFICATION Spec
CONSTANTS
  Deployments <- MixedOnly
  HeaderSize = 2
  mCapacity = 7
  MaxBytes = 32
INVARIANT UseSizeIsUnread
