SPECIFICATION OtaFairSpec
CONSTANTS
  f1 = f1
  f2 = f2
  c1 = c1
  Images = {f1, f2, c1}
  Kind <- ImageKind
  Size <- ImageSize
  MaxPushes = 2
  MaxFails = 2
  MaxRetry = 1
  None = None
INVARIANT OtaInv
PROPERTIES SuccessIsImage UpdateEnds 
CHECK_DEADLOCK FALSE
