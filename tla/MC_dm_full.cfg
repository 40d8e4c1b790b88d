SPECIFICATION Spec
CONSTANTS
  Yielders = {y1}
  CacheMax = 2
  QueueMax = 2
  CallKinds = {"deviceinfo_update"}
  MaxRequests = 3
  MaxReplies = 1
PROPERTY FullMeansFull
