SPECIFICATION FairSpec
CONSTANTS
  Yielders = {y1, y2}
  CacheMax = 2
  QueueMax = 1
  CallKinds = {"event_post", "desired_get"}
  MaxRequests = 2
  MaxReplies = 2
INVARIANTS DmInv OneOutcome ReplyReadsLiveNode
PROPERTIES CachedIsAnswered
