SPECIFICATION FairSpec
CONSTANTS
  ProbeMax = 2
  NwkRetryMax = 3
  ConnRetryMax = 8
  IntervalMin = 1
  IntervalMax = 30
  KeepAlive = 700
  KeepAliveMax = 1200
  MaxFaults = 2
INVARIANTS ConnInv EventsTellTheTruth
PROPERTIES BackoffDoublesOrResets DeadPeerDetected AlwaysBackOnline
