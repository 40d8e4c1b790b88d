SPECIFICATION FairSpec
CONSTANTS
  Threads = {t1}
  Msgs = {m1, m2}
  RepubMax = 2
  IdMax = 3
  NetCap = 1
  MaxFaults = 1
  NoMsg = NoMsg
PROPERTIES AcceptedIsReceived AlwaysReconnects
