SPECIFICATION Spec
CONSTANTS
  Threads = {t1, t2}
  Yielders = {t1, t2}
  Handlers = {"hf", "hw"}
  Filters = {"f", "w"}
  FilterOf <- MCFilterOf
  Matches <- MCMatches
  Removes <- MCRemoves
  Apis <- MCApis
  MaxIds = 3
  MaxEvents = 1
  NoThread = NoThread
  NoPkt = NoPkt
  NoHandler = NoHandler
INVARIANTS SubscribeInv SubscribedIsHandled SyncMeansGranted DeliveredToAll
SYMMETRY Symmetry
