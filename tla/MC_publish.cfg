SPECIFICATION Spec
CONSTANTS
  Threads = {t1, t2}
  Msgs = {m1, m2, m3}
  RepubMax = 2
  IdMax = 2
  NetCap = 2
  MaxFaults = 1
  NoMsg = NoMsg
SYMMETRY Symmetry
INVARIANTS PublishInv NoSilentLoss ForgottenOnlyByItsId
PROPERTY ImplementsPromise
