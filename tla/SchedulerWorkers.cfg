SPECIFICATION FairSpec
CONSTANTS
  AnyThread = AnyThread
  None = None
  Caller = caller0
  Workers = {w1, w2}
  UseCaller = FALSE
  UserFibers = {f1}
  CbFibers = {k1, k2}
  Cbs = {c1, c2}
  Pins = {AnyThread}
  MaxReady = 1
  MaxWaits = 0
  Resubmit = FALSE
INVARIANT AssertsHold
INVARIANT OneThreadPerFiber
INVARIANT CbConserved
INVARIANT StopDrains
PROPERTY EveryCbStarts
