SPECIFICATION FairSpec
CONSTANTS
  AnyThread = AnyThread
  None = None
  Caller = caller0
  Workers = {w1}
  UseCaller = TRUE
  UserFibers = {f1}
  CbFibers = {k1, k2}
  Cbs = {c1, c2}
  Pins = {AnyThread, w1, caller0}
  MaxReady = 0
  MaxWaits = 0
  Resubmit = FALSE
PROPERTY StopReturns
