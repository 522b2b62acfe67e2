SPECIFICATION Spec
CONSTANTS
  AnyThread = AnyThread
  None = None
  Caller = caller0
  Workers = {w1, w2}
  UseCaller = FALSE
  UserFibers = {}
  CbFibers = {k1, k2}
  Cbs = {c1, c2}
  Pins = {AnyThread}
  MaxReady = 0
  MaxWaits = 2
  Resubmit = FALSE
CHECK_DEADLOCK FALSE
INVARIANT ActiveCountExact
INVARIANT WaiterHasThread
PROPERTY UsesWakeSource
