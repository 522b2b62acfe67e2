SPECIFICATION Spec
CONSTANTS
  AnyThread = AnyThread
  None = None
  Caller = caller0
  Workers = {w1, w2}
  UseCaller = FALSE
  UserFibers = {}
  CbFibers = {k1}
  Cbs = {c1}
  Pins = {AnyThread}
  MaxReady = 0
  MaxWaits = 1
  Resubmit = FALSE
SYMMETRY Symmetry
CHECK_DEADLOCK FALSE
INVARIANT OneThreadPerFiber
