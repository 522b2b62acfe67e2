SPECIFICATION Spec
CONSTANTS
  Hup = Hup
  None = None
  Fds = {fd1, fd2}
  Threads = {t1, t2}
  Waiters = {w1, w2}
  Directions = {"READ", "WRITE"}
  Hangups = TRUE
SYMMETRY Symmetry
CHECK_DEADLOCK FALSE
INVARIANT NoLostWakeup
INVARIANT AssertNeedsOutdated
PROPERTY ImplementsWakeSource
