SPECIFICATION FairSpec
CONSTANTS
  Hup = Hup
  None = None
  Fds = {fd1, fd2}
  Threads = {t1, t2}
  Waiters = {w1, w2}
  Directions = {"READ"}
  Hangups = FALSE
CHECK_DEADLOCK FALSE
PROPERTY ReadyIsHandled
