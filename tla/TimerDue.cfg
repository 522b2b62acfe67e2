SPECIFICATION FairSpec
CONSTANTS
  Timers = {1, 2}
  Threads = {th1}
  Listers = {th1}
  Periods = {1}
  Hour = 1
  Epoch = 2
  MaxTime = 3
  MaxBack = 1
  MaxChanges = 1
CHECK_DEADLOCK FALSE
PROPERTY DueTimersFire
