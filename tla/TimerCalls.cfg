SPECIFICATION Spec
CONSTANTS
  Timers = {1, 2}
  Threads = {th1, th2}
  Listers = {th1, th2}
  Periods = {1, 5}
  Hour = 1
  Epoch = 4
  MaxTime = 6
  MaxBack = 0
  MaxChanges = 1
SYMMETRY Symmetry
CHECK_DEADLOCK FALSE
INVARIANT CbIffQueued
INVARIANT EarlierTimerTickles
INVARIANT EmptyBeginNeedsRemoval
PROPERTY NeverEarly
