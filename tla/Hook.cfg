SPECIFICATION HookSpec
CONSTANTS
  None = None
  Fibers = {f1, f2}
  Fds = {3}
  Ops = {"recv", "connect", "sleep"}
  ThreadCounts = {1, 2}
  Numbers = {0, 1, 2, 3, 4, 5}
  FirstContexts = 2
  DatasSize = 5
  MaxOpens = 4
SYMMETRY Symmetry
CHECK_DEADLOCK FALSE
INVARIANT WokenOnce
INVARIANT OneThreadCalls
INVARIANT TimeoutIsOwn
INVARIANT AssertNeedsReuse
INVARIANT TablesKept
