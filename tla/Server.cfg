SPECIFICATION ServerSpec
CONSTANTS
  Addrs = {"a", "b"}
  Extra = "c"
  MaxClients = 1
  MaxFds = 1
  Requests = 2
  Length = 2
  MaxFails = 2
CHECK_DEADLOCK FALSE
INVARIANT OpenIsOwned
INVARIANT LoopsExact
INVARIANT ClosedOnce
PROPERTY RequestsAnswered
PROPERTY ClientsAccepted
PROPERTY StopEndsLoops
PROPERTY ConnectionEnds
