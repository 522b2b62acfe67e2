SPECIFICATION SettingsSpec
CONSTANTS
  Threads = {"t1", "t2"}
  NameSeq <- MCNameSeq
  Root = "root"
  Undefined = Undefined
  Malformed = {"%"}
  Values <- MCValues
  MaxCalls = 3
  Users = {"u1", "u2", "u3"}
  Vars = {"v1", "v2"}
  MaxAdds = 3
  Uris = {"/a/x", "/b/x"}
  Patterns = {"/*", "/a/*", "*/x"}
  MaxChanges = 5
CHECK_DEADLOCK FALSE
PROPERTY CallsEnd
INVARIANT LoggersMatch
INVARIANT KeyIsOwn
INVARIANT HandedOver
INVARIANT MatchesLastCalls
