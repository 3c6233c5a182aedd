SPECIFICATION Spec
CONSTANTS
  Types = {"status", "data"}
  PushTypes = {}
  Calls <- ParamsCalls
  Junk = {}
  MaxSent = 3
  MaxReqs = 2
  MaxCalls = 2
  MaxConns = 1
INVARIANTS
  ParamsAreFresh
