SPECIFICATION Spec
CONSTANTS
  Types = {"ok", "err"}
  PushTypes = {}
  Calls <- OneRequest
  Junk = {"not_json", "undecodable"}
  MaxSent = 2
  MaxReqs = 1
  MaxCalls = 1
  MaxConns = 1
INVARIANTS
  LoopStopsOnlyWhenClosed
