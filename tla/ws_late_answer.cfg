SPECIFICATION Spec
CONSTANTS
  Types = {"ok", "err"}
  PushTypes = {}
  Calls <- OneRequest
  Junk = {}
  MaxSent = 3
  MaxReqs = 3
  MaxCalls = 3
  MaxConns = 1
INVARIANTS
  RequestMatchesResponse
