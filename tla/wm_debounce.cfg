SPECIFICATION MCSpec
CONSTANTS
  RefreshFails = FALSE
  MaxPushes = 3
  Plans <- DebouncePlans
  MaxUpdates = 3
  MaxRounds = 0
INVARIANTS
  DebounceSeesLast
