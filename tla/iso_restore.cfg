SPECIFICATION FairSpec
CONSTANTS
  CommandsFail = TRUE
  SshFails = TRUE
  RunDies = TRUE
  MaxWrites = 2
  MaxTests = 3
INVARIANTS
  TypeOK
  Restored
  DownOnlyBetween
PROPERTIES
  BackendReturns
