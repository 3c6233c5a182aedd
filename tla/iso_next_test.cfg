SPECIFICATION Spec
CONSTANTS
  CommandsFail = FALSE
  SshFails = FALSE
  RunDies = FALSE
  MaxWrites = 1
  MaxTests = 2
INVARIANTS
  NextTestConnects
