SPECIFICATION Spec
CONSTANTS
  MaxSteps = 8
  MaxPoints = 16
  MaxLen = 4
  MaxRecords = 2
  PacketGap = 3
  MaxTime = 3
  Ids = {0, 7, 99}
INVARIANTS
  TestsAreSharp
  RandomIsSafe
  ModulesFit
  DegradationsAreTold
  PacketsArePieces
  NoJumpMeansNoRepeat
  ListsParse
