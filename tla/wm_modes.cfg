SPECIFICATION MCSpec
CONSTANTS
  RefreshFails = TRUE
  MaxPushes = 3
  Plans <- AllPlans
  MaxUpdates = 3
  MaxRounds = 3
INVARIANTS
  OneTypeOK
  PassMeansSwitched
  PassMeansInSync
  FailMeansDefect
PROPERTIES
  SwitchEnds
