SPECIFICATION FairSpec
CONSTANTS
  Values = {"v1", "v2"}
  Slots = {0, 1}
  MaxTests = 2
  MaxMoves = 2
INVARIANTS
  TypeOK
  Tidy
  PassMeansInMcu
  PassMeansStored
PROPERTIES
  TestsEnd
