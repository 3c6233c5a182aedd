SPECIFICATION FairSession
CONSTANTS
  Header = 2
  Lengths = {3, 5}
  MaxReqs = 3
  MaxPushes = 1
  MaxConns = 2
  Initially = {TRUE, FALSE}
  MaxModules = 2
INVARIANTS
  AnswerIsWhole
  FramesNeverMix
  PutBack
  SuiteRunsEnabled
PROPERTIES
  ModulesEnd
