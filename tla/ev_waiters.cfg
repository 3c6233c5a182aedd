SPECIFICATION FairSpec
CONSTANTS
  w1 = w1
  w2 = w2
  Waiters <- TwoWaiters
  Types = {"status", "options"}
  MaxPushes = 3
  MaxClears = 1
  MaxWaits = 2
INVARIANTS
  TypeOK
  NoLostWakeup
PROPERTIES
  EventNoticed
