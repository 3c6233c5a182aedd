SPECIFICATION FairSpec
CONSTANTS
  Types = {"ok", "err", "status"}
  PushTypes = {"status"}
  Calls <- AllCalls
  Junk = {"not_json"}
  MaxSent = 3
  MaxReqs = 3
  MaxCalls = 2
  MaxConns = 2
INVARIANTS
  TypeOK
  QueueInOrder
  AnswersItsRequest
  NothingDropped
  RoutedOnce
PROPERTIES
  ImplementsMailbox
  CallsEnd
  FramesHandled
