\* Up to three messages with content, from either service; the bound of the
\* middleware is three chunks, the stop chunk and the event that ends it.
CONSTANTS
  Backends = {"gpt", "vertex"}
  MaxContent = 3
  MaxChunks = 5
SPECIFICATION ChatFairSpec
CHECK_DEADLOCK FALSE
INVARIANTS
  TypeOK
  TimeoutTypeOK
  ContentInOrder
  DoneAfterContent
  CompleteUnlessEnded
  SilentOnlyMidAnswer
PROPERTIES
  NoGoroutineLeft
  StreamEndReturns
  ImplementsDelivery
  LimitedReturns
  StreamIsOver
