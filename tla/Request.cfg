\* Every route of a configuration with three models, every conversation of up
\* to three messages, every kind of model name.
CONSTANTS
  Iterable <- MCIterable
  Prefix <- MCPrefix
  MaxMessages = 3
  Retries = {0, 2}
SPECIFICATION RequestSpec
CHECK_DEADLOCK FALSE
INVARIANTS
  RequestTypeOK
  ContentKept
  RolesAlternate
  ModelSentIsListed
  CountedIsSent
  KeyBeforeService
  StandardIsStrict
  RouteModelServed
