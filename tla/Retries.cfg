\* Two attempts, and calls that may fail in passing.
CONSTANTS
  Iterable <- MCIterable
  Prefix <- MCPrefix
  MaxMessages = 1
  Retries = {2}
SPECIFICATION RequestSpec
CHECK_DEADLOCK FALSE
INVARIANT TransientIsRetried
