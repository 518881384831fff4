\* The stream cannot be opened and the error has to reach the client.
CONSTANTS
  Backends = {"gpt", "vertex"}
  MaxContent = 1
SPECIFICATION Spec
CHECK_DEADLOCK FALSE
INVARIANT DoneMeansNoError
