\* Eighty requests at once on a pool of five to twenty connections.
CONSTANTS
  MaxRequests = 80
  MinSize = 5
  MaxSize = 20
  CreateMayFail = FALSE
CONSTRAINT Burst
SPECIFICATION Spec
INVARIANT NeverDead
