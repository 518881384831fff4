\* Two requests, a channel of two: FIFO order, identities and liveness.
CONSTANTS
  Requests = {r1, r2}
  Conns = {c1, c2, c3, c4, c5}
  NoConn = NoConn
  MinSize = 1
  MaxSize = 2
  CreateMayFail = TRUE
SPECIFICATION FairSpec
INVARIANTS
  CountCoversLive
  CountBound
  TypeOK
  ExclusiveLease
  PooledConnsOpen
  NoOrphans
PROPERTIES
  DriftNeverHeals
  GetterAnswered
  ImplementsLeases
  ImplementsCounts
