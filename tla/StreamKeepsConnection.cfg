\* A stream goes on over a connection that was given back when it started.
CONSTANTS
  Requests = {r1, r2}
  Conns = {c1, c2, c3, c4, c5}
  NoConn = NoConn
  MinSize = 1
  MaxSize = 2
  CreateMayFail = FALSE
SYMMETRY Symmetry
SPECIFICATION Spec
INVARIANT StreamKeepsConnection
