\* Two requests, two resets of either pair, one line of the log package.
CONSTANTS
  r1 = r1
  r2 = r2
  Requests <- MCRequests
  MaxTicks = 2
  MaxStd = 1
SPECIFICATION Spec
SYMMETRY Symmetry
CONSTRAINT Apart
CHECK_DEADLOCK FALSE
INVARIANTS
  TypeOK
  ReportBounded
  LineWritten
