\* The default and the burst rule, two handlers, and all three modes.
CONSTANTS
  Handlers = {h1, h2}
  NoOne = NoOne
  y = y
  IPs = {a, w, x, y}
  Whitelist = {w, y}
  Configured = {x}
  HandWritten <- MCHandWritten
  SubnetOf <- MCSubnetOf
  NoSubnet = NoSubnet
  Modes = {"off", "single", "subnet"}
  Threshold = 2
  Rules = {"default", "burst"}
  Enabled = {"default", "burst"}
  Limit <- MCLimit
  Window <- MCWindow
  MaxTime = 4
SPECIFICATION FairSpec
CHECK_DEADLOCK FALSE
INVARIANTS
  TypeOK
  ShortWindowBound
  RefusedForCause
PROPERTIES
  RejectionEarned
  AnsweredUnlessSaving
