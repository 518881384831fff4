\* The burst rule resets the counts of the default rule.
CONSTANTS
  Handlers = {h1}
  NoOne = NoOne
  y = y
  IPs = {a, w, x, y}
  Whitelist = {w, y}
  Configured = {x}
  HandWritten <- MCHandWritten
  SubnetOf <- MCSubnetOf
  NoSubnet = NoSubnet
  Modes = {"off"}
  Threshold = 2
  Rules = {"default", "burst"}
  Enabled = {"default", "burst"}
  Limit <- WideLimit
  Window <- WideWindow
  MaxTime = 5
SPECIFICATION Spec
CHECK_DEADLOCK FALSE
INVARIANT EveryRuleBound
