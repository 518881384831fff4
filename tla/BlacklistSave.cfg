\* An address reaches the threshold and has to be saved.
CONSTANTS
  Handlers = {h1}
  NoOne = NoOne
  y = y
  IPs = {a, w, x, y}
  Whitelist = {w, y}
  Configured = {x}
  HandWritten <- MCHandWritten
  SubnetOf <- MCSubnetOf
  NoSubnet = NoSubnet
  Modes = {"single"}
  Threshold = 2
  Rules = {"default", "burst"}
  Enabled = {"default", "burst"}
  Limit <- MCLimit
  Window <- MCWindow
  MaxTime = 5
SPECIFICATION FairSpec
CHECK_DEADLOCK FALSE
PROPERTY BlacklistSaved
