CONSTANTS
  Conns = {c1, c2}
  TunnelKeepAlive = 0
  TunnelLB = "hash"
  Keys = {"/fast"}
  Hash <- MCHash
  RRWidth = 2
  MaxID = 2
SPECIFICATION Spec
PROPERTIES HashPinsPath
CHECK_DEADLOCK FALSE
