CONSTANTS
  Conns = {c1, c2, c3}
  TunnelKeepAlive = 1
  TunnelLB = "rr"
  Keys = {"/fast"}
  Hash <- MCHash
  RRWidth = 3
  MaxID = 3
SYMMETRY ConnSymmetry
SPECIFICATION Spec
INVARIANTS RegisteredHasPing RefIffWatched RegisteredHasReader RoundRobinEven
PROPERTIES NoResurrection
CHECK_DEADLOCK FALSE
