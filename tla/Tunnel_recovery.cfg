CONSTANTS
  Conns = {c1, c2}
  TunnelKeepAlive = 1
  TunnelLB = "rr"
  Keys = {}
  Hash <- MCHash
  RRWidth = 1
  MaxID = 4
  Procs = {p1}
  HA = 1
  SkipRegister = FALSE
  RegisterDelay = 1
  PingEvery = 2
  MaxFaults = 1
  None = None
SPECIFICATION TunnelSpec
INVARIANTS HealthyStaysLive DeadIsNotPicked NoLeakedConnection
PROPERTIES Recovers StopLeaves ClosedIsRemoved FollowsLifecycle
CHECK_DEADLOCK FALSE
