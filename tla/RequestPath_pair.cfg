CONSTANTS
  Reqs = {1, 2}
  Asks <- PairAsk
  MayStall = {2}
  MaxStreams = 1
  ShortPatience = TRUE
SPECIFICATION Spec
INVARIANTS TypeOK TimeoutMeansTime HandlerEndsStream
CHECK_DEADLOCK FALSE
