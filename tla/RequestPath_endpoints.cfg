CONSTANTS
  Reqs = {1}
  Asks <- AnyAsk
  MayStall = {1}
  MaxStreams = 1
  ShortPatience = FALSE
SPECIFICATION Spec
INVARIANTS BadGatewayMeansBroken ProxiedIsWhole
PROPERTIES EveryRequestEnds OriginReleased
CHECK_DEADLOCK FALSE
