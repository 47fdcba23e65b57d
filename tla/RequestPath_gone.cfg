CONSTANTS
  Reqs = {1}
  Asks <- AnyAsk
  MayStall = {1}
  MaxStreams = 1
  ShortPatience = FALSE
SPECIFICATION Spec
INVARIANTS GoneIsNotAnError
CHECK_DEADLOCK FALSE
