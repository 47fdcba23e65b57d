CONSTANTS
  Workers = {w1, w2, w3}
  Interval = 2
  MaxTime = 5
SPECIFICATION Spec
INVARIANTS SlotsSpaced BacklogBounded
CHECK_DEADLOCK FALSE
