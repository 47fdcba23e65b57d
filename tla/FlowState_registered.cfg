CONSTANTS
  LinesPerSecond = 1
  MaxLines = 3
  MaxResets = 1
SPECIFICATION Spec
INVARIANTS RegisteredShowsUp
CHECK_DEADLOCK FALSE
