CONSTANTS
  LinesPerSecond = 1
  MaxLines = 4
  MaxResets = 1
SPECIFICATION Spec
INVARIANTS TypeOK KnownOutcomesCounted SuppressedAreReported
CHECK_DEADLOCK FALSE
