SPECIFICATION Spec
CONSTANTS
  Phys = {a, b}
  Range = 2
  Rows = 2
  Cols = 1
  StopTime = 2
  Positions <- ThePositions
  AllConnected = TRUE
PROPERTY EndsUnlessStopStepRepeats
CHECK_DEADLOCK FALSE
