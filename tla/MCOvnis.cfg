SPECIFICATION Spec
CONSTANTS
  Phys = {a, b, c}
  Range = 2
  Rows = 2
  Cols = 1
  StopTime = 3
  Positions <- ThePositions
  AllConnected = FALSE
INVARIANTS TypeOK FleetInSync GridInSync AppsInSync NothingLeft AbortsRepeatStopStep
PROPERTY ImplementsPresence
CHECK_DEADLOCK FALSE
