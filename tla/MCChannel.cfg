SPECIFICATION ChannelSpec
CONSTANTS
  Phys = {a, b}
  Range = 3
  Rows = 3
  Cols = 1
  Drift = 1
INVARIANTS ChannelTypeOK OneCellEach CellOfSetPos CloseAreReached
PROPERTY NoFrameAfterRemove
CHECK_DEADLOCK FALSE
