SPECIFICATION Spec
CONSTANTS
  Nodes <- TheNodes
  Links <- TheLinks
  AppNodes = {2}
  BeaconLost = 2
  Interval = 1
INVARIANTS TypeOK AppMirrorsMac
PROPERTIES DropNeedsLosses StoppedIsForgotten
CHECK_DEADLOCK FALSE
