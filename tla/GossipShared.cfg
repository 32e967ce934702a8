SPECIFICATION Spec
CONSTANTS
  Vehicles = {1, 2}
  Links <- AllLinks
  Route <- TwoEdges
  Method = "last"
  Ttl = 2
  MemoryLength = 2
  Sharing = 2
  MaxTime = 4
  Prompt = FALSE
INVARIANT UsedIsFresh
CHECK_DEADLOCK FALSE
