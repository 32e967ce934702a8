SPECIFICATION Spec
CONSTANTS
  Vehicles = {a, b, c}
  Links <- AllLinks
  Route <- TwoEdges
  Method = "average"
  Ttl = 2
  MemoryLength = 2
  Sharing = 1
  MaxTime = 5
  Prompt = TRUE
INVARIANTS HonestDates PerfectIsFreshest
SYMMETRY Symmetry
CHECK_DEADLOCK FALSE
