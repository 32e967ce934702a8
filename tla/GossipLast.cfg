SPECIFICATION Spec
CONSTANTS
  Vehicles = {a, b, c}
  Links <- AllLinks
  Route <- TwoEdges
  Method = "last"
  Ttl = 2
  MemoryLength = 2
  Sharing = 1
  MaxTime = 3
  Prompt = FALSE
INVARIANTS TypeOK UsedIsFresh
PROPERTY NeverStaler
SYMMETRY Symmetry
CHECK_DEADLOCK FALSE
